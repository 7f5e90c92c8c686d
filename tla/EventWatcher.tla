---------------------------- MODULE EventWatcher ----------------------------
(***************************************************************************)
(* The watch streams of one client (project:user) on one server: EventWatch*)
(* subscribes to the user's channel in Redis, a goroutine moves what is    *)
(* published into the stream's message channel, and the stream sends it.   *)
(*                                                                         *)
(* The registry knows one subscription per client, whatever the event type *)
(* and however many streams the client has open.                           *)
(***************************************************************************)
EXTENDS Naturals, Sequences, FiniteSets

CONSTANTS Watches,      \* calls of EventWatch by the client
          NoWatch,      \* the registry has no subscription of the client
          MaxPublished, \* bound: events published for the user
          StreamCap     \* capacity of a message channel (10000)

ASSUME EventWatcherAssumptions ==
    NoWatch \notin Watches /\ MaxPublished \in Nat /\ StreamCap \in Nat \ {0}

VARIABLES watch,       \* what each call of EventWatch does
          registered,  \* activeSubscriptions[client]
          subscribed,  \* the Redis subscriptions that are open
          published,   \* events published so far; an event is its number
          pending,     \* pubSub.Channel() of each subscription
          messages,    \* messageStream of each watch
          received,    \* what each client stream got
          single       \* history: never two streams of the client at a time

watcherVars == <<watch, registered, subscribed, published, pending, messages, received, single>>

Event == 1..MaxPublished

WatcherTypeOK ==
    /\ watch \in [Watches -> {"new", "open", "ended"}]
    /\ registered \in Watches \cup {NoWatch}
    /\ subscribed \subseteq Watches
    /\ published \in 0..MaxPublished
    /\ pending \in [Watches -> Seq(Event)]
    /\ messages \in [Watches -> Seq(Event)]
    /\ \A w \in Watches : Len(messages[w]) <= StreamCap
    /\ received \in [Watches -> Seq(Event)]
    /\ single \in BOOLEAN

WatcherInit ==
    /\ watch = [w \in Watches |-> "new"]
    /\ registered = NoWatch
    /\ subscribed = {}
    /\ published = 0
    /\ pending = [w \in Watches |-> <<>>]
    /\ messages = [w \in Watches |-> <<>>]
    /\ received = [w \in Watches |-> <<>>]
    /\ single = TRUE

Open == {w \in Watches : watch[w] = "open"}

----------------------------------------------------------------------------
\* Register subscribes and replaces what the registry knows of the client.
Register(w) ==
    /\ watch[w] = "new"
    /\ watch' = [watch EXCEPT ![w] = "open"]
    /\ registered' = w
    /\ subscribed' = subscribed \cup {w}
    /\ single' = (single /\ Open = {})
    /\ UNCHANGED <<published, pending, messages, received>>

\* Mutant of Unregister: the subscription stays open.
UnregisterForgets(w) ==
    /\ watch[w] = "open"
    /\ watch' = [watch EXCEPT ![w] = "ended"]
    /\ registered' = NoWatch
    /\ UNCHANGED <<subscribed, published, pending, messages, received, single>>

\* The stream's context is over, or a send fails.  Unregister closes the
\* subscription the registry has for the client, if any.
Unregister(w) ==
    /\ watch[w] = "open"
    /\ watch' = [watch EXCEPT ![w] = "ended"]
    /\ subscribed' = subscribed \ {registered}
    /\ registered' = NoWatch
    /\ UNCHANGED <<published, pending, messages, received, single>>

\* DispatchToUser: Redis hands the event to the subscriptions that are open.
DispatchToUser ==
    /\ published < MaxPublished
    /\ published' = published + 1
    /\ pending' = [w \in Watches |-> IF w \in subscribed THEN Append(pending[w], published + 1)
                                                         ELSE pending[w]]
    /\ UNCHANGED <<watch, registered, subscribed, messages, received, single>>

\* Dispatch publishes JSON, which handleSubscription cannot read as protobuf.
Dispatch ==
    /\ published < MaxPublished
    /\ published' = published + 1
    /\ UNCHANGED <<watch, registered, subscribed, pending, messages, received, single>>

\* Mutant of HandleMessage: a goroutine of its own hands over each event, so that a
\* later one may be first.
HandleConcurrently(w) ==
    /\ \E k \in 1..Len(pending[w]) :
         /\ pending' = [pending EXCEPT ![w] = SubSeq(@, 1, k - 1) \o SubSeq(@, k + 1, Len(@))]
         /\ messages' = [messages EXCEPT ![w] =
                           IF Len(@) < StreamCap THEN Append(@, pending[w][k]) ELSE @]
    /\ UNCHANGED <<watch, registered, subscribed, published, received, single>>

\* handleSubscription moves an event to the stream, or drops it when that is full.
\* When its subscription is closed it may go on until select picks done.
HandleMessage(w) ==
    /\ pending[w] # <<>>
    /\ pending' = [pending EXCEPT ![w] = Tail(@)]
    /\ messages' = [messages EXCEPT ![w] =
                      IF Len(@) < StreamCap THEN Append(@, Head(pending[w])) ELSE @]
    /\ UNCHANGED <<watch, registered, subscribed, published, received, single>>

StreamSend(w) ==
    /\ watch[w] = "open" /\ messages[w] # <<>>
    /\ received' = [received EXCEPT ![w] = Append(@, Head(messages[w]))]
    /\ messages' = [messages EXCEPT ![w] = Tail(@)]
    /\ UNCHANGED <<watch, registered, subscribed, published, pending, single>>

WatcherNext ==
    \/ \E w \in Watches : Register(w) \/ Unregister(w) \/ HandleMessage(w) \/ StreamSend(w)
    \/ DispatchToUser \/ Dispatch

WatcherSpec == WatcherInit /\ [][WatcherNext]_watcherVars

----------------------------------------------------------------------------
\* Safety: a stream shows the user's events in the order they were published and
\* none of them twice, also while others come and go.
EventsInOrder ==
    \A w \in Watches : LET line == received[w] \o messages[w] \o pending[w] IN
        \A i, j \in DOMAIN line : i < j => line[i] < line[j]

\* Safety, as the registry's comments mean it: an open stream is subscribed, and
\* a subscription has an open stream.
StreamsAreSubscribed == subscribed = Open

\* Safety: it is so for a client that never has two streams open at a time.
SingleIsSubscribed == single => StreamsAreSubscribed
=============================================================================
