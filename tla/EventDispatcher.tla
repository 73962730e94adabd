--------------------------- MODULE EventDispatcher ---------------------------
(***************************************************************************)
(* utility/event_dispatcher: handlers in the order they subscribed, each   *)
(* under an id of its own, and the subscription_guard that holds the id.   *)
(* new_device_event is the one event of the daemon, so there is one list.  *)
(* An empty guard has no dispatcher and id 0.                              *)
(***************************************************************************)
EXTENDS Naturals, Sequences, FiniteSets, SequencesExt

EmptyGuard == 0

NewDispatcher == [next_id |-> 0, handlers |-> <<>>]

\* The id as the number of handlers: one is used again after another went.
SubscribeByCount(dispatcher, call) ==
  [next_id  |-> Len(dispatcher.handlers) + 1,
   handlers |-> Append(dispatcher.handlers,
                       [id |-> Len(dispatcher.handlers) + 1, call |-> call])]

\* The new handler's id is next_id afterwards, and goes into its guard.
Subscribe(dispatcher, call) ==
  LET id == dispatcher.next_id + 1
  IN  [next_id  |-> id,
       handlers |-> Append(dispatcher.handlers, [id |-> id, call |-> call])]

\* erase_if: what has another id stays, in the order it had.
Unsubscribe(dispatcher, id) ==
  LET old == dispatcher.handlers
      stay == {k \in DOMAIN old : old[k].id # id}
      Place(n) == CHOOSE k \in stay : Cardinality({j \in stay : j <= k}) = n
  IN  [dispatcher EXCEPT !.handlers =
         [n \in 1 .. Cardinality(stay) |-> old[Place(n)]]]

\* reset, which the destructor and a move assignment call.
ResetGuard(dispatcher, id) ==
  IF id = EmptyGuard THEN dispatcher ELSE Unsubscribe(dispatcher, id)

\* What publish calls, in its order.
Called(dispatcher) ==
  [k \in DOMAIN dispatcher.handlers |-> dispatcher.handlers[k].call]
=============================================================================
