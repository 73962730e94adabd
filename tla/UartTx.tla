------------------------------- MODULE UartTx -------------------------------
(***************************************************************************)
(* The device's writes to the serial line.  Four tasks write frames under  *)
(* the mutex jtag_tx_semaphore: the main task received packets, ping_task  *)
(* pings, the receive task and the Wi-Fi task's callback logs, which are   *)
(* three writes.  Waiting for the mutex and every write have a timeout;    *)
(* what a write returns is ignored.                                        *)
(*                                                                         *)
(* Time passes in ticks of 100 ms, the timeout of a write, and only while  *)
(* a write waits for room: everything else takes none.                     *)
(***************************************************************************)
EXTENDS Integers, Sequences

CONSTANTS MutexTimeout,     \* ticks: pdMS_TO_TICKS(1000)
          MaxFrames         \* bound: frames begun

Tasks == {"wifi", "receive", "ping", "main"}

\* The Wi-Fi task's, those xTaskCreate gives, and the main task's.
Priority == [wifi |-> 23, receive |-> 5, ping |-> 5, main |-> 1]

\* write_log_to_uart makes three writes, push_to_uart_with_synchro one.
Writes == [wifi |-> 3, receive |-> 3, ping |-> 1, main |-> 1]

ASSUME UartAssumption ==
  /\ MutexTimeout \in Nat /\ \A t \in Tasks : Writes[t] < MutexTimeout
  /\ MaxFrames \in Nat

VARIABLES state,            \* "idle", "waiting" for the mutex, "writing"
          frame,            \* the frame each task writes
          part,             \* writes of it done
          waited,           \* ticks each task has waited for the mutex
          mutex,            \* who holds it, or "free"
          blocked,          \* the holder's write has found no room
          frames,           \* frames begun
          line              \* what was written, in pieces

vars == <<state, frame, part, waited, mutex, blocked, frames, line>>

Init ==
  /\ state = [t \in Tasks |-> "idle"]
  /\ frame = [t \in Tasks |-> 0]
  /\ part = [t \in Tasks |-> 0]
  /\ waited = [t \in Tasks |-> 0]
  /\ mutex = "free"
  /\ blocked = FALSE
  /\ frames = 0
  /\ line = <<>>

Piece(t) == [frame |-> frame[t], part |-> part[t] + 1]

Push(t) ==
  /\ state[t] = "idle"
  /\ frames < MaxFrames
  /\ frames' = frames + 1
  /\ state' = [state EXCEPT ![t] = "waiting"]
  /\ frame' = [frame EXCEPT ![t] = frames + 1]
  /\ part' = [part EXCEPT ![t] = 0]
  /\ waited' = [waited EXCEPT ![t] = 0]
  /\ UNCHANGED <<mutex, blocked, line>>

(***************************************************************************)
(* xSemaphoreTake: of the tasks that wait the one of highest priority runs *)
(* first.  One that has just given the mutex may take it again before a    *)
(* task of no higher priority that waits.                                  *)
(***************************************************************************)
Take(t) ==
  /\ state[t] = "waiting"
  /\ mutex = "free"
  /\ \A u \in Tasks : state[u] = "waiting" => Priority[u] <= Priority[t]
  /\ mutex' = t
  /\ state' = [state EXCEPT ![t] = "writing"]
  /\ UNCHANGED <<frame, part, waited, blocked, frames, line>>

\* Writing the frame without a look at what xSemaphoreTake returned.
GiveUpAndWrite(t) ==
  /\ state[t] = "waiting"
  /\ waited[t] = MutexTimeout
  /\ state' = [state EXCEPT ![t] = "writing"]
  /\ UNCHANGED <<frame, part, waited, mutex, blocked, frames, line>>

\* xSemaphoreTake returns pdFALSE: the frame is not written.
GiveUp(t) ==
  /\ state[t] = "waiting"
  /\ waited[t] = MutexTimeout
  /\ state' = [state EXCEPT ![t] = "idle"]
  /\ UNCHANGED <<frame, part, waited, mutex, blocked, frames, line>>

\* Once more after the last write.
WriteAgain(t) ==
  /\ state[t] = "writing"
  /\ part[t] <= Writes[t]
  /\ line' = Append(line, Piece(t))
  /\ part' = [part EXCEPT ![t] = @ + 1]
  /\ blocked' = FALSE
  /\ UNCHANGED <<state, frame, waited, mutex, frames>>

\* usb_serial_jtag_write_bytes has room, or gets it in time.
Write(t) ==
  /\ state[t] = "writing"
  /\ part[t] < Writes[t]
  /\ line' = Append(line, Piece(t))
  /\ part' = [part EXCEPT ![t] = @ + 1]
  /\ blocked' = FALSE
  /\ UNCHANGED <<state, frame, waited, mutex, frames>>

NoRoom(t) ==
  /\ state[t] = "writing"
  /\ part[t] < Writes[t]
  /\ ~blocked
  /\ blocked' = TRUE
  /\ UNCHANGED <<state, frame, part, waited, mutex, frames, line>>

AllWait(waiting) == [t \in Tasks |-> IF t \in waiting THEN waited[t] + 1
                                     ELSE waited[t]]

\* Writing again what found no room.
TickRetries ==
  LET waiting == {t \in Tasks : state[t] = "waiting"}
  IN  /\ blocked
      /\ \A t \in waiting : waited[t] < MutexTimeout
      /\ waited' = AllWait(waiting)
      /\ blocked' = FALSE
      /\ UNCHANGED <<state, frame, part, mutex, frames, line>>

(***************************************************************************)
(* 100 ms: the write that waits for room ends, having written a part of    *)
(* its bytes or none, and its task goes on as if it had written them.      *)
(***************************************************************************)
Tick ==
  LET waiting == {t \in Tasks : state[t] = "waiting"}
  IN  /\ blocked
      /\ \A t \in waiting : waited[t] < MutexTimeout
      /\ waited' = AllWait(waiting)
      /\ blocked' = FALSE
      /\ \E t \in Tasks :
           /\ state[t] = "writing" /\ part[t] < Writes[t]
           /\ part' = [part EXCEPT ![t] = @ + 1]
           /\ line' \in {line, Append(line, Piece(t))}
      /\ UNCHANGED <<state, frame, mutex, frames>>

\* The give left out when the frame was not written whole.
GiveIfWritten(t) ==
  /\ state[t] = "writing"
  /\ part[t] = Writes[t]
  /\ state' = [state EXCEPT ![t] = "idle"]
  /\ mutex' = IF \E i \in DOMAIN line : line[i] = [frame |-> frame[t],
                                                   part |-> part[t]]
              THEN "free" ELSE mutex
  /\ UNCHANGED <<frame, part, waited, blocked, frames, line>>

\* xSemaphoreGive
Give(t) ==
  /\ state[t] = "writing"
  /\ part[t] = Writes[t]
  /\ state' = [state EXCEPT ![t] = "idle"]
  /\ mutex' = "free"
  /\ UNCHANGED <<frame, part, waited, blocked, frames, line>>

Next ==
  \/ \E t \in Tasks : \/ Push(t) \/ Take(t) \/ GiveUp(t)
                      \/ Write(t) \/ NoRoom(t) \/ Give(t)
  \/ Tick

(***************************************************************************)
(* Tasks that can run do, and a write ends, by room or by its timeout.     *)
(***************************************************************************)
Spec ==
  /\ Init /\ [][Next]_vars
  /\ \A t \in Tasks :
       /\ WF_vars(Take(t)) /\ WF_vars(GiveUp(t)) /\ WF_vars(Give(t))
       /\ WF_vars(Write(t) \/ Tick)

-----------------------------------------------------------------------------
TypeOK ==
  /\ state \in [Tasks -> {"idle", "waiting", "writing"}]
  /\ frame \in [Tasks -> 0 .. MaxFrames]
  /\ part \in [Tasks -> 0 .. 3]
  /\ \A t \in Tasks : part[t] <= Writes[t]
  /\ waited \in [Tasks -> 0 .. MutexTimeout]
  /\ mutex \in Tasks \cup {"free"}
  /\ blocked \in BOOLEAN
  /\ frames \in 0 .. MaxFrames
  /\ line \in Seq([frame : 1 .. MaxFrames, part : 1 .. 3])

(***************************************************************************)
(* Whatever takes and writes time out, the pieces of a frame stand         *)
(* together on the line and in their order: the host finds frames, some of *)
(* them cut, and never one inside another.                                 *)
(***************************************************************************)
FramesTogether ==
  \A i, j \in DOMAIN line :
    i < j /\ line[i].frame = line[j].frame
      => \A k \in i .. j - 1 :
           /\ line[k].frame = line[j].frame
           /\ line[k].part < line[k + 1].part

(***************************************************************************)
(* The callback's log never waits for the mutex longer than the three      *)
(* timeouts of one log, and so is never given up, whatever lower tasks     *)
(* write; the others may be kept from the mutex for good.                  *)
(***************************************************************************)
WifiGetsMutex ==
  state["wifi"] = "waiting" => waited["wifi"] <= 3

(***************************************************************************)
(* Every push comes to an end: the mutex is never left taken.              *)
(***************************************************************************)
PushEnds == \A t \in Tasks : state[t] # "idle" ~> state[t] = "idle"
=============================================================================
