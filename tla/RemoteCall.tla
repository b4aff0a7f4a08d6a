----------------------------- MODULE RemoteCall -----------------------------
(***************************************************************************)
(* What a client function promises its caller: a call that returns         *)
(* NMBS_ERROR_NONE was executed exactly once, while it was being called,   *)
(* and returns what this execution found.  A call that returns an error    *)
(* was executed at most once: before it returned, later on, or never.      *)
(* Nothing overtakes an earlier call.  The promise ends when the           *)
(* connection breaks within a frame, which the library does not repair.    *)
(***************************************************************************)
EXTENDS Sequences

CONSTANTS Ops,             \* the calls
          Values,          \* what the server holds
          Effect(_, _),    \* what a call makes of it
          Answer(_, _),    \* what a call returns
          None             \* no answer

VARIABLES value, pc, op, answer,
          late,            \* calls that returned an error and may still be executed
          result,          \* of the last call
          broken           \* whether the promise has ended

callVars == <<value, pc, op, answer, late, result, broken>>

CallInit ==
  /\ value \in Values /\ pc = "idle" /\ op \in Ops /\ answer = None
  /\ late = <<>> /\ result = <<"no call", None>> /\ broken = FALSE

Begin(o) ==
  /\ pc = "idle"
  /\ pc' = "called" /\ op' = o
  /\ UNCHANGED <<value, answer, late, result>>

Execute ==
  /\ pc = "called" /\ late = <<>>
  /\ pc' = "executed"
  /\ value' = Effect(op, value) /\ answer' = Answer(op, value)
  /\ UNCHANGED <<op, late, result>>

\* The server refuses the call, or it is lost.
Drop ==
  /\ pc = "called" /\ pc' = "dropped"
  /\ UNCHANGED <<value, op, answer, late, result>>

ExecuteLate ==
  /\ late # <<>> /\ late' = Tail(late)
  /\ value' \in {value, Effect(Head(late), value)}
  /\ UNCHANGED <<pc, op, answer, result>>

Succeed ==
  /\ pc = "executed" /\ pc' = "idle"
  /\ result' = <<"NONE", answer>>
  /\ answer' = None
  /\ UNCHANGED <<value, op, late>>

Fail ==
  /\ pc # "idle" /\ pc' = "idle"
  /\ result' = <<"error", None>>
  /\ late' = IF pc = "called" THEN Append(late, op) ELSE late
  /\ answer' = None
  /\ UNCHANGED <<value, op>>

\* Invalid arguments, or a request that could not be sent.
NotCalled ==
  /\ pc = "idle" /\ op' \in Ops
  /\ result' = <<"error", None>>
  /\ UNCHANGED <<value, pc, answer, late>>

\* From here on anything may happen to the other variables.
Break == broken' = TRUE

CallNext ==
  \/ /\ UNCHANGED broken
     /\ \/ \E o \in Ops : Begin(o)
        \/ Execute \/ Drop \/ ExecuteLate \/ Succeed \/ Fail \/ NotCalled
  \/ Break

CallSpec == CallInit /\ [][CallNext]_callVars
=============================================================================
