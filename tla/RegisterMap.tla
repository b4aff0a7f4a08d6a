----------------------------- MODULE RegisterMap -----------------------------
(***************************************************************************)
(* The two holding registers of the firmware, loop_count and the LED pin,  *)
(* behind function codes 3, 6 and 16: the checks of the library's handlers *)
(* (src/lib/nanoMODBUS/nanomodbus.c), the callbacks of                     *)
(* src/src/nmbs/port.c, and a master that loses frames and repeats         *)
(* requests, as pymodbus does.                                             *)
(*                                                                         *)
(* Register numbers are modulo AddrMod (2^16 in the code).  A value is     *)
(* what fits a register.                                                   *)
(***************************************************************************)
EXTENDS Integers, Sequences

CONSTANTS
  Values,     \* what a master writes
  AddrMod,    \* registers there could be (65536)
  MaxRead,    \* most registers of FC 3 (125)
  MaxWrite,   \* most registers of FC 16 (123)
  Requests    \* [fc, broadcast, address, quantity, values]

ASSUME RegisterAssumption ==
  /\ Values \subseteq Nat /\ 0 \in Values /\ 1 \in Values
  /\ AddrMod \in Nat /\ AddrMod >= 2 /\ MaxRead \in Nat /\ MaxWrite \in Nat
  /\ Requests \subseteq [fc : {3, 6, 16}, broadcast : BOOLEAN, address : 0..AddrMod - 1,
                         quantity : 0..AddrMod - 1, values : Seq(Values)]
  /\ \A q \in Requests : q.fc = 6 => Len(q.values) = 1

VARIABLES
  loop_count, led,
  request,    \* the request the master is at
  frame,      \* what is on the line
  data,       \* registers_out of the last FC 3
  waiting,    \* the master waits for a reply
  ran,        \* history: the request was executed, and no reset came after
  reset,      \* history: a reset came after the request was sent first
  possible    \* history: what the master may believe of each register

registers == <<loop_count, led>>
master    == <<request, waiting>>
regVars   == <<registers, frame, data, master, ran, reset, possible>>

Registers == {0, 1}

RegTypeOK ==
  /\ loop_count \in Values /\ led \in {0, 1}
  /\ request \in Requests
  /\ frame \in {"none", "request", "ok", "exception"}
  /\ data \in Seq(Values)
  /\ waiting \in BOOLEAN /\ ran \in BOOLEAN /\ reset \in BOOLEAN
  /\ possible \in [Registers -> SUBSET Values]

RegInit ==
  /\ loop_count = 0 /\ led = 0
  /\ request \in Requests /\ waiting = FALSE
  /\ frame = "none" /\ data = <<>> /\ ran = FALSE /\ reset = FALSE
  /\ possible = [r \in Registers |-> {0}]

-----------------------------------------------------------------------------
(* The callbacks. *)

cur_reg(i) == (request.address + i) % AddrMod

\* The loops stop at the first register there is not; what they did stays done.
Handled(quantity) ==
  {i \in 0..quantity - 1 : \A j \in 0..i : cur_reg(j) \in Registers}

All(quantity) == Handled(quantity) = 0..quantity - 1

Reg(r) == IF r = 0 THEN loop_count ELSE led

\* Mutant: one register too far.
ReadShifted(quantity) == [i \in 1..quantity |-> Reg(cur_reg(i))]
ReadRegisters(quantity) == [i \in 1..quantity |-> Reg(cur_reg(i - 1))]

server_read_holding_registers ==
  /\ data' = IF All(request.quantity) THEN ReadRegisters(request.quantity) ELSE data
  /\ frame' = IF request.broadcast THEN "none"
              ELSE IF All(request.quantity) THEN "ok" ELSE "exception"
  /\ UNCHANGED registers

\* Mutant: the value is kept instead of the level of the pin.
LevelRaw(value) == value
\* set_led_pin_state and get_led_pin_state: any value but 0 is 1.
Level(value) == IF value # 0 THEN 1 ELSE 0

\* Mutant: the loop writes its first value everywhere.
StoredFirst(quantity, r, old) ==
  IF \E i \in Handled(quantity) : cur_reg(i) = r THEN request.values[1] ELSE old

\* What is in register r after the loop.
Stored(quantity, r, old) ==
  IF \E i \in Handled(quantity) : cur_reg(i) = r
  THEN request.values[1 + CHOOSE i \in Handled(quantity) : cur_reg(i) = r] ELSE old

\* Mutant: switching the LED on counts (main.c:36, commented out there).
StoreCounts(quantity) ==
  /\ led' = Level(Stored(quantity, 1, led))
  /\ loop_count' = Stored(quantity, 0, loop_count) + led'

Store(quantity) ==
  /\ loop_count' = Stored(quantity, 0, loop_count)
  /\ led' = Level(Stored(quantity, 1, led))

server_write_multiple_registers(quantity) ==
  /\ Store(quantity)
  /\ frame' = IF request.broadcast THEN "none"
              ELSE IF All(quantity) THEN "ok" ELSE "exception"
  /\ UNCHANGED data

-----------------------------------------------------------------------------
(* The handlers' checks before the callback. *)

Refuse ==
  /\ frame' = IF request.broadcast THEN "none" ELSE "exception"
  /\ UNCHANGED <<registers, data>>

InRange(max) == /\ request.quantity \in 1..max
                /\ request.address + request.quantity <= AddrMod

handle_read_registers ==
  /\ request.fc = 3
  /\ IF InRange(MaxRead) THEN server_read_holding_registers ELSE Refuse

handle_write_single_register ==
  /\ request.fc = 6 /\ server_write_multiple_registers(1)

\* More values than the handler has room for: no answer at all.
Drop ==
  /\ frame' = "none"
  /\ UNCHANGED <<registers, data>>

handle_write_multiple_registers ==
  /\ request.fc = 16
  /\ IF Len(request.values) > MaxWrite THEN Drop
     ELSE IF InRange(MaxWrite) /\ Len(request.values) = request.quantity
     THEN server_write_multiple_registers(request.quantity) ELSE Refuse

Serve ==
  /\ frame = "request"
  /\ handle_read_registers \/ handle_write_single_register \/ handle_write_multiple_registers
  /\ ran' = TRUE
  /\ UNCHANGED <<master, reset, possible>>

-----------------------------------------------------------------------------
(* The master, the line and the reset.  The line holds one frame; a broadcast *)
(* that is still on it when the next request is sent is lost.                 *)

Writes(q) == q.fc \in {6, 16}

\* What request q stores in register r, if it stores anything there.
New(q, r) ==
  IF Writes(q) THEN {IF r = 1 THEN Level(q.values[i]) ELSE q.values[i] :
                       i \in {j \in 1..Len(q.values) : q.address + j - 1 = r}}
  ELSE {}

SendFirst(q) ==
  /\ ~waiting
  /\ request' = q /\ frame' = "request" /\ waiting' = ~q.broadcast
  /\ ran' = FALSE /\ reset' = FALSE
  /\ possible' = [r \in Registers |-> possible[r] \cup New(q, r)]
  /\ UNCHANGED <<registers, data>>

SendAgain ==
  /\ waiting /\ frame = "none"
  /\ frame' = "request"
  /\ UNCHANGED <<registers, data, master, ran, reset, possible>>

\* An acknowledged write tells the master what the registers hold now.
Receive ==
  /\ waiting /\ frame \in {"ok", "exception"}
  /\ frame' = "none" /\ waiting' = FALSE
  /\ possible' = IF frame = "ok" /\ Writes(request) /\ ~reset
                 THEN [r \in Registers |->
                         IF New(request, r) # {} THEN New(request, r) ELSE possible[r]]
                 ELSE possible
  /\ UNCHANGED <<registers, data, request, ran, reset>>

GiveUp ==
  /\ waiting /\ frame = "none"
  /\ waiting' = FALSE
  /\ UNCHANGED <<registers, frame, data, request, ran, reset, possible>>

LoseFrame ==
  /\ frame # "none" /\ frame' = "none"
  /\ UNCHANGED <<registers, data, master, ran, reset, possible>>

ControllerReset ==
  /\ loop_count' = 0 /\ led' = 0
  /\ ran' = FALSE /\ reset' = TRUE
  /\ possible' = [r \in Registers |-> possible[r] \cup {0}]
  /\ UNCHANGED <<frame, data, master>>

RegNext ==
  \/ \E q \in Requests : SendFirst(q)
  \/ SendAgain \/ Receive \/ GiveUp \/ LoseFrame \/ Serve \/ ControllerReset

RegSpec == RegInit /\ [][RegNext]_regVars

-----------------------------------------------------------------------------
\* In every state the registers hold what the master may believe.
RegistersPossible == \A r \in Registers : Reg(r) \in possible[r]

\* A master that takes an acknowledged write for done, and any other write for
\* done or not, register by register, is never surprised by what is there or by
\* what it reads: not after lost requests, lost replies, repetitions, resets,
\* broadcasts or writes refused half-way.
ReadIsPossible ==
  /\ RegistersPossible
  /\ waiting /\ frame = "ok" /\ request.fc = 3 =>
       \A i \in 1..Len(data) : data[i] \in possible[request.address + i - 1]

\* A request that is executed again after its reply was lost changes nothing.
RepeatChangesNothing == [][ran /\ ran' => UNCHANGED registers]_regVars
=============================================================================
