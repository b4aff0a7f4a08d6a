-------------------------- MODULE RegisterMapProofs --------------------------
(***************************************************************************)
(* A master is never surprised by what it reads from the registers, and a  *)
(* repeated request changes nothing, for every set of requests, every      *)
(* limit and every loss and reset.                                         *)
(***************************************************************************)
EXTENDS RegisterMap, SequenceTheorems, TLAPS

\* What is still to be executed is believed possible.
Announced ==
  waiting \/ frame = "request" => \A r \in Registers : New(request, r) \subseteq possible[r]

\* An acknowledged write is in the registers until the next reset.
Acknowledged ==
  frame = "ok" /\ Writes(request) /\ ~reset =>
    \A r \in Registers : New(request, r) # {} => Reg(r) \in New(request, r)

\* The write that request makes when its handler accepts it.
Accepted(q) ==
  \/ request.fc = 6 /\ q = 1
  \/ /\ request.fc = 16 /\ InRange(MaxWrite) /\ q = request.quantity
     /\ Len(request.values) = q

\* The registers hold already what an executed request would store again.
Settled ==
  ran => \A q \in Nat : Accepted(q) =>
    Stored(q, 0, loop_count) = loop_count /\ Level(Stored(q, 1, led)) = led

\* What a reply to FC 3 reports are registers there are, and possible.
Reported ==
  frame = "ok" /\ request.fc = 3 =>
    \A i \in 1..Len(data) : /\ request.address + i - 1 \in Registers
                            /\ data[i] \in possible[request.address + i - 1]

RegisterInv ==
  /\ RegTypeOK /\ RegistersPossible /\ Reported
  /\ Announced /\ Acknowledged /\ Settled

-----------------------------------------------------------------------------
LEMMA RequestType ==
  ASSUME RegTypeOK
  PROVE  /\ request.fc \in {3, 6, 16} /\ request.broadcast \in BOOLEAN
         /\ request.address \in Nat /\ request.address < AddrMod
         /\ request.quantity \in Nat /\ request.quantity < AddrMod
         /\ request.values \in Seq(Values) /\ Len(request.values) \in Nat
         /\ request.fc = 6 => Len(request.values) = 1
         /\ AddrMod \in Nat /\ AddrMod >= 2
<1>1. request \in [fc : {3, 6, 16}, broadcast : BOOLEAN, address : 0..AddrMod - 1,
                   quantity : 0..AddrMod - 1, values : Seq(Values)]
      /\ request \in Requests
  BY RegisterAssumption DEF RegTypeOK
<1>2. request.values \in Seq(Values)
  BY <1>1
<1>3. Len(request.values) \in Nat
  BY <1>2, LenProperties
<1>4. request.fc = 6 => Len(request.values) = 1
  BY <1>1, RegisterAssumption
<1>5. request.address \in 0..AddrMod - 1 /\ request.quantity \in 0..AddrMod - 1
  BY <1>1
<1> QED
  BY <1>1, <1>2, <1>3, <1>4, <1>5, RegisterAssumption

\* Without the range check the sum could wrap; with it register numbers are
\* the plain sum.
LEMMA NoWrap ==
  ASSUME RegTypeOK, NEW q \in Nat, request.address + q <= AddrMod, NEW i \in 0..q - 1
  PROVE  cur_reg(i) = request.address + i
<1>1. request.address \in Nat /\ AddrMod \in Nat /\ AddrMod >= 2 /\ i \in Nat
      /\ request.address + i < AddrMod
  BY RequestType
<1>2. \A x, m \in Nat : x < m => x % m = x
  OBVIOUS
<1>3. request.address + i \in Nat
  BY <1>1
<1> QED
  BY <1>1, <1>2, <1>3 DEF cur_reg

LEMMA AcceptedBounds ==
  ASSUME RegTypeOK, NEW q \in Nat, Accepted(q)
  PROVE  request.address + q <= AddrMod /\ Len(request.values) = q
<1>1. CASE request.fc = 6 /\ q = 1
  BY <1>1, RequestType
<1>2. CASE request.fc = 16 /\ InRange(MaxWrite) /\ q = request.quantity
           /\ Len(request.values) = q
  BY <1>2 DEF InRange
<1> QED
  BY <1>1, <1>2 DEF Accepted

\* What a write leaves in register r is the value that was there, or the one
\* the request has for it; this one, if the whole request was carried out.
LEMMA StoredValue ==
  ASSUME RegTypeOK, NEW q \in Nat, Accepted(q), NEW r \in Registers, NEW old
  PROVE  \/ /\ Stored(q, r, old) = old
            /\ All(q) => \A j \in 1..Len(request.values) : request.address + j - 1 # r
         \/ \E j \in 1..Len(request.values) :
              request.address + j - 1 = r /\ Stored(q, r, old) = request.values[j]
<1>1. Len(request.values) = q /\ request.address \in Nat
      /\ \A i \in 0..q - 1 : cur_reg(i) = request.address + i
  BY AcceptedBounds, NoWrap, RequestType
<1>2. CASE \E i \in Handled(q) : cur_reg(i) = r
  <2> DEFINE i == CHOOSE i \in Handled(q) : cur_reg(i) = r
  <2>1. i \in Handled(q) /\ cur_reg(i) = r
    BY <1>2
  <2>2. Stored(q, r, old) = request.values[1 + i]
    BY <1>2 DEF Stored
  <2> HIDE DEF i
  <2>3. i \in 0..q - 1
    BY <2>1 DEF Handled
  <2>4. request.address + i = r
    BY <1>1, <2>1, <2>3
  <2>5. 1 + i \in 1..q /\ request.address + (1 + i) - 1 = r
    BY <1>1, <2>3, <2>4
  <2> QED
    BY <1>1, <2>2, <2>5
<1>3. CASE ~ \E i \in Handled(q) : cur_reg(i) = r
  <2>1. Stored(q, r, old) = old
    BY <1>3 DEF Stored
  <2>2. ASSUME All(q), NEW j \in 1..Len(request.values), request.address + j - 1 = r
        PROVE  FALSE
    <3>1. j - 1 \in 0..q - 1 /\ request.address + (j - 1) = r
      BY <1>1, <2>2
    <3>2. cur_reg(j - 1) = r
      BY <1>1, <3>1
    <3>3. j - 1 \in Handled(q)
      BY <2>2, <3>1 DEF All
    <3> QED
      BY <1>3, <3>2, <3>3
  <2> QED
    BY <2>1, <2>2
<1> QED
  BY <1>2, <1>3

-----------------------------------------------------------------------------
\* A write leaves in every register what it held, or what the request has for
\* it; this, if the request was carried out to its end.
LEMMA StoredReg ==
  ASSUME RegTypeOK, NEW q \in Nat, Accepted(q), Store(q), NEW r \in Registers
  PROVE  /\ Reg(r)' \in Values /\ (r = 1 => Reg(r)' \in {0, 1})
         /\ \/ Reg(r)' = Reg(r) /\ (All(q) => New(request, r) = {})
            \/ Reg(r)' \in New(request, r)
<1> DEFINE new == Stored(q, r, Reg(r))
<1>1. Reg(r)' = (IF r = 1 THEN Level(new) ELSE new) /\ r \in {0, 1}
  BY DEF Store, Reg, Registers
<1>2. Writes(request)
  BY DEF Accepted, Writes
<1>3. New(request, r) = {IF r = 1 THEN Level(request.values[i]) ELSE request.values[i] :
                           i \in {j \in 1..Len(request.values) : request.address + j - 1 = r}}
  BY <1>2 DEF New
<1>4. Reg(r) \in Values /\ (r = 1 => Reg(r) \in {0, 1})
  BY <1>1, RegisterAssumption DEF RegTypeOK, Reg
<1>5. \A v : Level(v) \in {0, 1} /\ Level(v) \in Values
  BY RegisterAssumption DEF Level
<1>6. CASE /\ new = Reg(r)
           /\ All(q) => \A j \in 1..Len(request.values) : request.address + j - 1 # r
  <2>1. Reg(r)' = Reg(r)
    BY <1>1, <1>4, <1>6 DEF Level
  <2>2. All(q) => New(request, r) = {}
    BY <1>3, <1>6
  <2> QED
    BY <1>4, <2>1, <2>2
<1>7. CASE \E j \in 1..Len(request.values) :
             request.address + j - 1 = r /\ new = request.values[j]
  <2>1. PICK j \in 1..Len(request.values) :
          request.address + j - 1 = r /\ new = request.values[j]
    BY <1>7
  <2>2. request.values[j] \in Values
    BY <2>1, RequestType, ElementOfSeq
  <2>3. Reg(r)' \in New(request, r)
    BY <1>1, <1>3, <2>1
  <2> QED
    BY <1>1, <1>5, <2>1, <2>2, <2>3
<1>8. \/ /\ new = Reg(r)
         /\ All(q) => \A j \in 1..Len(request.values) : request.address + j - 1 # r
      \/ \E j \in 1..Len(request.values) :
           request.address + j - 1 = r /\ new = request.values[j]
  BY StoredValue
<1> QED
  BY <1>6, <1>7, <1>8

\* Carried out again, a write stores the same.
LEMMA StoredAgain ==
  ASSUME RegTypeOK, NEW q \in Nat, Store(q), request' = request
  PROVE  /\ Stored(q, 0, loop_count)' = loop_count'
         /\ Level(Stored(q, 1, led))' = led'
<1>1. \A r, a, b : \/ Stored(q, r, a) = Stored(q, r, b)
                   \/ Stored(q, r, a) = a /\ Stored(q, r, b) = b
  BY DEF Stored
<1>2. Stored(q, 0, loop_count)' = Stored(q, 0, loop_count')
      /\ Stored(q, 1, led)' = Stored(q, 1, led')
  BY DEF Stored, Handled, cur_reg
<1>3. Stored(q, 0, loop_count') = loop_count'
  BY <1>1 DEF Store
<1>4. Level(Stored(q, 1, led')) = led'
  <2>1. CASE Stored(q, 1, led') = Stored(q, 1, led)
    BY <2>1 DEF Store
  <2>2. CASE Stored(q, 1, led') = led'
    BY <2>2 DEF Store, Level
  <2> QED
    BY <1>1, <2>1, <2>2
<1> QED
  BY <1>2, <1>3, <1>4 DEF Level

\* What the handlers do with a request: store, read or refuse it.
LEMMA ServeCases ==
  ASSUME RegTypeOK, Serve
  PROVE  \/ \E q \in Nat : /\ Accepted(q) /\ \A p \in Nat : Accepted(p) => p = q
                            /\ server_write_multiple_registers(q)
         \/ request.fc = 3 /\ InRange(MaxRead) /\ server_read_holding_registers
         \/ (Refuse \/ Drop) /\ \A p \in Nat : ~Accepted(p)
<1>0. request.quantity \in Nat /\ Len(request.values) \in Nat /\ MaxWrite \in Nat
  BY RequestType, RegisterAssumption
<1>1. CASE handle_read_registers
  <2>1. \A p \in Nat : ~Accepted(p)
    BY <1>1 DEF handle_read_registers, Accepted
  <2> QED
    BY <1>1, <2>1 DEF handle_read_registers
<1>2. CASE handle_write_single_register
  <2>1. 1 \in Nat /\ Accepted(1) /\ \A p \in Nat : Accepted(p) => p = 1
    BY <1>2 DEF handle_write_single_register, Accepted
  <2> QED
    BY <1>2, <2>1 DEF handle_write_single_register
<1>3. CASE handle_write_multiple_registers
  <2>1. CASE InRange(MaxWrite) /\ Len(request.values) = request.quantity
    <3>0. ~(Len(request.values) > MaxWrite)
      BY <1>0, <2>1 DEF InRange
    <3>1. Accepted(request.quantity) /\ \A p \in Nat : Accepted(p) => p = request.quantity
      BY <1>3, <2>1 DEF handle_write_multiple_registers, Accepted
    <3> QED
      BY <1>0, <1>3, <2>1, <3>0, <3>1 DEF handle_write_multiple_registers
  <2>2. CASE ~(InRange(MaxWrite) /\ Len(request.values) = request.quantity)
    <3>1. \A p \in Nat : ~Accepted(p)
      BY <1>3, <2>2 DEF handle_write_multiple_registers, Accepted
    <3> QED
      BY <1>3, <2>2, <3>1 DEF handle_write_multiple_registers
  <2> QED
    BY <2>1, <2>2
<1> QED
  BY <1>1, <1>2, <1>3 DEF Serve

-----------------------------------------------------------------------------
\* A write that is carried out, to its end or half-way, keeps the invariant.
LEMMA WriteStep ==
  ASSUME RegisterInv, frame = "request", NEW q \in Nat, Accepted(q),
         \A p \in Nat : Accepted(p) => p = q, server_write_multiple_registers(q),
         ran' = TRUE, UNCHANGED <<master, reset, possible>>
  PROVE  RegisterInv'
<1> USE DEF server_write_multiple_registers
<1>1. /\ RegTypeOK /\ Store(q) /\ request' = request /\ waiting' = waiting
      /\ reset' = reset /\ possible' = possible /\ data' = data
      /\ frame' \in {"none", "ok", "exception"}
  BY DEF RegisterInv, master
<1>2. Writes(request) /\ request.fc # 3
  BY DEF Accepted, Writes
<1>3. \A r \in Registers :
        /\ Reg(r)' \in Values /\ (r = 1 => Reg(r)' \in {0, 1})
        /\ \/ Reg(r)' = Reg(r) /\ (All(q) => New(request, r) = {})
           \/ Reg(r)' \in New(request, r)
  BY <1>1, StoredReg
<1>4. \A r \in Registers : New(request, r)' = New(request, r)
  BY <1>1 DEF New, Writes, Level
<1>5. RegTypeOK'
  <2>1. loop_count' \in Values /\ led' \in {0, 1}
    BY <1>3 DEF Registers, Reg
  <2> QED
    BY <1>1, <2>1 DEF RegTypeOK, Registers
<1>6. RegistersPossible'
  <2>1. \A r \in Registers : Reg(r)' \in possible[r]
    BY <1>3 DEF RegisterInv, RegistersPossible, Announced
  <2> QED
    BY <1>1, <2>1 DEF RegistersPossible, Registers
<1>7. Reported'
  BY <1>1, <1>2 DEF Reported
<1>8. Announced'
  BY <1>1, <1>4 DEF RegisterInv, Announced, Registers
<1>9. Acknowledged'
  <2>1. frame' = "ok" => All(q)
    OBVIOUS
  <2>2. frame' = "ok" => \A r \in Registers : New(request, r) # {} => Reg(r)' \in New(request, r)
    BY <1>3, <2>1
  <2> QED
    BY <1>4, <2>2 DEF Acknowledged, Registers
<1>10. Settled'
  <2>1. Stored(q, 0, loop_count)' = loop_count' /\ Level(Stored(q, 1, led))' = led'
    BY <1>1, StoredAgain
  <2>2. \A p \in Nat : Accepted(p)' => p = q
    BY <1>1 DEF Accepted, InRange
  <2> QED
    BY <2>1, <2>2 DEF Settled
<1> QED
  BY <1>5, <1>6, <1>7, <1>8, <1>9, <1>10 DEF RegisterInv

\* A reply to FC 3 reports registers there are.
LEMMA ReadStep ==
  ASSUME RegisterInv, frame = "request", request.fc = 3, InRange(MaxRead),
         server_read_holding_registers, ran' = TRUE, UNCHANGED <<master, reset, possible>>
  PROVE  RegisterInv'
<1> DEFINE q == request.quantity
<1>1. /\ RegTypeOK /\ request' = request /\ waiting' = waiting
      /\ reset' = reset /\ possible' = possible
      /\ loop_count' = loop_count /\ led' = led
      /\ frame' \in {"none", "ok", "exception"}
  BY DEF RegisterInv, master, registers, server_read_holding_registers
<1>2. \A p \in Nat : ~Accepted(p)'
  BY <1>1 DEF Accepted
<1>3. ~Writes(request)'
  BY <1>1 DEF Writes
<1>4. ASSUME All(q) PROVE /\ Len(ReadRegisters(q)) = q /\ ReadRegisters(q) \in Seq(Values)
                          /\ \A i \in 1..q : /\ request.address + i - 1 \in Registers
                                             /\ ReadRegisters(q)[i] \in possible[request.address + i - 1]
  <2>1. q \in Nat /\ request.address \in Nat /\ request.address + q <= AddrMod
    BY <1>1, RequestType DEF InRange
  <2>2. ASSUME NEW i \in 1..q PROVE /\ cur_reg(i - 1) = request.address + i - 1
                                    /\ cur_reg(i - 1) \in Registers
    <3>1. i - 1 \in 0..q - 1
      BY <2>1
    <3>2. cur_reg(i - 1) = request.address + (i - 1)
      BY <1>1, <2>1, <3>1, NoWrap
    <3>3. i - 1 \in Handled(q)
      BY <1>4, <3>1 DEF All
    <3>4. i - 1 \in 0..i - 1
      BY <2>1
    <3>5. cur_reg(i - 1) \in Registers
      BY <3>3, <3>4 DEF Handled
    <3>6. request.address + (i - 1) = request.address + i - 1
      BY <2>1
    <3> QED
      BY <3>2, <3>5, <3>6
  <2>3. \A r \in Registers : Reg(r) \in Values /\ Reg(r) \in possible[r]
    BY <1>1, RegisterAssumption DEF RegisterInv, RegistersPossible, RegTypeOK, Reg, Registers
  <2>4. \A i \in 1..q : /\ ReadRegisters(q)[i] = Reg(cur_reg(i - 1))
                        /\ ReadRegisters(q)[i] \in Values
    BY <2>2, <2>3 DEF ReadRegisters
  <2>5. ReadRegisters(q) \in [1..q -> Values]
    BY <2>2, <2>3 DEF ReadRegisters
  <2>6. ReadRegisters(q) \in Seq(Values) /\ Len(ReadRegisters(q)) = q
    BY <2>1, <2>5, SeqDef, LenProperties
  <2> QED
    BY <2>2, <2>3, <2>4, <2>6
<1>5. data' \in Seq(Values)
  BY <1>1, <1>4 DEF server_read_holding_registers, RegTypeOK
<1>6. frame' = "ok" => All(q) /\ data' = ReadRegisters(q)
  BY DEF server_read_holding_registers
<1>7. RegTypeOK'
  BY <1>1, <1>5 DEF RegTypeOK, Registers
<1>8. RegistersPossible'
  BY <1>1 DEF RegisterInv, RegistersPossible, Reg, Registers
<1>9. Reported'
  <2>1. frame' = "ok" => \A i \in 1..Len(data') :
          /\ request.address + i - 1 \in Registers
          /\ data'[i] \in possible[request.address + i - 1]
    BY <1>4, <1>6
  <2> QED
    BY <1>1, <2>1 DEF Reported, Registers
<1>10. Announced'
  BY <1>1 DEF RegisterInv, Announced, Registers, New, Writes, Level
<1>11. Acknowledged'
  BY <1>3 DEF Acknowledged
<1>12. Settled'
  BY <1>2 DEF Settled
<1> HIDE DEF q
<1> QED
  BY <1>7, <1>8, <1>9, <1>10, <1>11, <1>12 DEF RegisterInv

LEMMA ServeStep ==
  ASSUME RegisterInv, Serve
  PROVE  RegisterInv'
<1>1. RegTypeOK /\ frame = "request" /\ ran' = TRUE /\ UNCHANGED <<master, reset, possible>>
  BY DEF RegisterInv, Serve
<1>2. CASE \E q \in Nat : /\ Accepted(q) /\ \A p \in Nat : Accepted(p) => p = q
                          /\ server_write_multiple_registers(q)
  BY <1>1, <1>2, WriteStep
<1>3. CASE request.fc = 3 /\ InRange(MaxRead) /\ server_read_holding_registers
  BY <1>1, <1>3, ReadStep
<1>4. CASE (Refuse \/ Drop) /\ \A p \in Nat : ~Accepted(p)
  <2>1. /\ request' = request /\ waiting' = waiting /\ reset' = reset
        /\ possible' = possible /\ data' = data
        /\ loop_count' = loop_count /\ led' = led
        /\ frame' \in {"none", "exception"}
    BY <1>1, <1>4 DEF Refuse, Drop, master, registers
  <2>2. RegTypeOK'
    BY <1>1, <2>1 DEF RegTypeOK, Registers
  <2>3. RegistersPossible'
    BY <2>1 DEF RegisterInv, RegistersPossible, Reg, Registers
  <2>4. Reported' /\ Acknowledged'
    BY <2>1 DEF Reported, Acknowledged
  <2>5. Announced'
    BY <1>1, <2>1 DEF RegisterInv, Announced, Registers, New, Writes, Level
  <2>6. \A p \in Nat : ~Accepted(p)'
    BY <1>4, <2>1 DEF Accepted, InRange
  <2>7. Settled'
    BY <2>6 DEF Settled
  <2> QED
    BY <2>2, <2>3, <2>4, <2>5, <2>7 DEF RegisterInv
<1> QED
  BY <1>1, <1>2, <1>3, <1>4, ServeCases

\* What a request writes are values of registers.
LEMMA NewValues ==
  ASSUME NEW q \in Requests, NEW r \in Registers
  PROVE  New(q, r) \subseteq Values
<1>1. q.values \in Seq(Values)
  BY RegisterAssumption
<1>2. \A i \in 1..Len(q.values) : q.values[i] \in Values
  BY <1>1, ElementOfSeq
<1>3. \A v : Level(v) \in Values
  BY RegisterAssumption DEF Level
<1> QED
  BY <1>2, <1>3 DEF New

LEMMA SettledKept ==
  ASSUME Settled, UNCHANGED <<loop_count, led, request, ran>>
  PROVE  Settled'
<1>1. \A q \in Nat : Accepted(q)' => Accepted(q)
  BY DEF Accepted, InRange
<1>2. ASSUME NEW q \in Nat
      PROVE  /\ Stored(q, 0, loop_count)' = Stored(q, 0, loop_count')
             /\ Stored(q, 1, led)' = Stored(q, 1, led')
  BY DEF Stored, Handled, cur_reg
<1>3. \A q \in Nat : /\ Stored(q, 0, loop_count)' = Stored(q, 0, loop_count)
                     /\ Level(Stored(q, 1, led))' = Level(Stored(q, 1, led))
  BY <1>2 DEF Level
<1> QED
  BY <1>1, <1>3 DEF Settled

LEMMA RegisterInit == RegInit => RegisterInv
<1> SUFFICES ASSUME RegInit PROVE RegisterInv
  OBVIOUS
<1>1. RegTypeOK
  <2>1. <<>> \in Seq(Values)
    BY EmptySeq
  <2> QED
    BY <2>1, RegisterAssumption DEF RegInit, RegTypeOK, Registers
<1>2. RegistersPossible
  BY DEF RegInit, RegistersPossible, Reg, Registers
<1>3. Reported /\ Announced /\ Acknowledged /\ Settled
  BY DEF RegInit, Reported, Announced, Acknowledged, Settled
<1> QED
  BY <1>1, <1>2, <1>3 DEF RegisterInv

LEMMA RegisterStep == RegisterInv /\ [RegNext]_regVars => RegisterInv'
<1> SUFFICES ASSUME RegisterInv, [RegNext]_regVars PROVE RegisterInv'
  OBVIOUS
<1> USE DEF RegisterInv
<1>1. ASSUME NEW q \in Requests, SendFirst(q) PROVE RegisterInv'
  <2> USE <1>1 DEF SendFirst, registers
  <2>1. New(q, 0) \subseteq Values /\ New(q, 1) \subseteq Values
    BY NewValues DEF Registers
  <2>2. RegTypeOK'
    BY <2>1 DEF RegTypeOK, Registers
  <2>3. RegistersPossible'
    BY DEF RegistersPossible, Reg, Registers
  <2>4. Reported' /\ Acknowledged' /\ Settled'
    BY DEF Reported, Acknowledged, Settled
  <2>5. \A r \in Registers : New(request, r)' = New(q, r)
    BY DEF New, Writes, Level
  <2>6. Announced'
    BY <2>5 DEF Announced, Registers
  <2> QED
    BY <2>2, <2>3, <2>4, <2>6
<1>2. ASSUME UNCHANGED <<registers, request, reset, possible>>, UNCHANGED <<data, ran>>,
             waiting' \in BOOLEAN, waiting' => waiting \/ frame = "request",
             \/ frame' = frame
             \/ frame' = "none"
             \/ frame' = "request" /\ waiting
      PROVE  RegisterInv'
  <2> USE <1>2 DEF registers
  <2>1. RegTypeOK'
    BY DEF RegTypeOK, Registers
  <2>2. RegistersPossible'
    BY DEF RegistersPossible, Reg, Registers
  <2>3. Reported'
    BY DEF Reported, Registers
  <2>4. \A r \in Registers : New(request, r)' = New(request, r)
    BY DEF New, Writes, Level
  <2>5. Announced'
    BY <2>4 DEF Announced, Registers
  <2>6. Acknowledged'
    BY <2>4 DEF Acknowledged, Registers, Reg, Writes
  <2>7. Settled'
    BY SettledKept
  <2> QED
    BY <2>1, <2>2, <2>3, <2>5, <2>6, <2>7
<1>3. CASE SendAgain
  BY <1>2, <1>3 DEF SendAgain, master, RegTypeOK
<1>4. CASE GiveUp
  BY <1>2, <1>4 DEF GiveUp
<1>5. CASE LoseFrame
  BY <1>2, <1>5 DEF LoseFrame, master, RegTypeOK
<1>6. CASE UNCHANGED regVars
  BY <1>2, <1>6 DEF regVars, master, RegTypeOK
<1>7. CASE Receive
  <2> USE <1>7 DEF Receive, registers
  <2>1. \A r \in Registers : New(request, r) \subseteq Values
    BY NewValues DEF RegTypeOK
  <2>2. RegTypeOK'
    BY <2>1 DEF RegTypeOK, Registers
  <2>3. RegistersPossible'
    <3>1. \A r \in Registers : Reg(r) \in possible'[r]
      BY DEF RegistersPossible, Acknowledged
    <3> QED
      BY <3>1 DEF RegistersPossible, Reg, Registers
  <2>4. Reported' /\ Announced' /\ Acknowledged'
    BY DEF Reported, Announced, Acknowledged
  <2>5. Settled'
    BY SettledKept
  <2> QED
    BY <2>2, <2>3, <2>4, <2>5
<1>8. CASE ControllerReset
  <2> USE <1>8 DEF ControllerReset, master
  <2>1. RegTypeOK'
    BY RegisterAssumption DEF RegTypeOK, Registers
  <2>2. RegistersPossible'
    BY DEF RegistersPossible, Reg, Registers
  <2>3. Reported'
    BY DEF Reported, Registers
  <2>4. \A r \in Registers : New(request, r)' = New(request, r)
    BY DEF New, Writes, Level
  <2>5. Announced'
    BY <2>4 DEF Announced, Registers
  <2>6. Acknowledged' /\ Settled'
    BY DEF Acknowledged, Settled
  <2> QED
    BY <2>1, <2>2, <2>3, <2>5, <2>6
<1>9. CASE Serve
  BY <1>9, ServeStep
<1> HIDE DEF RegisterInv
<1> QED
  BY <1>1, <1>3, <1>4, <1>5, <1>6, <1>7, <1>8, <1>9 DEF RegNext

THEOREM RegisterInvariant == RegSpec => []RegisterInv
<1> QED
  BY RegisterInit, RegisterStep, PTL DEF RegSpec

-----------------------------------------------------------------------------
\* Registers, requests, replies and what the master believes stay what they
\* are, for every set of requests (port.c:19-83).
THEOREM RegisterTypes == RegSpec => []RegTypeOK
<1>1. RegisterInv => RegTypeOK
  BY DEF RegisterInv
<1> QED
  BY <1>1, RegisterInvariant, PTL

\* In every state the registers hold what the master may believe, also after
\* a write that port.c:69 refuses half-way.
THEOREM RegistersArePossible == RegSpec => []RegistersPossible
<1>1. RegisterInv => RegistersPossible
  BY DEF RegisterInv
<1> QED
  BY <1>1, RegisterInvariant, PTL

\* No reply to FC 3 (port.c:26-42) surprises the master.
THEOREM ReadsArePossible == RegSpec => []ReadIsPossible
<1>1. RegisterInv => ReadIsPossible
  BY DEF RegisterInv, Reported, ReadIsPossible
<1> QED
  BY <1>1, RegisterInvariant, PTL

\* The callbacks of FC 6 and 16 (port.c:48-83) can be repeated: executed again
\* after a lost reply, a request changes nothing.
THEOREM RepeatsChangeNothing == RegSpec => RepeatChangesNothing
<1>1. RegisterInv /\ [RegNext]_regVars => [ran /\ ran' => UNCHANGED registers]_regVars
  <2> SUFFICES ASSUME RegisterInv, RegNext, ran, ran' PROVE UNCHANGED registers
    BY DEF regVars
  <2>1. CASE Serve
    <3>1. RegTypeOK /\ Settled
      BY DEF RegisterInv
    <3>2. ASSUME NEW q \in Nat, Accepted(q), server_write_multiple_registers(q)
          PROVE  UNCHANGED registers
      <4>1. Stored(q, 0, loop_count) = loop_count /\ Level(Stored(q, 1, led)) = led
        BY <3>1, <3>2 DEF Settled
      <4> QED
        BY <3>2, <4>1 DEF server_write_multiple_registers, Store, registers
    <3> QED
      BY <2>1, <3>1, <3>2, ServeCases DEF server_read_holding_registers, Refuse, Drop
  <2>2. CASE ~Serve
    BY <2>2 DEF RegNext, SendFirst, SendAgain, Receive, GiveUp, LoseFrame, ControllerReset
  <2> QED
    BY <2>1, <2>2
<1> QED
  BY <1>1, RegisterInvariant, PTL DEF RegSpec, RepeatChangesNothing
=============================================================================
