-------------------------- MODULE NmbsClientProofs --------------------------
(***************************************************************************)
(* Theorems about NmbsClient, for every set of calls, every set of units,  *)
(* any number of calls and of transaction ids:                             *)
(*                                                                         *)
(*  - what the client's checks let through fits every buffer, is served,   *)
(*    and is accepted (ValidIsServed, FramesAlwaysFit);                    *)
(*  - over TCP a call returns with its own reply until a frame is cut      *)
(*    (OwnReplies);                                                        *)
(*  - an acknowledged call has been executed (AcknowledgementsAreTrue);    *)
(*  - over TCP the client implements RemoteCall, whose promise ends with   *)
(*    such a cut (ClientImplementsRemoteCall);                             *)
(*  - where nothing goes wrong, calls fail for their arguments             *)
(*    (FailuresHaveCause).                                                 *)
(*                                                                         *)
(* The invariant keeps the frames in sets that depend on the calls made so *)
(* far: each stands for a call of the past, with its arguments, its unit   *)
(* and, over TCP, the transaction id that follows from its age.  For the   *)
(* refinement a second one (Lossless) adds the order of the frames, and a  *)
(* third (Quiet) says what is under way as long as nothing went wrong.     *)
(***************************************************************************)
EXTENDS NmbsClient, SequenceTheorems, TLAPS

(***************************************************************************)
(* Pdu: arguments, numbers of bytes and limits                             *)
(***************************************************************************)
LEMMA DispatchDiscrete ==
  ASSUME NEW c, NEW a, NEW k, c.fc \in {1, 2}
  PROVE  /\ Request(c) = read_discrete(c)
         /\ handle_req_fc(c, k) = handle_read_discrete(c)
         /\ Accepts(c, a, k) = recv_read_discrete_res(c, k)
<1>1. Request(c) = read_discrete(c)
  BY DEF Request
<1>2. handle_req_fc(c, k) = handle_read_discrete(c)
  BY DEF handle_req_fc
<1>3. Accepts(c, a, k) = recv_read_discrete_res(c, k)
  BY DEF Accepts
<1> QED
  BY <1>1, <1>2, <1>3

LEMMA DispatchRegisters ==
  ASSUME NEW c, NEW a, NEW k, c.fc \in {3, 4}
  PROVE  /\ Request(c) = read_registers(c)
         /\ handle_req_fc(c, k) = handle_read_registers(c)
         /\ Accepts(c, a, k) = recv_read_registers_res(c, k)
<1>1. Request(c) = read_registers(c)
  BY DEF Request
<1>2. handle_req_fc(c, k) = handle_read_registers(c)
  BY DEF handle_req_fc
<1>3. Accepts(c, a, k) = recv_read_registers_res(c, k)
  BY DEF Accepts
<1> QED
  BY <1>1, <1>2, <1>3

LEMMA DispatchCoil ==
  ASSUME NEW c, NEW a, NEW k, c.fc = 5
  PROVE  /\ Request(c) = nmbs_write_single_coil(c)
         /\ handle_req_fc(c, k) = handle_write_single_coil(c)
         /\ Accepts(c, a, k) = recv_write_single_coil_res(c, a)
<1>1. Request(c) = nmbs_write_single_coil(c)
  BY DEF Request
<1>2. handle_req_fc(c, k) = handle_write_single_coil(c)
  BY DEF handle_req_fc
<1>3. Accepts(c, a, k) = recv_write_single_coil_res(c, a)
  BY DEF Accepts
<1> QED
  BY <1>1, <1>2, <1>3

LEMMA DispatchRegister ==
  ASSUME NEW c, NEW a, NEW k, c.fc = 6
  PROVE  /\ Request(c) = nmbs_write_single_register(c)
         /\ handle_req_fc(c, k) = handle_write_single_register(c)
         /\ Accepts(c, a, k) = recv_write_single_register_res(c, a)
<1>1. Request(c) = nmbs_write_single_register(c)
  BY DEF Request
<1>2. handle_req_fc(c, k) = handle_write_single_register(c)
  BY DEF handle_req_fc
<1>3. Accepts(c, a, k) = recv_write_single_register_res(c, a)
  BY DEF Accepts
<1> QED
  BY <1>1, <1>2, <1>3

LEMMA DispatchCoils ==
  ASSUME NEW c, NEW a, NEW k, c.fc = 15
  PROVE  /\ Request(c) = nmbs_write_multiple_coils(c)
         /\ handle_req_fc(c, k) = handle_write_multiple_coils(c, k)
         /\ Accepts(c, a, k) = recv_write_multiple_coils_res(c, a)
<1>1. Request(c) = nmbs_write_multiple_coils(c)
  BY DEF Request
<1>2. handle_req_fc(c, k) = handle_write_multiple_coils(c, k)
  BY DEF handle_req_fc
<1>3. Accepts(c, a, k) = recv_write_multiple_coils_res(c, a)
  BY DEF Accepts
<1> QED
  BY <1>1, <1>2, <1>3

LEMMA DispatchRegisterBlock ==
  ASSUME NEW c, NEW a, NEW k, c.fc = 16
  PROVE  /\ Request(c) = nmbs_write_multiple_registers(c)
         /\ handle_req_fc(c, k) = handle_write_multiple_registers(c, k)
         /\ Accepts(c, a, k) = recv_write_multiple_registers_res(c, a)
<1>1. Request(c) = nmbs_write_multiple_registers(c)
  BY DEF Request
<1>2. handle_req_fc(c, k) = handle_write_multiple_registers(c, k)
  BY DEF handle_req_fc
<1>3. Accepts(c, a, k) = recv_write_multiple_registers_res(c, a)
  BY DEF Accepts
<1> QED
  BY <1>1, <1>2, <1>3

LEMMA DispatchFileRead ==
  ASSUME NEW c, NEW a, NEW k, c.fc = 20
  PROVE  /\ Request(c) = nmbs_read_file_record(c)
         /\ handle_req_fc(c, k) = handle_read_file_record(c, k)
         /\ Accepts(c, a, k) = recv_read_file_record_res(c, k)
<1>1. Request(c) = nmbs_read_file_record(c)
  BY DEF Request
<1>2. handle_req_fc(c, k) = handle_read_file_record(c, k)
  BY DEF handle_req_fc
<1>3. Accepts(c, a, k) = recv_read_file_record_res(c, k)
  BY DEF Accepts
<1> QED
  BY <1>1, <1>2, <1>3

LEMMA DispatchFileWrite ==
  ASSUME NEW c, NEW a, NEW k, c.fc = 21
  PROVE  /\ Request(c) = nmbs_write_file_record(c)
         /\ handle_req_fc(c, k) = handle_write_file_record(c, k)
         /\ Accepts(c, a, k) = recv_write_file_record_res(c, a, k)
<1>1. Request(c) = nmbs_write_file_record(c)
  BY DEF Request
<1>2. handle_req_fc(c, k) = handle_write_file_record(c, k)
  BY DEF handle_req_fc
<1>3. Accepts(c, a, k) = recv_write_file_record_res(c, a, k)
  BY DEF Accepts
<1> QED
  BY <1>1, <1>2, <1>3

LEMMA DispatchReadWrite ==
  ASSUME NEW c, NEW a, NEW k, c.fc = 23
  PROVE  /\ Request(c) = nmbs_read_write_registers(c)
         /\ handle_req_fc(c, k) = handle_read_write_registers(c, k)
         /\ Accepts(c, a, k) = recv_read_registers_res(c, k)
<1>1. Request(c) = nmbs_read_write_registers(c)
  BY DEF Request
<1>2. handle_req_fc(c, k) = handle_read_write_registers(c, k)
  BY DEF handle_req_fc
<1>3. Accepts(c, a, k) = recv_read_registers_res(c, k)
  BY DEF Accepts
<1> QED
  BY <1>1, <1>2, <1>3

LEMMA FitsIsBound ==
  ASSUME NEW b \in Int, b <= 252
  PROVE  Fits(b)
<1> SUFFICES ASSUME NEW t \in Transports PROVE FitsBuffer(t, b)
  BY DEF Fits
<1>1. HeaderBytes(t) \in {2, 8} /\ FooterBytes(t) \in {0, 2}
      /\ (HeaderBytes(t) = 8 => FooterBytes(t) = 0)
  BY DEF HeaderBytes, FooterBytes
<1> QED
  BY <1>1 DEF FitsBuffer, BufferBytes

ReadableCoils == 1..2000
WritableCoils == 1..1968
ReadBytes == 1..250
WrittenBytes == 1..246

LEMMA CoilsRead ==
  ASSUME NEW q \in ReadableCoils
  PROVE  CoilBytes(q) \in ReadBytes
BY DEF CoilBytes, ReadableCoils, ReadBytes

LEMMA CoilsWritten ==
  ASSUME NEW q \in WritableCoils
  PROVE  CoilBytes(q) = (q + 7) \div 8 /\ CoilBytes(q) \in WrittenBytes
BY DEF CoilBytes, WritableCoils, WrittenBytes

LEMMA RegisterBytesExact ==
  ASSUME NEW q \in 1..125
  PROVE  RegisterBytes(q) = q * 2
BY DEF RegisterBytes

LEMMA AskedFromNumbers ==
  ASSUME NEW q, NEW h, NEW put \in 4..252,
         q.put = put, q.announced = put, h.received = put
  PROVE  AskedWhole(q, h)
<1>1. Fits(put)
  BY FitsIsBound
<1> QED
  BY <1>1 DEF AskedWhole, LengthAllowed

LEMMA AnsweredFromNumbers ==
  ASSUME NEW h, NEW back \in 2..252, h.put = back, h.announced = back, h.count \in Nat
  PROVE  AnsweredWhole(h)
<1>1. Fits(back)
  BY FitsIsBound
<1> QED
  BY <1>1 DEF AnsweredWhole, LengthAllowed

LEMMA ServedFromParts ==
  ASSUME NEW c, NEW q, NEW h, NEW k, NEW b,
         Request(c) = q, q.count = k, handle_req_fc(c, k) = h, h.count = b,
         h.taken, h.valid, AskedWhole(q, h), AnsweredWhole(h), Accepts(c, c, b)
  PROVE  Served(c)
BY DEF Served

LEMMA CountIsNat ==
  ASSUME NEW c \in Calls, c.fc \in {20, 21}
  PROVE  c.count \in Nat
<1>1. c \in FileReads \/ c \in FileWrites
  BY DEF Calls, Reads, Coils, Registers, Multiples, FileReads, FileWrites, ReadWrites
<1>2. c.count \in U16
  BY <1>1 DEF FileReads, FileWrites
<1>3. U16 \subseteq Nat
  BY DEF U16
<1> QED
  BY <1>2, <1>3, Zenon

LEMMA DiscreteServed ==
  ASSUME NEW c \in Calls, c.fc \in {1, 2}, Request(c).valid
  PROVE  Served(c)
<1> DEFINE k == 0
           b == CoilBytes(c.quantity)
           q == read_discrete(c)
           h == handle_read_discrete(c)
<1>1. Request(c) = q /\ handle_req_fc(c, k) = h
  BY DispatchDiscrete
<1>2. Accepts(c, c, b) = recv_read_discrete_res(c, b)
  BY DispatchDiscrete
<1>3. QuantityAllowed(c, 2000)
  BY <1>1 DEF read_discrete, Asked
<1>a. c.quantity \in ReadableCoils
  BY <1>3 DEF QuantityAllowed, ReadableCoils
<1>b. b \in ReadBytes
  BY <1>a, CoilsRead, Zenon
<1>4. b \in 1..250
  BY <1>b DEF ReadBytes
<1>5. q.count = k /\ q.put = 4 /\ q.announced = 4
  BY <1>4 DEF read_discrete, Asked
<1>6. h.taken /\ h.valid
  BY <1>3 DEF handle_read_discrete, Handled
<1>7. h.received = 4 /\ h.put = 1 + b /\ h.announced = 1 + b /\ h.count = b
  BY <1>4 DEF handle_read_discrete, Handled
<1>8. recv_read_discrete_res(c, b)
  BY <1>4 DEF recv_read_discrete_res
<1>9. 4 \in 4..252 /\ 1 + b \in 2..252 /\ b \in Nat
  BY <1>4
<1> HIDE DEF k, b, q, h
<1>10. AskedWhole(q, h)
  BY <1>5, <1>7, <1>9, AskedFromNumbers
<1>11. AnsweredWhole(h)
  BY <1>7, <1>9, AnsweredFromNumbers
<1> QED
  BY <1>1, <1>2, <1>5, <1>6, <1>7, <1>8, <1>10, <1>11, ServedFromParts

LEMMA RegistersServed ==
  ASSUME NEW c \in Calls, c.fc \in {3, 4}, Request(c).valid
  PROVE  Served(c)
<1> DEFINE k == 0
           b == RegisterBytes(c.quantity)
           q == read_registers(c)
           h == handle_read_registers(c)
<1>1. Request(c) = q /\ handle_req_fc(c, k) = h
  BY DispatchRegisters
<1>2. Accepts(c, c, b) = recv_read_registers_res(c, b)
  BY DispatchRegisters
<1>3. QuantityAllowed(c, 125)
  BY <1>1 DEF read_registers, Asked
<1>a. c.quantity \in 1..125
  BY <1>3 DEF QuantityAllowed
<1>b. b = c.quantity * 2
  BY <1>a, RegisterBytesExact, Zenon
<1>4. b = c.quantity * 2 /\ b = 2 * c.quantity /\ b \in 2..250
  BY <1>a, <1>b
<1>5. q.count = k /\ q.put = 4 /\ q.announced = 4
  BY <1>4 DEF read_registers, Asked
<1>6. h.taken /\ h.valid
  BY <1>3 DEF handle_read_registers, Handled
<1>7. h.received = 4 /\ h.put = 1 + b /\ h.announced = 1 + b /\ h.count = b
  BY <1>4 DEF handle_read_registers, Handled
<1>8. recv_read_registers_res(c, b)
  BY <1>4 DEF recv_read_registers_res
<1>9. 4 \in 4..252 /\ 1 + b \in 2..252 /\ b \in Nat
  BY <1>4
<1> HIDE DEF k, b, q, h
<1>10. AskedWhole(q, h)
  BY <1>5, <1>7, <1>9, AskedFromNumbers
<1>11. AnsweredWhole(h)
  BY <1>7, <1>9, AnsweredFromNumbers
<1> QED
  BY <1>1, <1>2, <1>5, <1>6, <1>7, <1>8, <1>10, <1>11, ServedFromParts

LEMMA CoilServed ==
  ASSUME NEW c \in Calls, c.fc = 5, Request(c).valid
  PROVE  Served(c)
<1> DEFINE k == 0
           b == 0
           q == nmbs_write_single_coil(c)
           h == handle_write_single_coil(c)
<1>1. Request(c) = q /\ handle_req_fc(c, k) = h
  BY DispatchCoil
<1>2. Accepts(c, c, b) = recv_write_single_coil_res(c, c)
  BY DispatchCoil
<1>3. CoilValueOK(c)
  BY DEF CoilValueOK, Calls, Reads, Coils, Registers, Multiples, FileReads, FileWrites, ReadWrites
<1>5. q.count = k /\ q.put = 4 /\ q.announced = 4
  BY DEF nmbs_write_single_coil, Asked
<1>6. h.taken /\ h.valid
  BY <1>3 DEF handle_write_single_coil, Handled
<1>7. h.received = 4 /\ h.put = 4 /\ h.announced = 4 /\ h.count = b
  BY DEF handle_write_single_coil, Handled
<1>8. recv_write_single_coil_res(c, c)
  BY DEF recv_write_single_coil_res
<1>9. 4 \in 4..252 /\ 4 \in 2..252 /\ b \in Nat
  OBVIOUS
<1> HIDE DEF k, b, q, h
<1>10. AskedWhole(q, h)
  BY <1>5, <1>7, <1>9, AskedFromNumbers
<1>11. AnsweredWhole(h)
  BY <1>7, <1>9, AnsweredFromNumbers
<1> QED
  BY <1>1, <1>2, <1>5, <1>6, <1>7, <1>8, <1>10, <1>11, ServedFromParts

LEMMA RegisterServed ==
  ASSUME NEW c \in Calls, c.fc = 6, Request(c).valid
  PROVE  Served(c)
<1> DEFINE k == 0
           b == 0
           q == nmbs_write_single_register(c)
           h == handle_write_single_register(c)
<1>1. Request(c) = q /\ handle_req_fc(c, k) = h
  BY DispatchRegister
<1>2. Accepts(c, c, b) = recv_write_single_register_res(c, c)
  BY DispatchRegister
<1>5. q.count = k /\ q.put = 4 /\ q.announced = 4
  BY DEF nmbs_write_single_register, Asked
<1>6. h.taken /\ h.valid
  BY DEF handle_write_single_register, Handled
<1>7. h.received = 4 /\ h.put = 4 /\ h.announced = 4 /\ h.count = b
  BY DEF handle_write_single_register, Handled
<1>8. recv_write_single_register_res(c, c)
  BY DEF recv_write_single_register_res
<1>9. 4 \in 4..252 /\ 4 \in 2..252 /\ b \in Nat
  OBVIOUS
<1> HIDE DEF k, b, q, h
<1>10. AskedWhole(q, h)
  BY <1>5, <1>7, <1>9, AskedFromNumbers
<1>11. AnsweredWhole(h)
  BY <1>7, <1>9, AnsweredFromNumbers
<1> QED
  BY <1>1, <1>2, <1>5, <1>6, <1>7, <1>8, <1>10, <1>11, ServedFromParts

LEMMA CoilsServed ==
  ASSUME NEW c \in Calls, c.fc = 15, Request(c).valid
  PROVE  Served(c)
<1> DEFINE k == CoilBytes(c.quantity)
           b == 0
           q == nmbs_write_multiple_coils(c)
           h == handle_write_multiple_coils(c, k)
<1>1. Request(c) = q /\ handle_req_fc(c, k) = h
  BY DispatchCoils
<1>2. Accepts(c, c, b) = recv_write_multiple_coils_res(c, c)
  BY DispatchCoils
<1>3. QuantityAllowed(c, 1968)
  BY <1>1 DEF nmbs_write_multiple_coils, Asked
<1>a. c.quantity \in WritableCoils
  BY <1>3 DEF QuantityAllowed, WritableCoils
<1>c. k = (c.quantity + 7) \div 8 /\ k \in WrittenBytes
  BY <1>a, CoilsWritten, Zenon
<1>4. k \in 1..246 /\ k # 0 /\ k <= 246
  BY <1>c DEF WrittenBytes
<1>d. CoilsOK(c, k)
  BY <1>3, <1>4, <1>c DEF CoilsOK
<1>e. Takes(k, 246)
  BY <1>4 DEF Takes
<1>5. q.count = k /\ q.put = 5 + k /\ q.announced = 5 + k
  BY <1>4 DEF nmbs_write_multiple_coils, Asked
<1>6. h.taken /\ h.valid
  BY <1>d, <1>e DEF handle_write_multiple_coils, Handled
<1>7. h.received = 5 + k /\ h.put = 4 /\ h.announced = 4 /\ h.count = b
  BY <1>4 DEF handle_write_multiple_coils, Handled
<1>8. recv_write_multiple_coils_res(c, c)
  BY <1>4 DEF recv_write_multiple_coils_res
<1>9. 5 + k \in 4..252 /\ 4 \in 2..252 /\ b \in Nat
  BY <1>4
<1> HIDE DEF k, b, q, h
<1>10. AskedWhole(q, h)
  BY <1>5, <1>7, <1>9, AskedFromNumbers
<1>11. AnsweredWhole(h)
  BY <1>7, <1>9, AnsweredFromNumbers
<1> QED
  BY <1>1, <1>2, <1>5, <1>6, <1>7, <1>8, <1>10, <1>11, ServedFromParts

LEMMA RegisterBlockServed ==
  ASSUME NEW c \in Calls, c.fc = 16, Request(c).valid
  PROVE  Served(c)
<1> DEFINE k == RegisterBytes(c.quantity)
           b == 0
           q == nmbs_write_multiple_registers(c)
           h == handle_write_multiple_registers(c, k)
<1>1. Request(c) = q /\ handle_req_fc(c, k) = h
  BY DispatchRegisterBlock
<1>2. Accepts(c, c, b) = recv_write_multiple_registers_res(c, c)
  BY DispatchRegisterBlock
<1>3. QuantityAllowed(c, 123)
  BY <1>1 DEF nmbs_write_multiple_registers, Asked
<1>a. c.quantity \in 1..123
  BY <1>3 DEF QuantityAllowed
<1>b. c.quantity \in 1..125
  BY <1>a
<1>c. k = c.quantity * 2
  BY <1>b, RegisterBytesExact, Zenon
<1>4. k \in 2..246 /\ k # 0 /\ k = c.quantity * 2 /\ k = 2 * c.quantity
  BY <1>a, <1>c
<1>d. RegistersOK(c, k)
  BY <1>3, <1>4 DEF RegistersOK
<1>e. Takes(k, 246)
  BY <1>4 DEF Takes
<1>5. q.count = k /\ q.put = 5 + k /\ q.announced = 5 + k
  BY <1>4 DEF nmbs_write_multiple_registers, Asked
<1>6. h.taken /\ h.valid
  BY <1>d, <1>e DEF handle_write_multiple_registers, Handled
<1>7. h.received = 5 + k /\ h.put = 4 /\ h.announced = 4 /\ h.count = b
  BY <1>4 DEF handle_write_multiple_registers, Handled
<1>8. recv_write_multiple_registers_res(c, c)
  BY <1>4 DEF recv_write_multiple_registers_res
<1>9. 5 + k \in 4..252 /\ 4 \in 2..252 /\ b \in Nat
  BY <1>4
<1> HIDE DEF k, b, q, h
<1>10. AskedWhole(q, h)
  BY <1>5, <1>7, <1>9, AskedFromNumbers
<1>11. AnsweredWhole(h)
  BY <1>7, <1>9, AnsweredFromNumbers
<1> QED
  BY <1>1, <1>2, <1>5, <1>6, <1>7, <1>8, <1>10, <1>11, ServedFromParts

LEMMA FileReadServed ==
  ASSUME NEW c \in Calls, c.fc = 20, Request(c).valid
  PROVE  Served(c)
<1> DEFINE k == 7
           b == ((2 + 2 * c.count) % 256)
           q == nmbs_read_file_record(c)
           h == handle_read_file_record(c, k)
<1>1. Request(c) = q /\ handle_req_fc(c, k) = h
  BY DispatchFileRead
<1>2. Accepts(c, c, b) = recv_read_file_record_res(c, b)
  BY DispatchFileRead
<1>3. RecordAllowed(c, 124)
  BY <1>1 DEF nmbs_read_file_record, Asked
<1>a. c.count \in Nat
  BY CountIsNat
<1>b. c.count \in 0..124
  BY <1>a, <1>3 DEF RecordAllowed
<1>4. b = 2 + 2 * c.count /\ b \in 2..250 /\ c.count = (b - 2) \div 2
  BY <1>b
<1>d. FileReadOK(c, k)
  BY <1>3 DEF FileReadOK
<1>e. Takes(k, 245)
  BY DEF Takes
<1>5. q.count = k /\ q.put = 8 /\ q.announced = 8
  BY <1>4 DEF nmbs_read_file_record, Asked
<1>6. h.taken /\ h.valid
  BY <1>d, <1>e DEF handle_read_file_record, Handled
<1>7. h.received = 8 /\ h.put = 1 + b /\ h.announced = 1 + b /\ h.count = b
  BY <1>4 DEF handle_read_file_record, Handled
<1>8. recv_read_file_record_res(c, b)
  BY <1>4 DEF recv_read_file_record_res
<1>9. 8 \in 4..252 /\ 1 + b \in 2..252 /\ b \in Nat
  BY <1>4
<1> HIDE DEF k, b, q, h
<1>10. AskedWhole(q, h)
  BY <1>5, <1>7, <1>9, AskedFromNumbers
<1>11. AnsweredWhole(h)
  BY <1>7, <1>9, AnsweredFromNumbers
<1> QED
  BY <1>1, <1>2, <1>5, <1>6, <1>7, <1>8, <1>10, <1>11, ServedFromParts

LEMMA FileWriteServed ==
  ASSUME NEW c \in Calls, c.fc = 21, Request(c).valid
  PROVE  Served(c)
<1> DEFINE k == ((7 + 2 * c.count) % 256)
           b == k
           q == nmbs_write_file_record(c)
           h == handle_write_file_record(c, k)
<1>1. Request(c) = q /\ handle_req_fc(c, k) = h
  BY DispatchFileWrite
<1>2. Accepts(c, c, b) = recv_write_file_record_res(c, c, b)
  BY DispatchFileWrite
<1>3. RecordAllowed(c, 122)
  BY <1>1 DEF nmbs_write_file_record, Asked
<1>a. c.count \in Nat
  BY CountIsNat
<1>b. c.count \in 0..122
  BY <1>a, <1>3 DEF RecordAllowed
<1>4. k = 7 + 2 * c.count /\ k \in 7..251 /\ 1 + k = 8 + 2 * c.count /\ k <= 251
  BY <1>b
<1>d. FileWriteOK(c, k)
  BY <1>3, <1>4 DEF FileWriteOK
<1>e. Takes(k, 251)
  BY <1>4 DEF Takes
<1>5. q.count = k /\ q.put = 1 + k /\ q.announced = 1 + k
  BY <1>4 DEF nmbs_write_file_record, Asked
<1>6. h.taken /\ h.valid
  BY <1>d, <1>e DEF handle_write_file_record, Handled
<1>7. h.received = 1 + k /\ h.put = 1 + k /\ h.announced = 1 + k /\ h.count = b
  BY <1>4 DEF handle_write_file_record, Handled
<1>8. recv_write_file_record_res(c, c, b)
  BY <1>4 DEF recv_write_file_record_res
<1>9. 1 + k \in 4..252 /\ 1 + k \in 2..252 /\ b \in Nat
  BY <1>4
<1> HIDE DEF k, b, q, h
<1>10. AskedWhole(q, h)
  BY <1>5, <1>7, <1>9, AskedFromNumbers
<1>11. AnsweredWhole(h)
  BY <1>7, <1>9, AnsweredFromNumbers
<1> QED
  BY <1>1, <1>2, <1>5, <1>6, <1>7, <1>8, <1>10, <1>11, ServedFromParts

LEMMA ReadWriteServed ==
  ASSUME NEW c \in Calls, c.fc = 23, Request(c).valid
  PROVE  Served(c)
<1> DEFINE k == RegisterBytes(c.wquantity)
           b == RegisterBytes(c.quantity)
           q == nmbs_read_write_registers(c)
           h == handle_read_write_registers(c, k)
<1>1. Request(c) = q /\ handle_req_fc(c, k) = h
  BY DispatchReadWrite
<1>2. Accepts(c, c, b) = recv_read_registers_res(c, b)
  BY DispatchReadWrite
<1>3. ReadWriteAllowed(c, 121)
  BY <1>1 DEF nmbs_read_write_registers, Asked
<1>a. QuantityAllowed(c, 125) /\ c.wquantity \in 1..121 /\ InRange(c.waddress, c.wquantity)
  BY <1>3 DEF ReadWriteAllowed
<1>b. c.quantity \in 1..125 /\ c.wquantity \in 1..125
  BY <1>a DEF QuantityAllowed
<1>c. b = c.quantity * 2 /\ k = c.wquantity * 2
  BY <1>b, RegisterBytesExact, Zenon
<1>4. /\ b = c.quantity * 2 /\ b = 2 * c.quantity /\ b \in 2..250
      /\ k = c.wquantity * 2 /\ k = 2 * c.wquantity /\ k \in 2..242
  BY <1>a, <1>b, <1>c
<1>w. ReadWriteAllowed(c, 123)
  BY <1>a DEF ReadWriteAllowed
<1>d. ReadWriteOK(c, k)
  BY <1>w, <1>4 DEF ReadWriteOK
<1>e. Takes(k, 242)
  BY <1>4 DEF Takes
<1>5. q.count = k /\ q.put = 9 + k /\ q.announced = 9 + k
  BY <1>4 DEF nmbs_read_write_registers, Asked
<1>6. h.taken /\ h.valid
  BY <1>d, <1>e DEF handle_read_write_registers, Handled
<1>7. h.received = 9 + k /\ h.put = 1 + b /\ h.announced = 1 + b /\ h.count = b
  BY <1>4 DEF handle_read_write_registers, Handled
<1>8. recv_read_registers_res(c, b)
  BY <1>4 DEF recv_read_registers_res
<1>9. 9 + k \in 4..252 /\ 1 + b \in 2..252 /\ b \in Nat
  BY <1>4
<1> HIDE DEF k, b, q, h
<1>10. AskedWhole(q, h)
  BY <1>5, <1>7, <1>9, AskedFromNumbers
<1>11. AnsweredWhole(h)
  BY <1>7, <1>9, AnsweredFromNumbers
<1> QED
  BY <1>1, <1>2, <1>5, <1>6, <1>7, <1>8, <1>10, <1>11, ServedFromParts

\* Whatever arguments a client function lets through: its request fits msg.buf and
\* the MBAP length on both transports, the server's handler takes it whole and finds
\* it valid, the reply fits, and the client that made the call accepts the reply.
THEOREM ValidIsServed ==
  ASSUME NEW c \in Calls, Request(c).valid
  PROVE  Served(c)
<1>1. c.fc \in {1, 2} \/ c.fc \in {3, 4} \/ c.fc \in {5, 6, 15, 16, 20, 21, 23}
  BY DEF Calls, Reads, Coils, Registers, Multiples, FileReads, FileWrites, ReadWrites
<1> QED
  BY <1>1, DiscreteServed, RegistersServed, CoilServed, RegisterServed, CoilsServed,
     RegisterBlockServed, FileReadServed, FileWriteServed, ReadWriteServed

(***************************************************************************)
(* The invariant                                                           *)
(***************************************************************************)
\* The transaction id d calls before t.
Back(t, d) == IF t - d >= 1 THEN t - d ELSE t - d + TidMax

\* A frame is about a call of the past whose arguments were valid.
Known(f) ==
  /\ f.of \in 1..n /\ calls[f.of] = [op |-> f.op, unit |-> f.unit]
  /\ Request(f.op).valid
  /\ Transport = "TCP" => n - f.of < TidMax /\ f.tid = Back(tid, n - f.of)

True(f) ==
  f.exception \/ (f.of \in executed /\ f.count = handle_req_fc(f.op, Request(f.op).count).count)

KnownRequests == {f \in Requests : Known(f)}
KnownReplies == {f \in Replies : Known(f) /\ True(f)}

Numbered == n > 0 => tid \in 1..TidMax /\ calls[n] = [op |-> op, unit |-> unit] /\ Request(op).valid

\* A reply that is one call's, over TCP.
OwnAnswer == Transport = "TCP" /\ Succeeded => result.of = n /\ n \in executed

ClientInv ==
  /\ ClientTypeOK /\ Numbered
  /\ pc = "sent" => n > 0
  /\ requests \in Seq(KnownRequests)
  /\ replies \in Seq(KnownReplies)
  /\ OwnAnswer /\ AcknowledgedIsExecuted

Errors == {"INVALID_ARGUMENT", "TRANSPORT", "TIMEOUT", "CRC", "exception",
           "INVALID_TCP_MBAP", "INVALID_UNIT_ID", "INVALID_RESPONSE"}

\* What every step has to show of the calls, the frames and the result.
Rest ==
  /\ op \in Ops /\ unit \in Units \cup {0} /\ tid \in 0..TidMax
  /\ store \in [Units -> Data]
  /\ calls \in Seq([op : Ops, unit : Units \cup {0}])
  /\ executed \subseteq 1..n /\ fault \in BOOLEAN /\ broken \in BOOLEAN
  /\ Numbered
Frames == requests \in Seq(KnownRequests) /\ replies \in Seq(KnownReplies)
Outcome ==
  /\ pc \in {"idle", "sent"} /\ (pc = "sent" => n > 0)
  /\ result \in Results /\ OwnAnswer /\ AcknowledgedIsExecuted

-----------------------------------------------------------------------------
LEMMA Constants ==
  /\ TidMax \in Nat /\ TidMax > 1 /\ Ops \subseteq Calls /\ Data \subseteq Nat
  /\ Transport \in Transports
BY ClientAssumption

LEMMA InvParts == ClientInv <=> Rest /\ Frames /\ Outcome
<1>1. KnownRequests \subseteq Requests /\ KnownReplies \subseteq Replies
  BY DEF KnownRequests, KnownReplies
<1>2. Frames => requests \in Seq(Requests) /\ replies \in Seq(Replies)
  BY <1>1, SeqMonotonic, Zenon DEF Frames
<1> QED
  BY <1>2, Zenon DEF ClientInv, ClientTypeOK, Rest, Frames, Outcome

LEMMA CallsCounted == Rest => n \in Nat
<1> SUFFICES ASSUME Rest PROVE n \in Nat
  OBVIOUS
<1>1. calls \in Seq([op : Ops, unit : Units \cup {0}])
  BY DEF Rest
<1> QED
  BY <1>1, LenProperties, Zenon DEF n

LEMMA ElementsMakeSeq ==
  ASSUME NEW S, NEW T, NEW q \in Seq(S), \A i \in 1..Len(q) : q[i] \in T
  PROVE  q \in Seq(T)
<1>1. Len(q) \in Nat /\ DOMAIN q = 1..Len(q) /\ q \in [1..Len(q) -> S]
  BY LenProperties
<1>2. q \in [1..Len(q) -> T]
  BY <1>1
<1> QED
  BY <1>1, <1>2, SeqDef

LEMMA FailureIsQuiet ==
  ASSUME NEW e \in Errors, Fails(e)
  PROVE  Outcome'
<1>1. pc' = "idle" /\ result' = [err |-> e, data |-> NoData, of |-> 0]
  BY DEF Fails, Ends
<1>2. result' \in Results
  BY <1>1 DEF Results, Errors
<1>3. ~Succeeded'
  BY <1>1 DEF Succeeded
<1> QED
  BY <1>1, <1>2, <1>3 DEF Outcome, OwnAnswer, AcknowledgedIsExecuted

LEMMA NothingAcknowledged ==
  ASSUME NEW d \in Data \cup {NoData}, Ends("NONE", d, 0)
  PROVE  Outcome'
<1>1. pc' = "idle" /\ result' = [err |-> "NONE", data |-> d, of |-> 0]
  BY DEF Ends
<1>2. result' \in Results
  BY <1>1 DEF Results
<1>3. ~Succeeded'
  BY <1>1 DEF Succeeded
<1> QED
  BY <1>1, <1>2, <1>3 DEF Outcome, OwnAnswer, AcknowledgedIsExecuted

\* As long as no call is made, what is known of a frame stays known.
LEMMA KnownStays ==
  ASSUME UNCHANGED <<calls, tid>>, executed \subseteq executed'
  PROVE  KnownRequests \subseteq KnownRequests' /\ KnownReplies \subseteq KnownReplies'
<1>1. n' = n
  BY DEF n
<1>2. ASSUME NEW f, Known(f) PROVE Known(f)'
  BY <1>1, <1>2, Zenon DEF Known, Back
<1>3. ASSUME NEW f, True(f) PROVE True(f)'
  BY <1>3, Zenon DEF True
<1>4. KnownRequests \subseteq KnownRequests'
  BY <1>2, Zenon DEF KnownRequests
<1>5. KnownReplies \subseteq KnownReplies'
  BY <1>2, <1>3, Zenon DEF KnownReplies
<1> QED
  BY <1>4, <1>5

LEMMA FramesStay ==
  ASSUME Frames, UNCHANGED <<calls, tid>>, executed \subseteq executed',
         requests' \in Seq(KnownRequests), replies' \in Seq(KnownReplies)
  PROVE  Frames'
BY KnownStays, SeqMonotonic, Zenon DEF Frames

LEMMA RestStays ==
  ASSUME Rest, UNCHANGED <<op, unit, tid, store, calls, executed>>, fault' \in BOOLEAN,
         broken' \in BOOLEAN
  PROVE  Rest'
BY DEF Rest, Numbered, n

\* A damaged frame is still about the same call.
LEMMA CutIsKnown ==
  /\ \A f \in KnownRequests : Cut(f) \in KnownRequests
  /\ \A f \in KnownReplies : Cut(f) \in KnownReplies
<1>1. ASSUME NEW f \in KnownRequests PROVE Cut(f) \in KnownRequests
  <2>1. f \in Requests /\ Known(f)
    BY DEF KnownRequests
  <2>2. Cut(f) \in Requests
    BY <2>1 DEF Cut, Requests
  <2>3. Cut(f).of = f.of /\ Cut(f).tid = f.tid /\ Cut(f).op = f.op /\ Cut(f).unit = f.unit
    BY <2>1 DEF Cut, Requests
  <2>4. Known(Cut(f))
    BY <2>1, <2>3, Zenon DEF Known
  <2> QED
    BY <2>2, <2>4 DEF KnownRequests
<1>2. ASSUME NEW f \in KnownReplies PROVE Cut(f) \in KnownReplies
  <2>1. f \in Replies /\ Known(f) /\ True(f)
    BY DEF KnownReplies
  <2>2. Cut(f) \in Replies
    BY <2>1 DEF Cut, Replies
  <2>3. /\ Cut(f).of = f.of /\ Cut(f).tid = f.tid /\ Cut(f).op = f.op /\ Cut(f).unit = f.unit
        /\ Cut(f).exception = f.exception /\ Cut(f).count = f.count
    BY <2>1 DEF Cut, Replies
  <2>4. Known(Cut(f)) /\ True(Cut(f))
    BY <2>1, <2>3, Zenon DEF Known, True
  <2> QED
    BY <2>2, <2>4 DEF KnownReplies
<1> QED
  BY <1>1, <1>2

(***************************************************************************)
(* A call                                                                  *)
(***************************************************************************)
LEMMA RestsKeep ==
  ASSUME NEW S, NEW q \in Seq(S), \A s \in S : Cut(s) \in S
  PROVE  Rests(q) \subseteq Seq(S)
<1>1. Len(q) \in Nat
  BY LenProperties
<1>2. Dropped(q) \subseteq Seq(S)
  <2> SUFFICES ASSUME NEW k \in 0..Len(q) PROVE SubSeq(q, k + 1, Len(q)) \in Seq(S)
    BY DEF Dropped
  <2>1. \A i \in (k + 1)..Len(q) : q[i] \in S
    BY <1>1, ElementOfSeq
  <2> QED
    BY <1>1, <2>1, SubSeqProperties
<1>3. ASSUME NEW s \in Dropped(q) \ {<<>>}
      PROVE  <<Cut(Head(s))>> \o Tail(s) \in Seq(S)
  <2>1. s \in Seq(S) /\ s # <<>>
    BY <1>2, <1>3
  <2>2. Head(s) \in S /\ Tail(s) \in Seq(S)
    BY <2>1, HeadTailProperties
  <2>3. Cut(Head(s)) \in S
    BY <2>2
  <2>4. <<Cut(Head(s))>> \in Seq(S)
    BY <2>3
  <2> QED
    BY <2>2, <2>4, ConcatProperties
<1> QED
  BY <1>2, <1>3 DEF Rests

\* The transaction id of d calls ago is that of d + 1 calls ago after the next call.
LEMMA AgeStep ==
  ASSUME NEW T \in Nat, T > 1, NEW t \in 1..T, NEW d \in Nat, d + 1 < T,
         NEW u, u = IF t = T THEN 1 ELSE t + 1
  PROVE  (IF u - (d + 1) >= 1 THEN u - (d + 1) ELSE u - (d + 1) + T)
         = (IF t - d >= 1 THEN t - d ELSE t - d + T)
OBVIOUS

LEMMA NextTidInRange ==
  ASSUME Rest
  PROVE  NextTid \in 1..TidMax
BY Constants DEF Rest, NextTid

LEMMA CallCounted ==
  ASSUME Rest, NEW o \in Ops, NEW u \in Units \cup {0}, msg_state_req(o, u)
  PROVE  /\ n \in Nat /\ n' = n + 1
         /\ calls' \in Seq([op : Ops, unit : Units \cup {0}])
         /\ calls'[n + 1] = [op |-> o, unit |-> u]
         /\ \A i \in 1..n : calls'[i] = calls[i]
<1> DEFINE S == [op : Ops, unit : Units \cup {0}]
           e == [op |-> o, unit |-> u]
<1>1. calls \in Seq(S) /\ e \in S
  BY DEF Rest
<1>2. calls' = Append(calls, e)
  BY DEF msg_state_req
<1>3. n \in Nat
  BY CallsCounted
<1> HIDE DEF S, e
<1>4. /\ Append(calls, e) \in Seq(S) /\ Len(Append(calls, e)) = Len(calls) + 1
      /\ \A i \in 1..Len(calls) : Append(calls, e)[i] = calls[i]
      /\ Append(calls, e)[Len(calls) + 1] = e
  BY <1>1, AppendProperties
<1> QED
  BY <1>2, <1>3, <1>4 DEF n, S, e

LEMMA KnownAges ==
  ASSUME Rest, NEW o \in Ops, NEW u \in Units \cup {0}, msg_state_req(o, u),
         NEW f, f.of \in Nat, Known(f), Transport = "TCP" => n + 1 - f.of < TidMax
  PROVE  Known(f)'
<1>1. /\ n \in Nat /\ n' = n + 1 /\ f.of \in 1..n
      /\ calls'[f.of] = calls[f.of] /\ tid' = NextTid
  BY CallCounted DEF Known, msg_state_req
<1>2. f.of \in 1..n'
  BY <1>1
<1>3. calls'[f.of] = [op |-> f.op, unit |-> f.unit] /\ Request(f.op).valid
  BY <1>1, Zenon DEF Known
<1>4. ASSUME Transport = "TCP"
      PROVE  n' - f.of < TidMax /\ f.tid = Back(tid', n' - f.of)
  <2> DEFINE d == n - f.of
  <2>1. d \in Nat /\ d + 1 < TidMax /\ n' - f.of = d + 1
    BY <1>1, <1>4
  <2>2. tid \in 1..TidMax
    BY <1>1 DEF Rest, Numbered
  <2>3. tid' = IF tid = TidMax THEN 1 ELSE tid + 1
    BY <1>1 DEF NextTid
  <2>4. f.tid = IF tid - d >= 1 THEN tid - d ELSE tid - d + TidMax
    BY <1>4 DEF Known, Back
  <2> HIDE DEF d
  <2>5. f.tid = IF tid' - (d + 1) >= 1 THEN tid' - (d + 1) ELSE tid' - (d + 1) + TidMax
    BY <2>1, <2>2, <2>3, <2>4, AgeStep, Constants
  <2>6. f.tid = Back(tid', d + 1)
    BY <2>5, Zenon DEF Back
  <2> QED
    BY <2>1, <2>6
<1> QED
  BY <1>2, <1>3, <1>4 DEF Known

LEMMA FramesAge ==
  ASSUME Rest, Frames, NEW o \in Ops, NEW u \in Units \cup {0}, msg_state_req(o, u)
  PROVE  requests \in Seq(KnownRequests') /\ replies' \in Seq(KnownReplies')
<1>1. requests \in Seq(KnownRequests) /\ replies \in Seq(KnownReplies)
  BY DEF Frames
<1>2. ASSUME NEW f \in KnownRequests, Transport = "TCP" => n + 1 - f.of < TidMax
      PROVE  f \in KnownRequests'
  <2>1. f \in Requests /\ Known(f) /\ f.of \in Nat
    BY DEF KnownRequests, Requests
  <2>2. Known(f)'
    BY <1>2, <2>1, KnownAges
  <2> QED
    BY <2>1, <2>2 DEF KnownRequests
<1>3. ASSUME NEW f \in KnownReplies, Transport = "TCP" => n + 1 - f.of < TidMax
      PROVE  f \in KnownReplies'
  <2>1. f \in Replies /\ Known(f) /\ True(f) /\ f.of \in Nat
    BY DEF KnownReplies, Replies
  <2>2. Known(f)'
    BY <1>3, <2>1, KnownAges
  <2>3. True(f)'
    BY <2>1, Zenon DEF True, msg_state_req
  <2> QED
    BY <2>1, <2>2, <2>3 DEF KnownReplies
<1>8. ASSUME NEW i \in 1..Len(requests) PROVE requests[i] \in KnownRequests'
  <2>1. requests[i] \in KnownRequests /\ i \in DOMAIN requests
    BY <1>1, ElementOfSeq, LenProperties
  <2>2. Transport = "TCP" => n + 1 - requests[i].of < TidMax
    BY <2>1, Zenon DEF msg_state_req, InWindow
  <2> QED
    BY <1>2, <2>1, <2>2, Zenon
<1>9. ASSUME NEW i \in 1..Len(replies) PROVE replies[i] \in KnownReplies'
  <2>1. replies[i] \in KnownReplies /\ i \in DOMAIN replies
    BY <1>1, ElementOfSeq, LenProperties
  <2>2. Transport = "TCP" => n + 1 - replies[i].of < TidMax
    BY <2>1, Zenon DEF msg_state_req, InWindow
  <2> QED
    BY <1>3, <2>1, <2>2, Zenon
<1>4. requests \in Seq(KnownRequests')
  BY <1>1, <1>8, ElementsMakeSeq
<1>5. replies \in Seq(KnownReplies')
  BY <1>1, <1>9, ElementsMakeSeq
<1>6. (\A f \in KnownReplies : Cut(f) \in KnownReplies)'
  BY CutIsKnown, PTL
<1>7. Rests(replies) \subseteq Seq(KnownReplies')
  BY <1>5, <1>6, RestsKeep
<1> QED
  BY <1>4, <1>7 DEF msg_state_req

LEMMA RestOfCall ==
  ASSUME Rest, NEW o \in Ops, NEW u \in Units \cup {0}, msg_state_req(o, u), fault' \in BOOLEAN,
         broken' \in BOOLEAN
  PROVE  Rest'
<1>1. n \in Nat /\ n' = n + 1
  BY CallCounted
<1>2. NextTid \in 1..TidMax
  BY NextTidInRange
<1>3. /\ op' = o /\ unit' = u /\ tid' = NextTid /\ Request(o).valid
      /\ store' = store /\ executed' = executed
  BY DEF msg_state_req
<1>4. executed' \subseteq 1..n'
  BY <1>1, <1>3 DEF Rest
<1>5. calls'[n'] = [op |-> op', unit |-> unit']
  BY <1>1, <1>3, CallCounted
<1>6. Numbered'
  BY <1>2, <1>3, <1>5, Zenon DEF Numbered
<1>7. calls' \in Seq([op : Ops, unit : Units \cup {0}])
  BY CallCounted
<1>8. tid' \in 0..TidMax
  BY <1>2, <1>3, Constants
<1> QED
  BY <1>3, <1>4, <1>6, <1>7, <1>8 DEF Rest

\* The new request is known.
LEMMA RequestKnown ==
  ASSUME Rest, NEW o \in Ops, NEW u \in Units \cup {0}, msg_state_req(o, u), NEW b \in BOOLEAN,
         NEW f, f = NewRequest(o, u, b)
  PROVE  f \in KnownRequests'
<1>1. n \in Nat /\ n' = n + 1 /\ tid' = NextTid /\ NextTid \in 1..TidMax
  BY CallCounted, NextTidInRange DEF msg_state_req
<1>2. f \in Requests
  BY <1>1 DEF Requests, NewRequest
<1>3. f.of = n' /\ f.tid = tid' /\ f.unit = u /\ f.op = o
  BY <1>1 DEF NewRequest
<1>4. calls'[f.of] = [op |-> f.op, unit |-> f.unit]
  BY <1>1, <1>3, CallCounted
<1>5. f.of \in 1..n'
  BY <1>1, <1>3
<1>6. Request(f.op).valid
  BY <1>3 DEF msg_state_req
<1>7. n' - f.of = 0
  BY <1>1, <1>3
<1>8. f.tid = Back(tid', 0)
  BY <1>1, <1>3, Constants DEF Back
<1>9. Known(f)'
  <2>1. n' - f.of < TidMax
    BY <1>7, Constants
  <2>2. f.tid = Back(tid', n' - f.of)
    BY <1>7, <1>8
  <2> QED
    BY <1>4, <1>5, <1>6, <2>1, <2>2, Zenon DEF Known
<1> QED
  BY <1>2, <1>9 DEF KnownRequests

LEMMA CallKeeps ==
  ASSUME ClientInv, NEW o \in Ops, NEW u \in Units \cup {0},
         Send(o, u) \/ SendFails(o, u)
  PROVE  ClientInv'
<1> DEFINE f(b) == NewRequest(o, u, b)
<1>1. msg_state_req(o, u) /\ Rest /\ Frames /\ Outcome
  BY InvParts DEF Send, SendFails
<1>2. \A b \in BOOLEAN : f(b) \in KnownRequests'
  BY <1>1, RequestKnown
<1>3. requests \in Seq(KnownRequests') /\ replies' \in Seq(KnownReplies')
  BY <1>1, FramesAge
<1>4. requests' = requests \/ \E b \in BOOLEAN : requests' = Append(requests, f(b))
  BY DEF Send, SendFails
<1> HIDE DEF f
<1>5. requests' \in Seq(KnownRequests')
  BY <1>2, <1>3, <1>4, AppendProperties
<1>6. fault' \in BOOLEAN /\ broken' \in BOOLEAN
  BY <1>1 DEF Send, SendFails, Rest, FlushCuts
<1>7. Rest'
  BY <1>1, <1>6, RestOfCall
<1>8. Outcome'
  <2>1. CASE SendFails(o, u)
    BY <2>1, FailureIsQuiet DEF SendFails, Errors
  <2>2. CASE Send(o, u)
    <3>1. CASE pc' = "sent" /\ UNCHANGED result
      <4>1. ~Succeeded'
        BY <3>1 DEF Succeeded
      <4>a. n \in Nat /\ n' = n + 1
        BY <1>1, CallCounted
      <4>2. n' > 0
        BY <4>a
      <4> QED
        BY <1>1, <3>1, <4>1, <4>2 DEF Outcome, OwnAnswer, AcknowledgedIsExecuted
    <3>2. CASE Ends("NONE", NoData, 0)
      BY <3>2, NothingAcknowledged
    <3> QED
      BY <2>2, <3>1, <3>2 DEF Send
  <2> QED
    BY <2>1, <2>2
<1>9. Frames'
  BY <1>3, <1>5 DEF Frames
<1>10. Rest' /\ Frames' /\ Outcome'
  BY <1>7, <1>8, <1>9
<1> QED
  BY <1>10, InvParts, PTL

(***************************************************************************)
(* A reply                                                                 *)
(***************************************************************************)
LEMMA QuantityIsNat ==
  ASSUME NEW c \in Calls, c.fc \in {3, 4, 23}
  PROVE  c.quantity \in Nat
<1>1. c \in Reads \/ c \in ReadWrites
  BY DEF Calls, Reads, Coils, Registers, Multiples, FileReads, FileWrites, ReadWrites
<1>2. c.quantity \in U16
  BY <1>1 DEF Reads, ReadWrites
<1>3. U16 \subseteq Nat
  BY DEF U16
<1> QED
  BY <1>2, <1>3, Zenon

LEMMA AcceptedIsAlike ==
  ASSUME NEW a \in Calls, NEW b \in Calls, a.fc = b.fc, Request(a).valid, Request(b).valid,
         NEW k, k = handle_req_fc(a, Request(a).count).count, Accepts(b, a, k)
  PROVE  Alike(a, b)
<1>1. Accepts(a, a, k)
  BY ValidIsServed DEF Served
<1>2. CASE b.fc \in {1, 2}
  BY <1>2 DEF Alike
<1>3. CASE b.fc \in {3, 4, 23}
  <2>1. a.quantity \in Nat /\ b.quantity \in Nat
    BY <1>3, QuantityIsNat
  <2>2. recv_read_registers_res(b, k) /\ recv_read_registers_res(a, k)
    <3>1. CASE b.fc \in {3, 4}
      BY <1>1, <3>1, DispatchRegisters
    <3>2. CASE b.fc = 23
      BY <1>1, <3>2, DispatchReadWrite
    <3> QED
      BY <1>3, <3>1, <3>2
  <2>3. k = b.quantity * 2 /\ k = a.quantity * 2
    BY <2>2 DEF recv_read_registers_res
  <2>4. a.quantity = b.quantity
    BY <2>1, <2>3
  <2> QED
    BY <1>3, <2>4 DEF Alike
<1>5. CASE b.fc = 5
  <2>1. recv_write_single_coil_res(b, a)
    BY <1>5, DispatchCoil
  <2> QED
    BY <1>5, <2>1 DEF recv_write_single_coil_res, Alike
<1>6. CASE b.fc = 6
  <2>1. recv_write_single_register_res(b, a)
    BY <1>6, DispatchRegister
  <2> QED
    BY <1>6, <2>1 DEF recv_write_single_register_res, Alike
<1>15. CASE b.fc = 15
  <2>1. recv_write_multiple_coils_res(b, a)
    BY <1>15, DispatchCoils
  <2> QED
    BY <1>15, <2>1 DEF recv_write_multiple_coils_res, Alike
<1>16. CASE b.fc = 16
  <2>1. recv_write_multiple_registers_res(b, a)
    BY <1>16, DispatchRegisterBlock
  <2> QED
    BY <1>16, <2>1 DEF recv_write_multiple_registers_res, Alike
<1>20. CASE b.fc = 20
  <2>1. recv_read_file_record_res(b, k) /\ recv_read_file_record_res(a, k)
    BY <1>1, <1>20, DispatchFileRead
  <2>2. a.count = b.count
    BY <2>1 DEF recv_read_file_record_res
  <2> QED
    BY <1>20, <2>2 DEF Alike
<1>21. CASE b.fc = 21
  <2>1. recv_write_file_record_res(b, a, k)
    BY <1>21, DispatchFileWrite
  <2> QED
    BY <1>21, <2>1 DEF recv_write_file_record_res, Alike
<1>30. b.fc \in {1, 2} \/ b.fc \in {3, 4, 23} \/ b.fc \in {5, 6, 15, 16, 20, 21}
  BY DEF Calls, Reads, Coils, Registers, Multiples, FileReads, FileWrites, ReadWrites
<1> QED
  BY <1>2, <1>3, <1>5, <1>6, <1>15, <1>16, <1>20, <1>21, <1>30

\* A transaction id comes round only after TidMax calls.
LEMMA SameTidSameCall ==
  ASSUME NEW T \in Nat, NEW t \in 1..T, NEW d \in Nat, d < T, Back(t, d) = t, T = TidMax
  PROVE  d = 0
BY DEF Back

LEMMA AnswerKeeps ==
  ASSUME Rest, Frames, Outcome, pc = "sent", NEW r \in KnownReplies,
         r.ok, HeaderError(r) = "NONE", ~r.exception, Accepts(op, r.op, r.count),
         Ends("NONE", r.data, r.of), UNCHANGED <<op, unit, tid, calls, executed>>
  PROVE  Outcome'
<1>1. r \in Replies /\ Known(r) /\ True(r)
  BY DEF KnownReplies
<1>2. pc' = "idle" /\ result' = [err |-> "NONE", data |-> r.data, of |-> r.of]
  BY DEF Ends
<1>3. r.of \in Nat /\ r.data \in Data \cup {NoData} /\ r.op \in Ops /\ r.tid \in 1..TidMax
  BY <1>1 DEF Replies
<1>4. result' \in Results
  BY <1>2, <1>3 DEF Results
<1>5. n \in Nat /\ n > 0 /\ n' = n
  BY CallsCounted DEF Outcome, n
<1>6. r.of \in executed /\ r.count = handle_req_fc(r.op, Request(r.op).count).count
  BY <1>1 DEF True
<1>7. r.of \in 1..n /\ calls[r.of] = [op |-> r.op, unit |-> r.unit] /\ Request(r.op).valid
  BY <1>1, Zenon DEF Known
<1>8. /\ calls[n] = [op |-> op, unit |-> unit] /\ Request(op).valid /\ tid \in 1..TidMax
  BY <1>5, Zenon DEF Rest, Numbered
<1>9. r.op.fc = op.fc
  BY DEF HeaderError
<1>10. ASSUME Transport = "TCP" PROVE r.of = n
  <2>1. r.tid = tid
    BY <1>10 DEF HeaderError
  <2>2. n - r.of < TidMax /\ r.tid = Back(tid, n - r.of)
    BY <1>1, <1>10, Zenon DEF Known
  <2>3. n - r.of \in Nat
    BY <1>5, <1>7
  <2>4. n - r.of = 0
    BY <1>8, <2>1, <2>2, <2>3, SameTidSameCall, Constants
  <2> QED
    BY <1>5, <1>7, <2>4
<1>11. calls[r.of].unit = unit
  <2>1. CASE Transport = "TCP"
    BY <1>8, <1>10, <2>1
  <2>2. CASE Transport = "RTU"
    <3>1. r.unit = unit
      BY <2>2 DEF HeaderError
    <3> QED
      BY <1>7, <3>1
  <2> QED
    BY <2>1, <2>2, Constants DEF Transports
<1>12. op \in Ops
  BY DEF Rest
<1>13. Alike(r.op, op)
  BY <1>3, <1>6, <1>7, <1>8, <1>9, <1>12, AcceptedIsAlike, Constants
<1>14. calls[r.of].op = r.op
  BY <1>7
<1>15. OwnAnswer'
  BY <1>2, <1>5, <1>6, <1>10, Zenon DEF OwnAnswer
<1>16. result'.of = r.of
  BY <1>2
<1>17. AcknowledgedIsExecuted'
  BY <1>6, <1>11, <1>13, <1>14, <1>16, Zenon DEF AcknowledgedIsExecuted
<1> QED
  BY <1>2, <1>4, <1>15, <1>17 DEF Outcome

LEMMA ReceiveKeeps ==
  ASSUME ClientInv, Receive
  PROVE  ClientInv'
<1> DEFINE r == Head(replies)
<1>1. Rest /\ Frames /\ Outcome
  BY InvParts
<1>2. pc = "sent" /\ replies # <<>>
      /\ UNCHANGED <<op, unit, tid, requests, store, calls, executed, fault, broken>>
  BY DEF Receive
<1>3. ReceiveGarbage(r) \/ ReceiveForeign(r) \/ ReceiveException(r) \/ ReceiveAnswer(r)
  BY DEF Receive
<1>4. replies \in Seq(KnownReplies) /\ requests' \in Seq(KnownRequests)
  BY <1>1, <1>2 DEF Frames
<1>5. r \in KnownReplies /\ Tail(replies) \in Seq(KnownReplies)
  BY <1>2, <1>4, HeadTailProperties
<1> HIDE DEF r
<1>6. Cut(r) \in KnownReplies
  BY <1>5, CutIsKnown
<1>7. replies' \in Seq(KnownReplies)
  <2>1. CASE replies' = Tail(replies)
    BY <1>5, <2>1
  <2>2. CASE replies' = <<Cut(r)>> \o Tail(replies)
    <3>1. <<Cut(r)>> \in Seq(KnownReplies)
      BY <1>6
    <3> QED
      BY <1>5, <2>2, <3>1, ConcatProperties
  <2>3. CASE replies' \in Rests(Tail(replies))
    BY <1>5, <2>3, CutIsKnown, RestsKeep
  <2> QED
    BY <1>3, <2>1, <2>2, <2>3
       DEF ReceiveGarbage, ReceiveForeign, ReceiveException, ReceiveAnswer, Skip
<1>8. Frames'
  BY <1>1, <1>2, <1>4, <1>7, FramesStay
<1>9. Rest'
  BY <1>1, <1>2, RestStays DEF Rest
<1>10. Outcome'
  <2>1. CASE ReceiveGarbage(r)
    <3>1. \/ \E e \in Errors : Fails(e)
          \/ \E d \in Data \cup {NoData} : Ends("NONE", d, 0)
      BY <2>1 DEF ReceiveGarbage, Errors
    <3> QED
      BY <3>1, FailureIsQuiet, NothingAcknowledged
  <2>2. CASE ReceiveForeign(r)
    <3>1. HeaderError(r) \in Errors
      BY <2>2 DEF ReceiveForeign, HeaderError, Errors
    <3> QED
      BY <2>2, <3>1, FailureIsQuiet DEF ReceiveForeign
  <2>3. CASE ReceiveException(r)
    BY <2>3, FailureIsQuiet DEF ReceiveException, Errors
  <2>4. CASE ReceiveAnswer(r)
    <3>1. CASE Accepts(op, r.op, r.count)
      BY <1>1, <1>2, <1>5, <2>4, <3>1, AnswerKeeps DEF ReceiveAnswer
    <3>2. CASE Fails("INVALID_RESPONSE")
      BY <3>2, FailureIsQuiet DEF Errors
    <3> QED
      BY <2>4, <3>1, <3>2 DEF ReceiveAnswer
  <2> QED
    BY <1>3, <2>1, <2>2, <2>3, <2>4
<1>11. Rest' /\ Frames' /\ Outcome'
  BY <1>8, <1>9, <1>10
<1> QED
  BY <1>11, InvParts, PTL

(***************************************************************************)
(* The servers and the line                                                *)
(***************************************************************************)
LEMMA EffectInData ==
  ASSUME NEW o \in Calls, NEW d \in Data
  PROVE  Effect(o, d) \in Data /\ Answer(o, d) \in Data \cup {NoData}
<1>1. o.fc \in Writers => o.data \in Data
  BY DEF Writers, Calls, Reads, Coils, Registers, Multiples, FileReads, FileWrites, ReadWrites
<1> QED
  BY <1>1, Zenon DEF Effect, Answer

LEMMA ReplyKnown ==
  ASSUME NEW f \in KnownRequests, NEW x \in BOOLEAN, NEW d \in Data \cup {NoData},
         NEW h, h = handle_req_fc(f.op, Request(f.op).count),
         NEW r, r = Reply(f, h, x, d)
  PROVE  /\ r \in Replies /\ Known(r)
         /\ r.exception = x /\ r.of = f.of
         /\ r.count = handle_req_fc(r.op, Request(r.op).count).count
<1>1. f \in Requests /\ Known(f)
  BY DEF KnownRequests
<1>2. f.op \in Calls /\ Request(f.op).valid
  BY <1>1, Constants DEF Known, Requests
<1>3. h.count \in Nat
  BY <1>2, ValidIsServed DEF Served, AnsweredWhole
<1>4. r \in Replies
  BY <1>1, <1>3 DEF Requests, Replies, Reply
<1>5. /\ r.of = f.of /\ r.tid = f.tid /\ r.unit = f.unit /\ r.op = f.op
      /\ r.exception = x /\ r.count = h.count
  BY DEF Reply
<1>6. Known(r)
  BY <1>1, <1>5, Zenon DEF Known
<1> QED
  BY <1>4, <1>5, <1>6

LEMMA OutcomeStays ==
  ASSUME Outcome, UNCHANGED <<pc, op, unit, result, calls>>, executed \subseteq executed'
  PROVE  Outcome'
<1>1. n' = n
  BY DEF n
<1>2. Succeeded' <=> Succeeded
  BY Zenon DEF Succeeded
<1>3. OwnAnswer'
  BY <1>1, <1>2 DEF Outcome, OwnAnswer
<1>4. AcknowledgedIsExecuted'
  BY <1>2 DEF Outcome, AcknowledgedIsExecuted
<1> QED
  BY <1>1, <1>3, <1>4 DEF Outcome

LEMMA ServeKeeps ==
  ASSUME ClientInv, Serve
  PROVE  ClientInv'
<1>1. Rest /\ Frames /\ Outcome
  BY InvParts
<1>2. requests # <<>> /\ UNCHANGED <<pc, op, unit, tid, result, calls, broken>>
  BY DEF Serve
<1>3. PICK q : q = Head(requests)
  OBVIOUS
<1>4. PICK h : h = handle_req_fc(q.op, Request(q.op).count)
  OBVIOUS
<1>5. /\ ServeGarbage(q, h) \/ ServeException(q, h) \/ ServeRequest(q, h)
      /\ requests' = Tail(requests) \/ requests' \in Rests(Tail(requests))
  BY <1>3, <1>4 DEF Serve, ServeGarbage
<1>6. requests \in Seq(KnownRequests) /\ replies \in Seq(KnownReplies)
  BY <1>1 DEF Frames
<1>7. q \in KnownRequests /\ requests' \in Seq(KnownRequests)
  <2>1. q \in KnownRequests /\ Tail(requests) \in Seq(KnownRequests)
    BY <1>2, <1>3, <1>6, HeadTailProperties
  <2>2. Rests(Tail(requests)) \subseteq Seq(KnownRequests)
    BY <2>1, CutIsKnown, RestsKeep
  <2> QED
    BY <1>5, <2>1, <2>2
<1>8. q \in Requests /\ Known(q) /\ q.op \in Calls
  BY <1>7, Constants DEF KnownRequests, Requests
<1>9. executed \subseteq executed' /\ executed' \subseteq executed \cup {q.of}
  BY <1>5 DEF ServeGarbage, ServeException, ServeRequest
<1>10. KnownRequests \subseteq KnownRequests' /\ KnownReplies \subseteq KnownReplies'
  BY <1>2, <1>9, KnownStays
<1>11. n' = n
  BY <1>2 DEF n
<1>12. ASSUME NEW x \in BOOLEAN, NEW d \in Data \cup {NoData}, x \/ q.of \in executed'
       PROVE  Reply(q, h, x, d) \in KnownReplies'
  <2>1. PICK r : r = Reply(q, h, x, d)
    OBVIOUS
  <2>2. /\ r \in Replies /\ Known(r)
        /\ r.exception = x /\ r.of = q.of
        /\ r.count = handle_req_fc(r.op, Request(r.op).count).count
    BY <1>4, <1>7, <2>1, ReplyKnown
  <2>3. Known(r)'
    BY <1>2, <1>11, <2>2, Zenon DEF Known
  <2>4. True(r)'
    BY <1>12, <2>2, Zenon DEF True
  <2>5. r \in KnownReplies'
    BY <2>2, <2>3, <2>4 DEF KnownReplies
  <2> QED
    BY <2>1, <2>5
<1>13. replies \in Seq(KnownReplies')
  BY <1>6, <1>10, SeqMonotonic
<1>14. store \in [Units -> Data]
  BY <1>1 DEF Rest
<1>15. replies' \in Seq(KnownReplies')
  <2>1. CASE ServeGarbage(q, h)
    <3> DEFINE r == Reply(q, h, TRUE, NoData)
    <3>1. replies' = replies \/ replies' = Append(replies, Cut(r))
      BY <2>1 DEF ServeGarbage
    <3>2. r \in KnownReplies'
      BY <1>12
    <3>3. (\A f \in KnownReplies : Cut(f) \in KnownReplies)'
      BY CutIsKnown, PTL
    <3> HIDE DEF r
    <3> QED
      BY <1>13, <3>1, <3>2, <3>3, AppendProperties
  <2>2. CASE ServeException(q, h)
    <3> DEFINE r == Reply(q, h, TRUE, NoData)
    <3>1. replies' = replies \/ replies' = Append(replies, r)
      BY <2>2, Zenon DEF ServeException
    <3>2. r \in KnownReplies'
      BY <1>12
    <3> HIDE DEF r
    <3> QED
      BY <1>13, <3>1, <3>2, AppendProperties
  <2>3. CASE ServeRequest(q, h)
    <3>1. q.of \in executed'
      BY <2>3 DEF ServeRequest
    <3>2. replies' = replies
          \/ \E u \in Addressed(q) : replies' = Append(replies, Reply(q, h, FALSE, Answer(q.op, store[u])))
      BY <2>3 DEF ServeRequest
    <3>3. CASE replies' = replies
      BY <1>13, <3>3
    <3>4. CASE \E u \in Addressed(q) : replies' = Append(replies, Reply(q, h, FALSE, Answer(q.op, store[u])))
      <4>1. PICK u \in Addressed(q) : replies' = Append(replies, Reply(q, h, FALSE, Answer(q.op, store[u])))
        BY <3>4
      <4>2. u \in Units
        <5>1. CASE Broadcast(q)
          BY <5>1, <4>1 DEF Addressed, Broadcast
        <5>2. CASE ~Broadcast(q)
          BY <1>8, <5>2, <4>1, Constants DEF Addressed, Broadcast, Requests, Transports
        <5> QED
          BY <5>1, <5>2
      <4>3. Answer(q.op, store[u]) \in Data \cup {NoData}
        BY <1>8, <1>14, <4>2, EffectInData
      <4>4. Reply(q, h, FALSE, Answer(q.op, store[u])) \in KnownReplies'
        BY <1>12, <3>1, <4>3
      <4> QED
        BY <1>13, <4>1, <4>4, AppendProperties
    <3> QED
      BY <3>2, <3>3, <3>4
  <2> QED
    BY <1>5, <2>1, <2>2, <2>3
<1>16. requests' \in Seq(KnownRequests')
  BY <1>7, <1>10, SeqMonotonic
<1>17. store' \in [Units -> Data]
  <2>1. CASE store' = store
    BY <1>14, <2>1
  <2>2. CASE ServeRequest(q, h)
    <3>1. store' = [u \in Units |-> IF u \in Addressed(q) THEN Effect(q.op, store[u]) ELSE store[u]]
      BY <2>2 DEF ServeRequest
    <3>2. \A u \in Units : store[u] \in Data /\ Effect(q.op, store[u]) \in Data
      BY <1>8, <1>14, EffectInData
    <3> QED
      BY <3>1, <3>2
  <2>3. CASE ServeGarbage(q, h)
    BY <1>14, <2>3 DEF ServeGarbage
  <2> QED
    BY <1>5, <2>1, <2>2, <2>3 DEF ServeException
<1>18. executed' \subseteq 1..n' /\ fault' \in BOOLEAN
  <2>1. q.of \in 1..n
    BY <1>8 DEF Known
  <2>2. executed' \subseteq 1..n'
    BY <1>1, <1>9, <1>11, <2>1 DEF Rest
  <2>3. fault' = fault \/ fault' = (fault \/ h.valid)
    BY <1>5 DEF ServeGarbage, ServeException, ServeRequest
  <2>4. fault \in BOOLEAN
    BY <1>1 DEF Rest
  <2> QED
    BY <2>2, <2>3, <2>4
<1>19. Numbered'
  BY <1>1, <1>2, <1>11, Zenon DEF Rest, Numbered
<1>20. Rest'
  BY <1>1, <1>2, <1>17, <1>18, <1>19 DEF Rest
<1>21. Outcome'
  BY <1>1, <1>2, <1>9, OutcomeStays
<1>22. Frames'
  BY <1>15, <1>16 DEF Frames
<1>23. Rest' /\ Frames' /\ Outcome'
  BY <1>20, <1>21, <1>22
<1> QED
  BY <1>23, InvParts, PTL

LEMMA SpoiledKeeps ==
  ASSUME NEW S, NEW q \in Seq(S), q # <<>>, \A s \in S : Cut(s) \in S
  PROVE  Spoiled(q) \subseteq Seq(S)
<1>1. Head(q) \in S /\ Tail(q) \in Seq(S)
  BY HeadTailProperties
<1>2. <<Cut(Head(q))>> \in Seq(S)
  BY <1>1
<1>3. <<Cut(Head(q))>> \o Tail(q) \in Seq(S)
  BY <1>1, <1>2, ConcatProperties
<1> QED
  BY <1>1, <1>3 DEF Spoiled

LEMMA LineFaultKeeps ==
  ASSUME ClientInv, LineFault
  PROVE  ClientInv'
<1>1. Rest /\ Frames /\ Outcome
  BY InvParts
<1>2. UNCHANGED <<pc, op, unit, tid, store, result, calls, executed>> /\ fault' = TRUE
      /\ broken' = (broken \/ Transport = "TCP")
  BY DEF LineFault
<1>3. requests \in Seq(KnownRequests) /\ replies \in Seq(KnownReplies)
  BY <1>1 DEF Frames
<1>4. \/ requests # <<>> /\ requests' \in Spoiled(requests) /\ replies' = replies
      \/ replies # <<>> /\ replies' \in Spoiled(replies) /\ requests' = requests
  BY DEF LineFault
<1>5. requests' \in Seq(KnownRequests) /\ replies' \in Seq(KnownReplies)
  BY <1>3, <1>4, CutIsKnown, SpoiledKeeps
<1>6. Frames'
  BY <1>1, <1>2, <1>5, FramesStay
<1>7. Rest'
  BY <1>1, <1>2, RestStays DEF Rest
<1>8. Outcome'
  BY <1>1, <1>2, OutcomeStays
<1>9. Rest' /\ Frames' /\ Outcome'
  BY <1>6, <1>7, <1>8
<1> QED
  BY <1>9, InvParts, PTL

LEMMA FailureKeeps ==
  ASSUME ClientInv, NEW e \in Errors, Fails(e), fault' \in BOOLEAN,
         UNCHANGED <<op, unit, tid, requests, replies, store, calls, executed, broken>>
  PROVE  ClientInv'
<1>1. Rest /\ Frames /\ Outcome
  BY InvParts
<1>2. requests' \in Seq(KnownRequests) /\ replies' \in Seq(KnownReplies)
  BY <1>1 DEF Frames
<1>3. Frames'
  BY <1>1, <1>2, FramesStay
<1>4. Rest'
  BY <1>1, RestStays DEF Rest
<1>5. Outcome'
  BY FailureIsQuiet
<1>6. Rest' /\ Frames' /\ Outcome'
  BY <1>3, <1>4, <1>5
<1> QED
  BY <1>6, InvParts, PTL

-----------------------------------------------------------------------------
LEMMA ClientInvInit == ClientInit => ClientInv
<1> SUFFICES ASSUME ClientInit PROVE ClientInv
  OBVIOUS
<1>1. n = 0
  BY DEF ClientInit, n
<1>2. Numbered
  BY <1>1 DEF Numbered
<1>7. /\ calls = <<>> /\ requests = <<>> /\ replies = <<>> /\ executed = {}
      /\ op \in Ops /\ unit \in Units /\ tid = 0 /\ fault = FALSE /\ broken = FALSE
      /\ store \in [Units -> Data]
  BY DEF ClientInit
<1>3. Rest
  <2>1. calls \in Seq([op : Ops, unit : Units \cup {0}])
    BY <1>7
  <2>2. tid \in 0..TidMax
    BY <1>7, Constants
  <2> QED
    BY <1>2, <1>7, <2>1, <2>2 DEF Rest
<1>4. Frames
  BY <1>7 DEF Frames
<1>5. result \in Results /\ ~Succeeded
  BY DEF ClientInit, Results, Succeeded
<1>6. Outcome
  BY <1>5 DEF ClientInit, Outcome, OwnAnswer, AcknowledgedIsExecuted
<1> QED
  BY <1>3, <1>4, <1>6, InvParts

LEMMA ClientInvStep == ClientInv /\ [ClientNext]_clientVars => ClientInv'
<1> SUFFICES ASSUME ClientInv, [ClientNext]_clientVars PROVE ClientInv'
  OBVIOUS
<1>1. Rest /\ Frames /\ Outcome
  BY InvParts
<1>2. fault \in BOOLEAN
  BY <1>1 DEF Rest
<1>3. ASSUME NEW o \in Ops, InvalidArgument(o) PROVE ClientInv'
  BY <1>2, <1>3, FailureKeeps DEF InvalidArgument, Errors
<1>4. ASSUME NEW o \in Ops, NEW u \in Units \cup {0}, Send(o, u) \/ SendFails(o, u) PROVE ClientInv'
  BY <1>4, CallKeeps
<1>5. CASE Timeout
  <2>1. fault' \in BOOLEAN
    BY <1>2, <1>5 DEF Timeout, Underway
  <2> QED
    BY <1>5, <2>1, FailureKeeps DEF Timeout, Errors
<1>6. CASE Receive
  BY <1>6, ReceiveKeeps
<1>7. CASE Serve
  BY <1>7, ServeKeeps
<1>8. CASE LineFault
  BY <1>8, LineFaultKeeps
<1>9. CASE UNCHANGED clientVars
  <2>1. UNCHANGED <<pc, op, unit, tid, requests, replies, store, result, calls, executed, fault,
                    broken>>
    BY <1>9 DEF clientVars
  <2>2. requests' \in Seq(KnownRequests) /\ replies' \in Seq(KnownReplies)
    BY <1>1, <2>1 DEF Frames
  <2>3. Frames'
    BY <1>1, <2>1, <2>2, FramesStay
  <2>4. Rest'
    BY <1>1, <1>2, <2>1, RestStays DEF Rest
  <2>5. Outcome'
    BY <1>1, <2>1, OutcomeStays
  <2>6. Rest' /\ Frames' /\ Outcome'
    BY <2>3, <2>4, <2>5
  <2> QED
    BY <2>6, InvParts, PTL
<1> QED
  BY <1>3, <1>4, <1>5, <1>6, <1>7, <1>8, <1>9 DEF ClientNext, CallStep

THEOREM ClientInvariance == ClientSpec => []ClientInv
<1>1. ClientInit => ClientInv
  BY ClientInvInit
<1>2. ClientInv /\ [ClientNext]_clientVars => ClientInv'
  BY ClientInvStep
<1> QED
  BY <1>1, <1>2, PTL DEF ClientSpec

\* The variables keep their types; current_tid stays within its range.
THEOREM ClientTypes == ClientSpec => []ClientTypeOK
<1>1. ClientInv => ClientTypeOK
  BY DEF ClientInv
<1> QED
  BY <1>1, ClientInvariance, PTL

\* Over both transports an acknowledged call, or one like it to the same unit, has
\* been executed.
THEOREM AcknowledgementsAreTrue == ClientSpec => []AcknowledgedIsExecuted
<1>1. ClientInv => AcknowledgedIsExecuted
  BY DEF ClientInv
<1> QED
  BY <1>1, ClientInvariance, PTL

LEMMA KnownFramesFit == ClientInv => FramesFit
<1> SUFFICES ASSUME ClientInv PROVE FramesFit
  OBVIOUS
<1>1. requests \in Seq(KnownRequests) /\ replies \in Seq(KnownReplies)
  BY DEF ClientInv
<1>2. ASSUME NEW i \in DOMAIN requests PROVE Served(requests[i].op)
  <2>1. requests[i] \in KnownRequests
    BY <1>1, ElementOfSeq, LenProperties
  <2>2. requests[i].op \in Calls /\ Request(requests[i].op).valid
    BY <2>1, Constants DEF KnownRequests, Requests, Known
  <2> QED
    BY <2>2, ValidIsServed
<1>3. ASSUME NEW i \in DOMAIN replies PROVE Served(replies[i].op)
  <2>1. replies[i] \in KnownReplies
    BY <1>1, ElementOfSeq, LenProperties
  <2>2. replies[i].op \in Calls /\ Request(replies[i].op).valid
    BY <2>1, Constants DEF KnownReplies, Replies, Known
  <2> QED
    BY <2>2, ValidIsServed
<1> QED
  BY <1>2, <1>3, Zenon DEF FramesFit, Served, AskedWhole, AnsweredWhole, Fits

\* Every request and every reply under way fits msg.buf and the MBAP length on both
\* transports, for every argument a caller may pass.
THEOREM FramesAlwaysFit == ClientSpec => []FramesFit
<1>1. ClientInv => FramesFit
  BY KnownFramesFit
<1> QED
  BY <1>1, ClientInvariance, PTL

(***************************************************************************)
(* Over TCP the client implements RemoteCall: as long as no frame has been *)
(* cut, a call is under way once at most, as a request or as a reply, and  *)
(* nothing is lost or overtaken.                                           *)
(***************************************************************************)
InOrder(q) == \A i, j \in 1..Len(q) : i < j => q[i].of < q[j].of
Behind(p, q) == \A i \in 1..Len(p), j \in 1..Len(q) : q[j].of < p[i].of
Pending(q, done) == \A i \in 1..Len(q) : q[i].ok /\ q[i].of \notin done
Intact(q) == \A i \in 1..Len(q) : q[i].ok
Replied(q, k) == \E i \in 1..Len(q) : q[i].of = k /\ ~q[i].exception

Lossless ==
  /\ InOrder(requests) /\ InOrder(replies) /\ Behind(requests, replies)
  /\ Pending(requests, executed) /\ Intact(replies)
  /\ pc = "sent" /\ n \in executed => Replied(replies, n)
  /\ pc = "idle" => result.err # "NONE" \/ result.of # 0

RemoteInv == Transport = "TCP" /\ ~broken /\ ClientInv /\ Lossless

\* A suffix of a queue keeps all of this.
LEMMA SuffixKeeps ==
  ASSUME NEW S, NEW q \in Seq(S), NEW T, NEW s \in Seq(T), NEW k \in Nat,
         Len(s) = Len(q) - k, \A i \in 1..Len(s) : s[i] = q[k + i]
  PROVE  /\ InOrder(q) => InOrder(s)
         /\ \A p : Behind(p, q) => Behind(p, s)
         /\ \A p : Behind(q, p) => Behind(s, p)
         /\ \A done : Pending(q, done) => Pending(s, done)
         /\ Intact(q) => Intact(s)
<1>1. Len(q) \in Nat /\ Len(s) \in Nat
  BY LenProperties
<1>2. \A i \in 1..Len(s) : k + i \in 1..Len(q) /\ s[i] = q[k + i]
  BY <1>1
<1>3. InOrder(q) => InOrder(s)
  <2> SUFFICES ASSUME InOrder(q), NEW i \in 1..Len(s), NEW j \in 1..Len(s), i < j
               PROVE  s[i].of < s[j].of
    BY DEF InOrder
  <2>1. k + i < k + j
    BY <1>1
  <2> QED
    BY <1>2, <2>1 DEF InOrder
<1>4. ASSUME NEW p, Behind(p, q) PROVE Behind(p, s)
  BY <1>2, <1>4, Zenon DEF Behind
<1>5. ASSUME NEW p, Behind(q, p) PROVE Behind(s, p)
  BY <1>2, <1>5, Zenon DEF Behind
<1>6. ASSUME NEW done, Pending(q, done) PROVE Pending(s, done)
  BY <1>2, <1>6, Zenon DEF Pending
<1>7. Intact(q) => Intact(s)
  BY <1>2, Zenon DEF Intact
<1> QED
  BY <1>3, <1>4, <1>5, <1>6, <1>7, Zenon

LEMMA AppendShape ==
  ASSUME NEW S, NEW q \in Seq(S), NEW e
  PROVE  /\ Len(q) \in Nat /\ Len(Append(q, e)) = Len(q) + 1
         /\ Append(q, e)[Len(q) + 1] = e
         /\ \A i \in 1..Len(q) : Append(q, e)[i] = q[i]
<1>1. q \in Seq(S \cup {e}) /\ e \in S \cup {e}
  BY SeqMonotonic
<1> QED
  BY <1>1, LenProperties, AppendProperties

\* What is appended to a queue comes after all that is in it.
LEMMA AppendKeeps ==
  ASSUME NEW S, NEW q \in Seq(S), NEW e, NEW s, s = Append(q, e),
         \A i \in 1..Len(q) : q[i].of < e.of, InOrder(q)
  PROVE  InOrder(s)
<1>1. Len(q) \in Nat
  BY LenProperties
<1>3. Len(s) = Len(q) + 1 /\ s[Len(q) + 1] = e /\ \A i \in 1..Len(q) : s[i] = q[i]
  BY AppendShape
<1>4. ASSUME NEW i \in 1..Len(s), NEW j \in 1..Len(s), i < j
      PROVE  s[i].of < s[j].of
  <2>1. i \in 1..Len(q) /\ s[i] = q[i]
    BY <1>1, <1>3, <1>4
  <2>2. CASE j \in 1..Len(q)
    BY <1>3, <1>4, <2>1, <2>2 DEF InOrder
  <2>3. CASE j = Len(q) + 1
    BY <1>3, <2>1, <2>3
  <2> QED
    BY <1>1, <1>3, <2>2, <2>3
<1> QED
  BY <1>3, <1>4 DEF InOrder

\* Every frame stands for a call of the past.
PastFrames ==
  /\ n \in Nat /\ executed \subseteq 1..n
  /\ requests \in Seq(KnownRequests) /\ replies \in Seq(KnownReplies)
  /\ Len(requests) \in Nat /\ Len(replies) \in Nat
  /\ \A i \in 1..Len(requests) : Known(requests[i]) /\ requests[i] \in Requests
  /\ \A i \in 1..Len(replies) : Known(replies[i]) /\ True(replies[i]) /\ replies[i] \in Replies

LEMMA Past == ClientInv => PastFrames
<1> SUFFICES ASSUME ClientInv PROVE PastFrames
  OBVIOUS
<1>1. Rest /\ Frames
  BY InvParts
<1>2. n \in Nat /\ executed \subseteq 1..n
  BY <1>1, CallsCounted DEF Rest
<1>3. requests \in Seq(KnownRequests) /\ replies \in Seq(KnownReplies)
  BY <1>1 DEF Frames
<1>4. ASSUME NEW i \in 1..Len(requests) PROVE requests[i] \in KnownRequests
  BY <1>3, ElementOfSeq
<1>5. ASSUME NEW i \in 1..Len(replies) PROVE replies[i] \in KnownReplies
  BY <1>3, ElementOfSeq
<1>6. Len(requests) \in Nat /\ Len(replies) \in Nat
  BY <1>3, LenProperties
<1> QED
  BY <1>2, <1>3, <1>4, <1>5, <1>6, Zenon DEF PastFrames, KnownRequests, KnownReplies

\* What the server finds on the line is a request that it serves.
LEMMA HeadIsServed ==
  ASSUME RemoteInv, requests # <<>>, NEW q, q = Head(requests)
  PROVE  /\ q = requests[1] /\ 1 \in 1..Len(requests) /\ q \in Requests /\ Known(q)
         /\ q.ok /\ q.of \notin executed /\ handle_req_fc(q.op, Request(q.op).count).taken
<1>1. requests \in Seq(KnownRequests)
  BY Past DEF PastFrames, RemoteInv
<1>2. 1 \in 1..Len(requests)
  BY <1>1, EmptySeq
<1>3. q = requests[1]
  OBVIOUS
<1>4. q \in Requests /\ Known(q)
  BY <1>2, <1>3, Past DEF PastFrames, RemoteInv
<1>5. q.op \in Calls /\ Request(q.op).valid
  BY <1>4, Constants DEF Known, Requests
<1>6. handle_req_fc(q.op, Request(q.op).count).taken
  BY <1>5, ValidIsServed DEF Served
<1>7. q.ok /\ q.of \notin executed
  BY <1>2, <1>3 DEF RemoteInv, Lossless, Pending
<1> QED
  BY <1>2, <1>3, <1>4, <1>6, <1>7

\* Hence it answers every request, with an exception or after its execution.
LEMMA ServeAnswers ==
  ASSUME RemoteInv, Serve, NEW q, q = Head(requests),
         NEW h, h = handle_req_fc(q.op, Request(q.op).count)
  PROVE  /\ requests # <<>> /\ requests' = Tail(requests)
         /\ UNCHANGED <<pc, op, unit, tid, result, calls, broken>>
         /\ \/ /\ replies' = Append(replies, Reply(q, h, TRUE, NoData))
               /\ UNCHANGED <<store, executed>>
            \/ /\ \E u \in Units :
                     replies' = Append(replies, Reply(q, h, FALSE, Answer(q.op, store[u])))
               /\ store' = [u \in Units |-> Effect(q.op, store[u])]
               /\ executed' = executed \cup {q.of}
<1>0. requests # <<>> /\ UNCHANGED <<pc, op, unit, tid, result, calls, broken>>
  BY DEF Serve
<1>2. q.ok /\ h.taken
  BY <1>0, HeadIsServed
<1>1. /\ requests # <<>> /\ requests' = Tail(requests)
      /\ UNCHANGED <<pc, op, unit, tid, result, calls, broken>>
      /\ ServeGarbage(q, h) \/ ServeException(q, h) \/ ServeRequest(q, h)
  BY <1>0, <1>2 DEF Serve, ServeGarbage
<1>3. Transport = "TCP"
  BY DEF RemoteInv
<1>4. ~Broadcast(q) /\ Addressed(q) = Units
  BY <1>3 DEF Broadcast, Addressed
<1>5. ~ServeGarbage(q, h)
  BY <1>2 DEF ServeGarbage
<1>6. CASE ServeException(q, h)
  BY <1>1, <1>4, <1>6, Zenon DEF ServeException
<1>7. CASE ServeRequest(q, h)
  <2>1. \E u \in Units : replies' = Append(replies, Reply(q, h, FALSE, Answer(q.op, store[u])))
    BY <1>4, <1>7, Zenon DEF ServeRequest
  <2>2. store' = [u \in Units |-> Effect(q.op, store[u])] /\ executed' = executed \cup {q.of}
    BY <1>4, <1>7 DEF ServeRequest
  <2> QED
    BY <1>1, <2>1, <2>2
<1> QED
  BY <1>1, <1>5, <1>6, <1>7, Zenon

LEMMA ServeLossless ==
  ASSUME RemoteInv, Serve, ClientInv'
  PROVE  Lossless'
<1> DEFINE q == Head(requests)
           h == handle_req_fc(q.op, Request(q.op).count)
<1>1. /\ requests # <<>> /\ requests' = Tail(requests) /\ n' = n /\ pc' = pc
      /\ result' = result /\ executed \subseteq executed' /\ executed' \subseteq executed \cup {q.of}
  BY ServeAnswers DEF n
<1>2. PICK r : /\ replies' = Append(replies, r) /\ r.of = q.of /\ r.ok
               /\ executed' = executed \/ (q.of \in executed' /\ ~r.exception)
  <2>1. CASE /\ replies' = Append(replies, Reply(q, h, TRUE, NoData))
             /\ executed' = executed
    BY <2>1 DEF Reply
  <2>2. CASE /\ \E u \in Units :
                   replies' = Append(replies, Reply(q, h, FALSE, Answer(q.op, store[u])))
             /\ executed' = executed \cup {q.of}
    <3>1. PICK u \in Units :
             replies' = Append(replies, Reply(q, h, FALSE, Answer(q.op, store[u])))
      BY <2>2
    <3>2. /\ Reply(q, h, FALSE, Answer(q.op, store[u])).of = q.of
          /\ Reply(q, h, FALSE, Answer(q.op, store[u])).ok
          /\ ~Reply(q, h, FALSE, Answer(q.op, store[u])).exception
      BY DEF Reply
    <3> QED
      BY <2>2, <3>1, <3>2, Zenon
  <2> QED
    BY <2>1, <2>2, ServeAnswers
<1>3. q = requests[1] /\ 1 \in 1..Len(requests) /\ q \in Requests
  BY <1>1, HeadIsServed
<1> HIDE DEF q, h
<1>4. /\ InOrder(requests) /\ InOrder(replies) /\ Behind(requests, replies)
      /\ Pending(requests, executed) /\ Intact(replies)
      /\ pc = "sent" /\ n \in executed => Replied(replies, n)
      /\ pc = "idle" => result.err # "NONE" \/ result.of # 0
  BY DEF RemoteInv, Lossless
<1>5. /\ requests \in Seq(KnownRequests) /\ replies \in Seq(KnownReplies)
      /\ Len(requests) \in Nat /\ Len(replies) \in Nat
  BY Past DEF PastFrames, RemoteInv
<1>6. replies' \in Seq(KnownReplies')
  BY DEF ClientInv
<1>7. /\ Len(requests') = Len(requests) - 1
      /\ \A i \in 1..Len(requests') : requests'[i] = requests[1 + i]
      /\ requests' \in Seq(KnownRequests)
  BY <1>1, <1>5, HeadTailProperties
<1>8. InOrder(requests') /\ Pending(requests', executed) /\ Behind(requests', replies)
  BY <1>4, <1>5, <1>7, SuffixKeeps
<1>9. \A i \in 1..Len(replies) : replies[i].of < r.of
  BY <1>2, <1>3, <1>4 DEF Behind
<1>10. /\ Len(replies') = Len(replies) + 1 /\ replies'[Len(replies) + 1] = r
       /\ \A i \in 1..Len(replies) : replies'[i] = replies[i]
       /\ InOrder(replies')
  <2>1. InOrder(replies')
    BY <1>2, <1>4, <1>5, <1>9, AppendKeeps
  <2> QED
    BY <1>2, <1>5, <2>1, AppendShape
<1>11. ASSUME NEW j \in 1..Len(replies')
       PROVE  (j \in 1..Len(replies) /\ replies'[j] = replies[j]) \/ replies'[j] = r
  BY <1>5, <1>10
<1>12. \A i \in 1..Len(requests') : q.of < requests'[i].of
  BY <1>3, <1>4, <1>5, <1>7 DEF InOrder
<1>13. Behind(requests', replies')
  BY <1>2, <1>8, <1>11, <1>12, Zenon DEF Behind
<1>14. Intact(replies')
  BY <1>2, <1>4, <1>11, Zenon DEF Intact
<1>15. Pending(requests', executed')
  <2> SUFFICES ASSUME NEW i \in 1..Len(requests')
               PROVE  requests'[i].ok /\ requests'[i].of \notin executed'
    BY DEF Pending
  <2>1. requests'[i].ok /\ requests'[i].of \notin executed
    BY <1>8 DEF Pending
  <2>2. requests'[i] \in Requests
    BY <1>7, ElementOfSeq DEF KnownRequests
  <2>3. requests'[i].of \in Nat /\ q.of \in Nat /\ q.of < requests'[i].of
    BY <1>3, <1>12, <2>2 DEF Requests
  <2> QED
    BY <1>1, <2>1, <2>3
<1>16. ASSUME pc' = "sent", n' \in executed' PROVE Replied(replies', n')
  <2>1. CASE n \in executed
    <3>1. PICK i \in 1..Len(replies) : replies[i].of = n /\ ~replies[i].exception
      BY <1>1, <1>4, <1>16, <2>1 DEF Replied
    <3>2. i \in 1..Len(replies') /\ replies'[i] = replies[i]
      BY <1>5, <1>10
    <3> QED
      BY <1>1, <3>1, <3>2, Zenon DEF Replied
  <2>2. CASE n \notin executed
    <3>1. r.of = n /\ ~r.exception
      BY <1>1, <1>2, <1>16, <2>2
    <3>2. Len(replies) + 1 \in 1..Len(replies')
      BY <1>5, <1>10
    <3> QED
      BY <1>1, <1>10, <3>1, <3>2, Zenon DEF Replied
  <2> QED
    BY <2>1, <2>2
<1>17. pc' = "idle" => result'.err # "NONE" \/ result'.of # 0
  BY <1>1, <1>4, Zenon
<1> QED
  BY <1>8, <1>10, <1>13, <1>14, <1>15, <1>16, <1>17, Zenon DEF Lossless

FlushIsWhole == replies' \in Dropped(replies)
NoAnswerYet == pc' = "idle" => result'.err # "NONE"

LEMMA CallLossless ==
  ASSUME RemoteInv, NEW o \in Ops, NEW u \in Units \cup {0}, msg_state_req(o, u), ClientInv',
         NEW f, f.of = n + 1, f.ok, FlushIsWhole, NoAnswerYet,
         requests' = requests \/ requests' = Append(requests, f)
  PROVE  Lossless'
<1>1. Rest /\ Transport = "TCP"
  BY InvParts DEF RemoteInv
<1>2. n \in Nat /\ n' = n + 1 /\ executed' = executed /\ executed \subseteq 1..n
  BY <1>1, CallCounted DEF msg_state_req, Rest
<1>3. /\ InOrder(requests) /\ InOrder(replies) /\ Behind(requests, replies)
      /\ Pending(requests, executed) /\ Intact(replies)
  BY DEF RemoteInv, Lossless
<1>4. /\ requests \in Seq(KnownRequests) /\ replies \in Seq(KnownReplies)
      /\ Len(requests) \in Nat /\ Len(replies) \in Nat
      /\ \A i \in 1..Len(requests) : requests[i].of \in 1..n
      /\ \A i \in 1..Len(replies) : replies[i].of \in 1..n
  BY Past, Zenon DEF PastFrames, RemoteInv, Known
<1>5. requests' \in Seq(KnownRequests') /\ replies' \in Seq(KnownReplies')
  BY DEF ClientInv
<1>6. PICK k \in 0..Len(replies) : replies' = SubSeq(replies, k + 1, Len(replies))
  BY DEF FlushIsWhole, Dropped
<1>7. /\ Len(replies') = Len(replies) - k
      /\ \A i \in 1..Len(replies') : replies'[i] = replies[k + i]
  <2>1. \A i \in (k + 1)..Len(replies) : replies[i] \in KnownReplies
    BY <1>4, ElementOfSeq
  <2>2. /\ Len(replies') = IF k + 1 <= Len(replies) THEN Len(replies) - (k + 1) + 1 ELSE 0
        /\ \A i \in 1..(Len(replies) - (k + 1) + 1) : replies'[i] = replies[(k + 1) + i - 1]
    BY <1>4, <1>6, <2>1, SubSeqProperties
  <2> QED
    BY <1>4, <2>2
<1>8. InOrder(replies') /\ Behind(requests, replies') /\ Intact(replies')
  <2>1. k \in Nat
    BY <1>4
  <2>2. /\ InOrder(replies) => InOrder(replies')
        /\ \A p : Behind(p, replies) => Behind(p, replies')
        /\ Intact(replies) => Intact(replies')
    BY <1>4, <1>5, <1>7, <2>1, SuffixKeeps
  <2> QED
    BY <1>3, <2>2, Zenon
<1>9. n' \notin executed'
  BY <1>2
<1>10. CASE requests' = requests
  BY <1>2, <1>3, <1>8, <1>9, <1>10, Zenon DEF Lossless, NoAnswerYet
<1>11. CASE requests' = Append(requests, f)
  <2>1. f.of = n + 1 /\ f.ok
    OBVIOUS
  <2>2. \A i \in 1..Len(requests) : requests[i].of < f.of
    BY <1>2, <1>4, <2>1
  <2>3. /\ Len(requests') = Len(requests) + 1 /\ requests'[Len(requests) + 1] = f
        /\ \A i \in 1..Len(requests) : requests'[i] = requests[i]
        /\ InOrder(requests')
    <3>1. InOrder(requests')
      BY <1>3, <1>4, <1>11, <2>2, AppendKeeps
    <3> QED
      BY <1>4, <1>11, <3>1, AppendShape
  <2>4. ASSUME NEW i \in 1..Len(requests')
        PROVE  (i \in 1..Len(requests) /\ requests'[i] = requests[i]) \/ requests'[i] = f
    BY <1>4, <2>3
  <2>5. f.of \notin executed
    BY <1>2, <2>1
  <2>6. Pending(requests', executed')
    BY <1>2, <1>3, <2>1, <2>4, <2>5, Zenon DEF Pending
  <2>7. \A j \in 1..Len(replies') : replies'[j].of < f.of
    BY <1>2, <1>4, <1>6, <1>7, <2>1
  <2>8. Behind(requests', replies')
    BY <1>8, <2>4, <2>7, Zenon DEF Behind
  <2> QED
    BY <1>8, <1>9, <2>3, <2>6, <2>8, Zenon DEF Lossless, NoAnswerYet
<1> QED
  BY <1>10, <1>11

\* A reply is not damaged: it is removed whole.
LEMMA ReceiveRemoves ==
  ASSUME RemoteInv, Receive, NEW r, r = Head(replies)
  PROVE  /\ pc = "sent" /\ pc' = "idle" /\ replies # <<>> /\ replies' = Tail(replies)
         /\ UNCHANGED <<op, unit, tid, requests, store, calls, executed, fault, broken>>
         /\ r = replies[1] /\ 1 \in 1..Len(replies) /\ r \in KnownReplies
         /\ \/ \E e \in Errors : Fails(e)
            \/ /\ HeaderError(r) = "NONE" /\ ~r.exception
               /\ Ends("NONE", r.data, r.of)
<1>1. /\ pc = "sent" /\ replies # <<>>
      /\ ReceiveGarbage(r) \/ ReceiveForeign(r) \/ ReceiveException(r) \/ ReceiveAnswer(r)
      /\ UNCHANGED <<op, unit, tid, requests, store, calls, executed, fault, broken>>
  BY DEF Receive
<1>2. replies \in Seq(KnownReplies)
  BY Past DEF PastFrames, RemoteInv
<1>3. 1 \in 1..Len(replies) /\ r = replies[1] /\ r \in KnownReplies
  BY <1>1, <1>2, EmptySeq, HeadTailProperties
<1>4. r.ok /\ Transport = "TCP"
  BY <1>3 DEF RemoteInv, Lossless, Intact
<1>5. ~ReceiveGarbage(r)
  BY <1>4 DEF ReceiveGarbage
<1>6. replies' = Tail(replies)
  BY <1>1, <1>4, <1>5 DEF ReceiveForeign, ReceiveException, ReceiveAnswer, Skip
<1>7. \/ \E e \in Errors : Fails(e)
      \/ HeaderError(r) = "NONE" /\ ~r.exception /\ Ends("NONE", r.data, r.of)
  <2>1. CASE ReceiveForeign(r)
    <3>1. HeaderError(r) \in Errors
      BY <2>1 DEF ReceiveForeign, HeaderError, Errors
    <3> QED
      BY <2>1, <3>1 DEF ReceiveForeign
  <2>2. CASE ReceiveException(r)
    <3>1. "exception" \in Errors
      BY DEF Errors
    <3> QED
      BY <2>2, <3>1 DEF ReceiveException
  <2>3. CASE ReceiveAnswer(r)
    <3>1. "INVALID_RESPONSE" \in Errors
      BY DEF Errors
    <3> QED
      BY <2>3, <3>1 DEF ReceiveAnswer
  <2> QED
    BY <1>1, <1>5, <2>1, <2>2, <2>3
<1>8. pc' = "idle"
  BY <1>7 DEF Fails, Ends
<1> QED
  BY <1>1, <1>3, <1>6, <1>7, <1>8, Zenon

LEMMA ReceiveLossless ==
  ASSUME RemoteInv, Receive
  PROVE  Lossless'
<1>1. /\ pc' = "idle" /\ replies # <<>> /\ replies' = Tail(replies)
      /\ UNCHANGED <<requests, executed>>
  BY ReceiveRemoves
<1>6. result'.err # "NONE" \/ result'.of # 0
  <2>1. PICK r : r = Head(replies)
    OBVIOUS
  <2>2. CASE \E e \in Errors : Fails(e)
    BY <2>2 DEF Fails, Ends, Errors
  <2>3. CASE Ends("NONE", r.data, r.of)
    <3>1. r \in KnownReplies /\ n \in Nat
      BY <2>1, ReceiveRemoves, Past DEF RemoteInv, PastFrames
    <3>2. r.of \in 1..n
      BY <3>1, Zenon DEF KnownReplies, Known
    <3>3. result'.of = r.of
      BY <2>3 DEF Ends
    <3> QED
      BY <3>1, <3>2, <3>3
  <2> QED
    BY <2>1, <2>2, <2>3, ReceiveRemoves
<1>2. replies \in Seq(KnownReplies)
  BY Past DEF PastFrames, RemoteInv
<1>3. /\ replies' \in Seq(KnownReplies) /\ Len(replies') = Len(replies) - 1
      /\ \A i \in 1..Len(replies') : replies'[i] = replies[1 + i]
  BY <1>1, <1>2, HeadTailProperties
<1>4. /\ InOrder(requests) /\ InOrder(replies) /\ Behind(requests, replies)
      /\ Pending(requests, executed) /\ Intact(replies)
  BY DEF RemoteInv, Lossless
<1>5. InOrder(replies') /\ Behind(requests, replies') /\ Intact(replies')
  BY <1>2, <1>3, <1>4, SuffixKeeps
<1> QED
  BY <1>1, <1>4, <1>5, <1>6, Zenon DEF Lossless

LEMMA FailureLossless ==
  ASSUME RemoteInv, NEW e \in Errors, Fails(e), UNCHANGED <<requests, replies, executed>>
  PROVE  Lossless'
<1>1. pc' = "idle" /\ result'.err # "NONE"
  BY DEF Fails, Ends, Errors
<1> QED
  BY <1>1 DEF RemoteInv, Lossless, InOrder, Behind, Pending, Intact

(***************************************************************************)
(* The mapped variables                                                    *)
(***************************************************************************)
LateCount == IF RemotePc = "called" THEN Len(requests) - 1 ELSE Len(requests)

LateShape ==
  /\ LateCount \in Nat /\ LateOps \in Seq(Ops) /\ Len(LateOps) = LateCount
  /\ \A i \in 1..LateCount : LateOps[i] = requests[i].op

CallShape ==
  /\ RemotePc = "idle" <=> pc = "idle"
  /\ RemotePc = "executed" <=> pc = "sent" /\ n \in executed
  /\ RemotePc = "called" <=>
        pc = "sent" /\ Len(requests) \in 1..Len(requests) /\ requests[Len(requests)].of = n
  /\ RemotePc \in {"idle", "called", "executed", "dropped"}

AnswerShape ==
  IF RemotePc = "executed"
  THEN \A i \in 1..Len(replies) : replies[i].of = n => RemoteAnswer = replies[i].data
  ELSE RemoteAnswer = NoData

LEMMA LastIsCurrent ==
  ASSUME RemoteInv, NEW i \in 1..Len(requests), requests[i].of = n
  PROVE  i = Len(requests) /\ n \notin executed /\ (pc = "sent" => requests[i].op = op)
<1>1. PastFrames
  BY Past DEF RemoteInv
<1>2. i = Len(requests)
  <2> SUFFICES ASSUME i < Len(requests) PROVE FALSE
    BY <1>1 DEF PastFrames
  <2>1. Len(requests) \in 1..Len(requests)
    BY <1>1 DEF PastFrames
  <2>2. requests[i].of < requests[Len(requests)].of
    BY <2>1 DEF RemoteInv, Lossless, InOrder
  <2>3. requests[Len(requests)].of \in 1..n /\ n \in Nat
    BY <1>1, <2>1 DEF PastFrames, Known
  <2> QED
    BY <2>2, <2>3
<1>3. n \notin executed
  BY DEF RemoteInv, Lossless, Pending
<1>4. ASSUME pc = "sent" PROVE requests[i].op = op
  <2>1. calls[n] = [op |-> requests[i].op, unit |-> requests[i].unit]
    BY <1>1 DEF PastFrames, Known
  <2>2. calls[n] = [op |-> op, unit |-> unit]
    BY <1>4 DEF RemoteInv, ClientInv, Numbered
  <2> QED
    BY <2>1, <2>2
<1> QED
  BY <1>2, <1>3, <1>4

LEMMA CallIsShaped == RemoteInv => CallShape
<1> SUFFICES ASSUME RemoteInv PROVE CallShape
  OBVIOUS
<1>1. /\ pc \in {"idle", "sent"} /\ Len(requests) \in Nat /\ DOMAIN requests = 1..Len(requests)
  BY Past, LenProperties DEF RemoteInv, PastFrames, ClientInv, ClientTypeOK
<1>2. (\E i \in DOMAIN requests : requests[i].of = n)
      <=> Len(requests) \in 1..Len(requests) /\ requests[Len(requests)].of = n
  BY <1>1, LastIsCurrent
<1>3. (\E i \in DOMAIN requests : requests[i].of = n) => n \notin executed
  BY <1>1, LastIsCurrent
<1> QED
  BY <1>1, <1>2, <1>3, Zenon DEF CallShape, RemotePc

LEMMA LateIsShaped == RemoteInv => LateShape
<1> SUFFICES ASSUME RemoteInv PROVE LateShape
  OBVIOUS
<1>1. /\ Len(requests) \in Nat
      /\ \A i \in 1..Len(requests) : requests[i] \in Requests
  BY Past DEF RemoteInv, PastFrames
<1>2. LateCount \in Nat /\ LateCount <= Len(requests)
  BY <1>1, CallIsShaped DEF CallShape, LateCount
<1>3. LateOps = [i \in 1..LateCount |-> requests[i].op]
  BY DEF LateOps, LateCount
<1>4. \A i \in 1..LateCount : requests[i].op \in Ops
  BY <1>1, <1>2 DEF Requests
<1> QED
  BY <1>2, <1>3, <1>4 DEF LateShape

LEMMA AnswerIsShaped == RemoteInv => AnswerShape
<1> SUFFICES ASSUME RemoteInv PROVE AnswerShape
  OBVIOUS
<1>1. replies \in Seq(KnownReplies) /\ Len(replies) \in Nat /\ DOMAIN replies = 1..Len(replies)
  BY Past, LenProperties DEF RemoteInv, PastFrames
<1>2. CASE RemotePc # "executed"
  BY <1>2 DEF AnswerShape, RemoteAnswer
<1>3. CASE RemotePc = "executed"
  <2> SUFFICES ASSUME NEW i \in 1..Len(replies), replies[i].of = n
               PROVE  RemoteAnswer = replies[i].data
    BY <1>3 DEF AnswerShape
  <2>1. PICK j : j = CHOOSE k \in DOMAIN replies : replies[k].of = n
    OBVIOUS
  <2>2. j \in 1..Len(replies) /\ replies[j].of = n
    BY <1>1, <2>1
  <2>3. \A a, b \in 1..Len(replies) : a < b => replies[a].of < replies[b].of
    BY DEF RemoteInv, Lossless, InOrder
  <2>4. n \in Nat
    BY Past DEF RemoteInv, PastFrames
  <2>5. i = j
    BY <1>1, <2>2, <2>3, <2>4
  <2>6. RemoteAnswer = replies[j].data
    BY <1>3, <2>1 DEF RemoteAnswer, RemoteInv
  <2> QED
    BY <2>5, <2>6
<1> QED
  BY <1>2, <1>3

Shaped == LateShape /\ CallShape /\ AnswerShape

LEMMA Shapes == RemoteInv => Shaped
BY CallIsShaped, LateIsShaped, AnswerIsShaped DEF Shaped

LEMMA SameLate ==
  ASSUME LateShape, LateShape', LateCount' = LateCount,
         \A i \in 1..LateCount : requests'[i] = requests[i]
  PROVE  LateOps' = LateOps
<1>1. /\ LateOps \in Seq(Ops) /\ LateOps' \in Seq(Ops)
      /\ Len(LateOps') = Len(LateOps)
      /\ \A i \in 1..Len(LateOps') : LateOps'[i] = LateOps[i]
  BY DEF LateShape
<1> QED
  BY <1>1, SeqEqual

TheUnit == CHOOSE u \in Units : TRUE

LEMMA OneUnit ==
  ASSUME Transport = "TCP"
  PROVE  TheUnit \in Units /\ \A u \in Units : u = TheUnit
BY ClientAssumption DEF TheUnit

(***************************************************************************)
(* The steps                                                               *)
(***************************************************************************)
RemoteStep ==
  \/ \E o \in Ops : Remote!Begin(o)
  \/ Remote!Execute \/ Remote!Drop \/ Remote!ExecuteLate
  \/ Remote!Succeed \/ Remote!Fail \/ Remote!NotCalled

LEMMA RefusalIsNotCalled ==
  ASSUME Shaped, Shaped', pc = "idle", NEW e \in Errors, Fails(e), op' \in Ops,
         UNCHANGED <<requests, store>>
  PROVE  RemoteStep
<1>1. RemotePc = "idle" /\ RemotePc' = "idle"
  BY DEF Shaped, CallShape, Fails, Ends
<1>2. RemoteAnswer' = RemoteAnswer
  BY <1>1 DEF Shaped, AnswerShape
<1>3. LateOps' = LateOps
  BY <1>1 DEF LateOps
<1>4. RemoteResult' = <<"error", NoData>>
  BY DEF Fails, Ends, RemoteResult, Errors
<1>5. Remote!NotCalled
  BY <1>1, <1>2, <1>3, <1>4 DEF Remote!NotCalled
<1> QED
  BY <1>5 DEF RemoteStep

LEMMA FailureIsFail ==
  ASSUME Shaped, Shaped', RemoteInv, pc = "sent", NEW e \in Errors, Fails(e),
         UNCHANGED <<op, requests, store>>
  PROVE  RemoteStep
<1>1. RemotePc # "idle" /\ RemotePc' = "idle"
  BY DEF Shaped, CallShape, Fails, Ends
<1>2. RemoteAnswer' = NoData
  BY <1>1 DEF Shaped, AnswerShape
<1>4. RemoteResult' = <<"error", NoData>>
  BY DEF Fails, Ends, RemoteResult, Errors
<1>5. LateOps' = IF RemotePc = "called" THEN Append(LateOps, op) ELSE LateOps
  <2>1. CASE RemotePc # "called"
    BY <1>1, <2>1 DEF LateOps
  <2>2. CASE RemotePc = "called"
    <3>1. /\ LateOps \in Seq(Ops) /\ Len(LateOps) = Len(requests) - 1 /\ Len(requests) \in 1..Len(requests)
          /\ \A i \in 1..(Len(requests) - 1) : LateOps[i] = requests[i].op
          /\ LateOps' \in Seq(Ops) /\ Len(LateOps') = Len(requests)
          /\ \A i \in 1..Len(requests) : LateOps'[i] = requests[i].op
      BY <1>1, <2>2 DEF Shaped, LateShape, CallShape, LateCount
    <3>2. requests[Len(requests)].op = op /\ op \in Ops
      BY <2>2, <3>1, LastIsCurrent DEF Shaped, CallShape, RemoteInv, ClientInv, ClientTypeOK
    <3>3. /\ Append(LateOps, op) \in Seq(Ops) /\ Len(Append(LateOps, op)) = Len(requests)
          /\ Append(LateOps, op)[Len(requests)] = op
          /\ \A i \in 1..(Len(requests) - 1) : Append(LateOps, op)[i] = requests[i].op
      BY <3>1, <3>2, AppendProperties
    <3>4. LateOps' = Append(LateOps, op)
      BY <3>1, <3>2, <3>3, SeqEqual
    <3> QED
      BY <2>2, <3>4
  <2> QED
    BY <2>1, <2>2
<1>6. Remote!Fail
  BY <1>1, <1>2, <1>4, <1>5 DEF Remote!Fail
<1> QED
  BY <1>6 DEF RemoteStep

LEMMA SendIsBegin ==
  ASSUME RemoteInv, Shaped, Shaped', NEW o \in Ops, NEW u \in Units \cup {0}, Send(o, u)
  PROVE  RemoteStep
<1> DEFINE f == NewRequest(o, u, TRUE)
<1>1. msg_state_req(o, u) /\ Transport = "TCP" /\ Rest /\ requests' = Append(requests, f)
  BY InvParts DEF Send, RemoteInv
<1>2. pc' = "sent" /\ result' = result
  BY <1>1 DEF Send, AwaitsReply
<1>3. pc = "idle" /\ op' = o /\ store' = store
  BY <1>1 DEF msg_state_req
<1>4. n \in Nat /\ n' = n + 1 /\ f.of = n'
  BY <1>1, CallCounted DEF NewRequest
<1> HIDE DEF f
<1>5. requests \in Seq(KnownRequests) /\ Len(requests) \in Nat
  BY Past DEF RemoteInv, PastFrames
<1>6. /\ Len(requests') = Len(requests) + 1 /\ requests'[Len(requests) + 1] = f
      /\ \A i \in 1..Len(requests) : requests'[i] = requests[i]
  BY <1>1, <1>5, AppendShape
<1>7. RemotePc = "idle" /\ RemotePc' = "called"
  BY <1>2, <1>3, <1>4, <1>5, <1>6 DEF Shaped, CallShape
<1>8. LateOps' = LateOps
  <2>1. LateCount = Len(requests) /\ LateCount' = Len(requests)
    BY <1>5, <1>6, <1>7 DEF LateCount
  <2> QED
    BY <1>6, <2>1, SameLate DEF Shaped
<1>9. RemoteAnswer' = RemoteAnswer
  BY <1>7 DEF Shaped, AnswerShape
<1>10. Remote!Begin(o)
  BY <1>2, <1>3, <1>7, <1>8, <1>9 DEF Remote!Begin, RemoteResult
<1> QED
  BY <1>10 DEF RemoteStep

LEMMA SendFailureIsNotCalled ==
  ASSUME RemoteInv, Shaped, Shaped', NEW o \in Ops, NEW u \in Units \cup {0}, SendFails(o, u),
         requests' = requests
  PROVE  RemoteStep
<1>1. msg_state_req(o, u) /\ \E e \in Errors : Fails(e)
  BY DEF SendFails, Errors
<1>2. pc = "idle" /\ op' = o /\ store' = store
  BY <1>1 DEF msg_state_req
<1> QED
  BY <1>1, <1>2, RefusalIsNotCalled

LEMMA ReceiveIsReturn ==
  ASSUME RemoteInv, Shaped, Shaped', Receive
  PROVE  RemoteStep
<1> DEFINE r == Head(replies)
<1>1. /\ pc = "sent" /\ pc' = "idle"
      /\ UNCHANGED <<op, unit, tid, requests, store, calls, executed, fault, broken>>
      /\ r = replies[1] /\ 1 \in 1..Len(replies) /\ r \in KnownReplies
      /\ \/ \E e \in Errors : Fails(e)
         \/ HeaderError(r) = "NONE" /\ ~r.exception /\ Ends("NONE", r.data, r.of)
  BY ReceiveRemoves
<1> HIDE DEF r
<1>2. CASE \E e \in Errors : Fails(e)
  BY <1>1, <1>2, FailureIsFail
<1>3. CASE HeaderError(r) = "NONE" /\ ~r.exception /\ Ends("NONE", r.data, r.of)
  <2>1. Known(r) /\ r.of \in executed
    BY <1>1, <1>3 DEF KnownReplies, True
  <2>2. r.of = n
    <3>1. r.tid = tid /\ Transport = "TCP"
      BY <1>3 DEF HeaderError, RemoteInv
    <3>2. n - r.of < TidMax /\ r.tid = Back(tid, n - r.of) /\ r.of \in 1..n /\ n \in Nat
      BY <2>1, <3>1, Past DEF Known, RemoteInv, PastFrames
    <3>3. tid \in 1..TidMax
      BY <3>2 DEF RemoteInv, ClientInv, Numbered
    <3>4. n - r.of = 0
      BY <3>1, <3>2, <3>3, SameTidSameCall, Constants
    <3> QED
      BY <3>2, <3>4
  <2>3. RemotePc = "executed" /\ RemotePc' = "idle"
    BY <1>1, <2>1, <2>2 DEF Shaped, CallShape
  <2>4. RemoteAnswer = r.data /\ RemoteAnswer' = NoData
    BY <1>1, <2>2, <2>3 DEF Shaped, AnswerShape
  <2>5. LateOps' = LateOps
    BY <1>1, <2>3 DEF LateOps
  <2>6. RemoteResult' = <<"NONE", RemoteAnswer>>
    BY <1>3, <2>4 DEF RemoteResult, Ends
  <2>7. Remote!Succeed
    BY <1>1, <2>3, <2>4, <2>5, <2>6 DEF Remote!Succeed
  <2> QED
    BY <2>7 DEF RemoteStep
<1> QED
  BY <1>1, <1>2, <1>3

LEMMA ServeIsExecution ==
  ASSUME RemoteInv, Lossless', ClientInv', Shaped, Shaped', Serve
  PROVE  RemoteStep
<1> DEFINE q == Head(requests)
           h == handle_req_fc(q.op, Request(q.op).count)
           Refused == replies' = Append(replies, Reply(q, h, TRUE, NoData)) /\ UNCHANGED <<store, executed>>
           Executed ==
             /\ \E u \in Units : replies' = Append(replies, Reply(q, h, FALSE, Answer(q.op, store[u])))
             /\ store' = [u \in Units |-> Effect(q.op, store[u])]
             /\ executed' = executed \cup {q.of}
<1>1. /\ requests # <<>> /\ requests' = Tail(requests)
      /\ UNCHANGED <<pc, op, unit, tid, result, calls, broken>> /\ n' = n
      /\ Refused \/ Executed
  BY ServeAnswers DEF n
<1>2. q = requests[1] /\ 1 \in 1..Len(requests) /\ q.of \notin executed /\ q \in Requests
  BY <1>1, HeadIsServed
<1>3. /\ requests \in Seq(KnownRequests) /\ replies \in Seq(KnownReplies)
      /\ Len(requests) \in Nat /\ Len(replies) \in Nat
  BY Past DEF RemoteInv, PastFrames
<1>4. /\ Len(requests') = Len(requests) - 1
      /\ \A i \in 1..Len(requests') : requests'[i] = requests[i + 1]
  BY <1>1, <1>3, HeadTailProperties
<1>5. PICK r : /\ replies' = Append(replies, r) /\ r.of = q.of
               /\ Executed => r.data = Answer(q.op, store[TheUnit])
  <2>1. CASE Refused
    <3>1. Reply(q, h, TRUE, NoData).of = q.of
      BY DEF Reply
    <3>2. ~Executed
      BY <1>2, <2>1
    <3> QED
      BY <2>1, <3>1, <3>2
  <2>2. CASE Executed
    <3>1. PICK u \in Units : replies' = Append(replies, Reply(q, h, FALSE, Answer(q.op, store[u])))
      BY <2>2
    <3>2. u = TheUnit
      BY OneUnit DEF RemoteInv
    <3>3. /\ Reply(q, h, FALSE, Answer(q.op, store[u])).of = q.of
          /\ Reply(q, h, FALSE, Answer(q.op, store[u])).data = Answer(q.op, store[u])
      BY DEF Reply
    <3> QED
      BY <3>1, <3>2, <3>3, Zenon
  <2> QED
    BY <1>1, <2>1, <2>2
<1>6. store'[TheUnit] = IF Executed THEN Effect(q.op, store[TheUnit]) ELSE store[TheUnit]
  <2>1. TheUnit \in Units
    BY OneUnit DEF RemoteInv
  <2> QED
    BY <1>1, <2>1
<1>7. executed' = IF Executed THEN executed \cup {q.of} ELSE executed
  BY <1>1
<1>8. /\ Len(replies') = Len(replies) + 1 /\ replies'[Len(replies) + 1] = r
      /\ \A i \in 1..Len(replies) : replies'[i] = replies[i]
  BY <1>3, <1>5, AppendShape
<1>9. RemoteResult' = RemoteResult
  BY <1>1 DEF RemoteResult
<1>10. q.of = n => Len(requests) = 1
  BY <1>2, LastIsCurrent
<1> HIDE DEF q, h, Refused, Executed
<1>11. CASE pc = "sent" /\ q.of = n
  <2>1. Len(requests) = 1 /\ Len(requests') = 0
    <3>1. Len(requests) = 1
      BY <1>10, <1>11, Zenon
    <3>2. Len(requests') = Len(requests) - 1
      BY <1>4
    <3> QED
      BY <3>1, <3>2
  <2>2. RemotePc = "called" /\ RemotePc' \in {"executed", "dropped"}
    <3>1. pc = "sent" /\ pc' = "sent" /\ requests[1].of = n
      BY <1>1, <1>2, <1>11, Zenon
    <3>2. RemotePc = "called"
      BY <2>1, <3>1 DEF Shaped, CallShape
    <3>3. RemotePc' # "called" /\ RemotePc' # "idle"
      BY <2>1, <3>1 DEF Shaped, CallShape
    <3> QED
      BY <3>2, <3>3 DEF Shaped, CallShape
  <2>3. LateOps = <<>> /\ LateOps' = <<>>
    <3>1. LateCount = 0 /\ LateCount' = 0
      BY <2>1, <2>2 DEF LateCount
    <3> QED
      BY <3>1, EmptySeq DEF Shaped, LateShape
  <2>4. q.op = op
    BY <1>2, <1>11, LastIsCurrent
  <2>5. CASE Executed
    <3>1. RemotePc' = "executed"
      BY <1>1, <1>7, <1>11, <2>5 DEF Shaped, CallShape
    <3>2. RemoteAnswer' = Answer(op, store[TheUnit])
      <4>1. Len(replies) + 1 \in 1..Len(replies') /\ replies'[Len(replies) + 1].of = n'
        BY <1>1, <1>3, <1>5, <1>8, <1>11
      <4>2. RemoteAnswer' = replies'[Len(replies) + 1].data
        BY <3>1, <4>1 DEF Shaped, AnswerShape
      <4> QED
        BY <1>5, <1>8, <2>4, <2>5, <4>2
    <3>3. Remote!Execute
      BY <1>1, <1>6, <1>9, <2>2, <2>3, <2>4, <2>5, <3>1, <3>2 DEF Remote!Execute, TheUnit
    <3> QED
      BY <3>3 DEF RemoteStep
  <2>6. CASE ~Executed
    <3>1. RemotePc' = "dropped"
      BY <1>1, <1>2, <1>7, <1>11, <2>2, <2>6 DEF Shaped, CallShape
    <3>2. RemoteAnswer = NoData /\ RemoteAnswer' = NoData
      BY <2>2, <3>1 DEF Shaped, AnswerShape
    <3>3. Remote!Drop
      BY <1>1, <1>6, <1>9, <2>2, <2>3, <2>6, <3>1, <3>2 DEF Remote!Drop, TheUnit
    <3> QED
      BY <3>3 DEF RemoteStep
  <2> QED
    BY <2>5, <2>6
<1>12. CASE ~(pc = "sent" /\ q.of = n)
  <2>1. RemotePc' = RemotePc
    <3>1. pc = "sent" => (n \in executed' <=> n \in executed)
      BY <1>7, <1>12
    <3>2. pc = "sent" /\ Len(requests) = 1 => RemotePc # "called"
      BY <1>2, <1>12 DEF Shaped, CallShape
    <3>3. Len(requests) > 1 => /\ Len(requests') \in 1..Len(requests')
                               /\ Len(requests) \in 1..Len(requests)
                               /\ requests'[Len(requests')] = requests[Len(requests)]
      BY <1>3, <1>4
    <3>4. Len(requests) = 1 \/ Len(requests) > 1
      <4>1. 1 \in 1..Len(requests)
        BY <1>2, Zenon
      <4>2. Len(requests) \in Nat
        BY <1>3, Zenon
      <4>3. \A k \in Nat : 1 \in 1..k => k = 1 \/ k > 1
        OBVIOUS
      <4> QED
        BY <4>1, <4>2, <4>3, Zenon
    <3>5. RemotePc = "called" <=> RemotePc' = "called"
      BY <1>1, <1>4, <3>2, <3>3, <3>4 DEF Shaped, CallShape
    <3> QED
      BY <1>1, <3>1, <3>5 DEF Shaped, CallShape
  <2>2. LateCount \in Nat /\ LateCount > 0 /\ LateCount' = LateCount - 1 /\ LateCount <= Len(requests)
    <3>1. RemotePc = "called" => Len(requests) > 1
      BY <1>2, <1>3, <1>12 DEF Shaped, CallShape
    <3> QED
      BY <1>2, <1>3, <1>4, <2>1, <3>1 DEF LateCount
  <2>3. /\ LateOps \in Seq(Ops) /\ LateOps' \in Seq(Ops) /\ LateOps # <<>> /\ LateOps[1] = q.op
        /\ Len(LateOps) = LateCount /\ Len(LateOps') = LateCount - 1
        /\ \A i \in 1..(LateCount - 1) : LateOps'[i] = LateOps[i + 1]
    <3>1. /\ LateOps \in Seq(Ops) /\ LateOps' \in Seq(Ops)
          /\ Len(LateOps) = LateCount /\ Len(LateOps') = LateCount - 1
          /\ \A i \in 1..LateCount : LateOps[i] = requests[i].op
          /\ \A i \in 1..(LateCount - 1) : LateOps'[i] = requests'[i].op
      BY <2>2, Zenon DEF Shaped, LateShape
    <3>2. LateOps # <<>>
      BY <2>2, <3>1, EmptySeq
    <3>3. ASSUME NEW i \in 1..(LateCount - 1) PROVE LateOps'[i] = LateOps[i + 1]
      <4>1. i + 1 \in 1..LateCount /\ i \in 1..Len(requests')
        BY <1>3, <1>4, <2>2
      <4> QED
        BY <1>4, <3>1, <4>1
    <3> QED
      BY <1>2, <2>2, <3>1, <3>2, <3>3
  <2>4. LateOps' = Tail(LateOps) /\ Head(LateOps) = q.op
    <3>1. /\ Tail(LateOps) \in Seq(Ops) /\ Len(Tail(LateOps)) = LateCount - 1
          /\ \A i \in 1..(LateCount - 1) : Tail(LateOps)[i] = LateOps[i + 1]
      BY <2>3, HeadTailProperties
    <3>2. LateOps' = Tail(LateOps)
      BY <2>3, <3>1, SeqEqual
    <3>3. Head(LateOps) = LateOps[1]
      BY <2>3
    <3> QED
      BY <2>3, <3>2, <3>3
  <2>5. RemoteAnswer' = RemoteAnswer
    <3>1. CASE RemotePc # "executed"
      BY <2>1, <3>1 DEF Shaped, AnswerShape
    <3>2. CASE RemotePc = "executed"
      <4>1. pc = "sent" /\ n \in executed
        BY <3>2 DEF Shaped, CallShape
      <4>2. PICK i \in 1..Len(replies) : replies[i].of = n
        BY <4>1 DEF RemoteInv, Lossless, Replied
      <4>3. RemoteAnswer = replies[i].data
        BY <3>2, <4>2 DEF Shaped, AnswerShape
      <4>4. i \in 1..Len(replies') /\ replies'[i] = replies[i]
        BY <1>3, <1>8
      <4>5. RemoteAnswer' = replies'[i].data
        BY <1>1, <2>1, <3>2, <4>2, <4>4 DEF Shaped, AnswerShape
      <4> QED
        BY <4>3, <4>4, <4>5
    <3> QED
      BY <3>1, <3>2
  <2>6. store'[TheUnit] \in {store[TheUnit], Effect(Head(LateOps), store[TheUnit])}
    BY <1>6, <2>4
  <2>7. Remote!ExecuteLate
    BY <1>1, <1>9, <2>1, <2>3, <2>4, <2>5, <2>6 DEF Remote!ExecuteLate, TheUnit
  <2> QED
    BY <2>7 DEF RemoteStep
<1> QED
  BY <1>11, <1>12

LEMMA StutterIsStutter ==
  ASSUME UNCHANGED clientVars
  PROVE  UNCHANGED Remote!callVars
BY DEF clientVars, Remote!callVars, RemotePc, RemoteAnswer, LateOps, RemoteResult, n

\* What a call does to the frames when it cuts none.
LEMMA WholeCall ==
  ASSUME Transport = "TCP", ~broken', NEW o, NEW u, Send(o, u) \/ SendFails(o, u)
  PROVE  /\ msg_state_req(o, u) /\ FlushIsWhole /\ NoAnswerYet
         /\ \/ Send(o, u) /\ requests' = Append(requests, NewRequest(o, u, TRUE))
            \/ SendFails(o, u) /\ requests' = requests
<1>1. msg_state_req(o, u)
  BY DEF Send, SendFails
<1>2. CASE Send(o, u)
  <2>1. broken' = (broken \/ FlushCuts)
    BY <1>2 DEF Send
  <2>2. ~FlushCuts
    BY <2>1, Zenon
  <2>3. pc' = "sent"
    BY <1>2 DEF Send, AwaitsReply
  <2>4. FlushIsWhole /\ NoAnswerYet
    BY <2>2, <2>3 DEF FlushCuts, FlushIsWhole, NoAnswerYet
  <2>5. requests' = Append(requests, NewRequest(o, u, TRUE))
    BY <1>2 DEF Send
  <2> QED
    BY <1>1, <1>2, <2>4, <2>5, Zenon
<1>3. CASE SendFails(o, u)
  <2>1. \/ requests' = requests /\ broken' = (broken \/ FlushCuts)
        \/ broken' = (broken \/ Transport = "TCP")
    BY <1>3, Zenon DEF SendFails
  <2>2. requests' = requests /\ ~FlushCuts
    BY <2>1, Zenon
  <2>3. result'.err # "NONE"
    BY <1>3 DEF SendFails, Fails, Ends
  <2>4. FlushIsWhole /\ NoAnswerYet
    BY <2>2, <2>3 DEF FlushCuts, FlushIsWhole, NoAnswerYet
  <2> QED
    BY <1>1, <1>3, <2>2, <2>4, Zenon
<1> QED
  BY <1>2, <1>3

LEMMA LineFaultBreaks ==
  ASSUME Transport = "TCP", LineFault
  PROVE  broken'
<1>1. broken' = (broken \/ Transport = "TCP")
  BY DEF LineFault
<1> QED
  BY <1>1, Zenon

\* A connection does not mend.
LEMMA BreakStays ==
  ASSUME [ClientNext]_clientVars, broken
  PROVE  broken'
<1>1. ASSUME NEW o \in Ops, InvalidArgument(o) PROVE broken' = broken
  BY <1>1 DEF InvalidArgument
<1>2. ASSUME NEW o \in Ops, NEW u \in Units \cup {0}, Send(o, u) \/ SendFails(o, u)
      PROVE  broken' = (broken \/ FlushCuts) \/ broken' = (broken \/ Transport = "TCP")
  BY <1>2, Zenon DEF Send, SendFails
<1>3. CASE Timeout \/ Receive \/ Serve \/ UNCHANGED clientVars
  <2>1. broken' = broken
    BY <1>3 DEF Timeout, Receive, Serve, clientVars
  <2> QED
    BY <2>1
<1>4. CASE LineFault
  <2>1. broken' = (broken \/ Transport = "TCP")
    BY <1>4 DEF LineFault
  <2> QED
    BY <2>1, Zenon
<1>5. CASE \E o \in Ops : InvalidArgument(o)
  BY <1>1, <1>5, Zenon
<1>6. CASE \E o \in Ops : \E u \in Units \cup {0} : Send(o, u) \/ SendFails(o, u)
  BY <1>2, <1>6, Zenon
<1> QED
  BY <1>3, <1>4, <1>5, <1>6, Zenon DEF ClientNext, CallStep

LEMMA StepKeepsLossless ==
  ASSUME RemoteInv, ClientInv', ~broken', [ClientNext]_clientVars
  PROVE  RemoteInv'
<1>1. Transport = "TCP" /\ ClientInv
  BY DEF RemoteInv
<1> SUFFICES Lossless'
  BY <1>1 DEF RemoteInv
<1>2. ASSUME NEW o \in Ops, InvalidArgument(o) PROVE Lossless'
  BY <1>2, FailureLossless DEF InvalidArgument, Errors
<1>3. ASSUME NEW o \in Ops, NEW u \in Units \cup {0}, Send(o, u) \/ SendFails(o, u) PROVE Lossless'
  <2>1. PICK f : f = NewRequest(o, u, TRUE)
    OBVIOUS
  <2>2. f.of = n + 1 /\ f.ok
    BY <2>1 DEF NewRequest
  <2>3. /\ msg_state_req(o, u) /\ FlushIsWhole /\ NoAnswerYet
        /\ requests' = requests \/ requests' = Append(requests, f)
    BY <1>1, <1>3, <2>1, WholeCall, Zenon
  <2> QED
    BY <2>2, <2>3, CallLossless
<1>4. CASE Timeout
  BY <1>4, FailureLossless DEF Timeout, Errors
<1>5. CASE Receive
  BY <1>5, ReceiveLossless
<1>6. CASE Serve
  BY <1>6, ServeLossless
<1>7. CASE LineFault
  BY <1>1, <1>7, LineFaultBreaks
<1>8. CASE UNCHANGED clientVars
  BY <1>8 DEF clientVars, RemoteInv, Lossless, InOrder, Behind, Pending, Intact, Replied, n
<1> QED
  BY <1>2, <1>3, <1>4, <1>5, <1>6, <1>7, <1>8 DEF ClientNext, CallStep

LEMMA StepIsRemote ==
  ASSUME RemoteInv, RemoteInv', Shaped, Shaped', [ClientNext]_clientVars
  PROVE  RemoteStep \/ UNCHANGED clientVars
<1>1. Transport = "TCP" /\ op \in Ops /\ ~broken'
  BY DEF RemoteInv, ClientInv, ClientTypeOK
<1>2. ASSUME NEW o \in Ops, InvalidArgument(o) PROVE RemoteStep
  <2>1. "INVALID_ARGUMENT" \in Errors
    BY DEF Errors
  <2> QED
    BY <1>1, <1>2, <2>1, RefusalIsNotCalled DEF InvalidArgument
<1>3. ASSUME NEW o \in Ops, NEW u \in Units \cup {0}, Send(o, u) \/ SendFails(o, u)
      PROVE  RemoteStep
  <2>1. CASE Send(o, u)
    BY <2>1, SendIsBegin
  <2>2. CASE ~Send(o, u)
    <3>1. SendFails(o, u) /\ requests' = requests
      BY <1>1, <1>3, <2>2, WholeCall, Zenon
    <3> QED
      BY <3>1, SendFailureIsNotCalled
  <2> QED
    BY <2>1, <2>2
<1>4. CASE Timeout
  <2>1. "TIMEOUT" \in Errors
    BY DEF Errors
  <2> QED
    BY <1>4, <2>1, FailureIsFail DEF Timeout
<1>5. CASE Receive
  BY <1>5, ReceiveIsReturn
<1>6. CASE Serve
  BY <1>6, ServeIsExecution DEF RemoteInv
<1>7. CASE LineFault
  BY <1>1, <1>7, LineFaultBreaks
<1> QED
  BY <1>2, <1>3, <1>4, <1>5, <1>6, <1>7 DEF ClientNext, CallStep

LEMMA InitIsRemote ==
  ASSUME Transport = "TCP", ClientInit
  PROVE  Lossless /\ ~broken /\ Remote!CallInit
<1>1. /\ broken = FALSE /\ requests = <<>> /\ replies = <<>> /\ pc = "idle" /\ op \in Ops /\ store \in [Units -> Data]
      /\ result = [err |-> "no call", data |-> NoData, of |-> 0]
  BY DEF ClientInit
<1>2. Len(requests) = 0 /\ Len(replies) = 0
  BY <1>1, EmptySeq
<1>3. Lossless
  <2>1. (\A i \in 1..Len(requests) : FALSE) /\ (\A i \in 1..Len(replies) : FALSE)
    BY <1>2
  <2> QED
    BY <1>1, <2>1, Zenon DEF Lossless, InOrder, Behind, Pending, Intact
<1>4. RemotePc = "idle"
  BY <1>1 DEF RemotePc
<1>5. RemoteAnswer = NoData /\ RemoteResult = <<"no call", NoData>>
  BY <1>1, <1>4 DEF RemoteAnswer, RemoteResult
<1>6. LateOps = <<>>
  <2>1. LateOps = [i \in 1..0 |-> requests[i].op]
    BY <1>2, <1>4 DEF LateOps
  <2>2. LateOps \in Seq({}) /\ Len(LateOps) = 0
    BY <2>1
  <2> QED
    BY <2>2, EmptySeq
<1>7. store[TheUnit] \in Data
  BY <1>1, OneUnit
<1> QED
  BY <1>1, <1>3, <1>4, <1>5, <1>6, <1>7 DEF Remote!CallInit, TheUnit

\* As long as no frame has been cut.
Unbroken == Transport = "TCP" /\ ~broken => RemoteInv /\ Shaped

LEMMA UnbrokenInit == ClientInit => Unbroken
<1> SUFFICES ASSUME ClientInit, Transport = "TCP" PROVE RemoteInv
  BY Shapes DEF Unbroken
<1> QED
  BY InitIsRemote, ClientInvInit DEF RemoteInv

LEMMA RemoteInvStep ==
  Unbroken /\ ClientInv' /\ [ClientNext]_clientVars => (Transport = "TCP" /\ ~broken => RemoteInv)'
<1> SUFFICES ASSUME Unbroken, ClientInv', [ClientNext]_clientVars, Transport = "TCP", ~broken'
             PROVE  RemoteInv'
  OBVIOUS
<1>1. ~broken
  BY BreakStays
<1> QED
  BY <1>1, StepKeepsLossless DEF Unbroken

LEMMA UnbrokenInvariance == ClientSpec => []Unbroken
<1>1. ClientInit => Unbroken
  BY UnbrokenInit
<1>2. Unbroken /\ ClientInv' /\ [ClientNext]_clientVars => (Transport = "TCP" /\ ~broken => RemoteInv)'
  BY RemoteInvStep
<1>3. (Transport = "TCP" /\ ~broken => RemoteInv) => Unbroken
  BY Shapes DEF Unbroken
<1> QED
  BY <1>1, <1>2, <1>3, ClientInvariance, PTL DEF ClientSpec

\* Over TCP a call returns with the reply to its own request, for every number of
\* transaction ids, however late earlier replies are, until a frame is cut.
THEOREM OwnReplies == ClientSpec => []OwnReply
<1>1. Unbroken => OwnReply
  <2> SUFFICES ASSUME Unbroken, Transport = "TCP", ~broken, pc = "idle", result.err = "NONE"
               PROVE  result.of = n /\ n \in executed
    BY DEF OwnReply
  <2>1. ClientInv /\ result.of # 0
    BY DEF Unbroken, RemoteInv, Lossless
  <2> QED
    BY <2>1 DEF ClientInv, OwnAnswer, Succeeded
<1> QED
  BY <1>1, UnbrokenInvariance, PTL

\* Over TCP, with any number of calls, every behaviour of the client and its server is
\* one that RemoteCall allows: a call that returns NMBS_ERROR_NONE was executed once, while
\* it was called, and returns what this execution found; a failed one at most once; until
\* a write or flush ends within a frame.
THEOREM ClientImplementsRemoteCall ==
  ASSUME Transport = "TCP"
  PROVE  ClientSpec => RemoteCallSpec
<1>1. ClientInit => Remote!CallInit
  BY InitIsRemote
<1>2. ASSUME Unbroken, Unbroken', ClientInv, ClientInv', [ClientNext]_clientVars
      PROVE  [Remote!CallNext]_Remote!callVars
  <2>1. CASE broken'
    <3>1. broken' = TRUE
      BY <1>2, <2>1 DEF ClientInv, ClientTypeOK
    <3> QED
      BY <3>1 DEF Remote!CallNext, Remote!Break
  <2>2. CASE ~broken'
    <3>1. ~broken
      BY <1>2, <2>2, BreakStays
    <3>2. RemoteStep \/ UNCHANGED clientVars
      BY <1>2, <2>2, <3>1, StepIsRemote DEF Unbroken
    <3>3. broken = FALSE /\ broken' = FALSE
      BY <1>2, <2>2, <3>1 DEF ClientInv, ClientTypeOK
    <3>4. CASE RemoteStep
      BY <3>3, <3>4 DEF RemoteStep, Remote!CallNext
    <3>5. CASE UNCHANGED clientVars
      BY <3>5, StutterIsStutter
    <3> QED
      BY <3>2, <3>4, <3>5
  <2> QED
    BY <2>1, <2>2
<1> QED
  BY <1>1, <1>2, UnbrokenInvariance, ClientInvariance, PTL DEF ClientSpec, RemoteCallSpec, Remote!CallSpec

(***************************************************************************)
(* A line without faults                                                   *)
(***************************************************************************)
NoReply(u) == Transport = "RTU" /\ u = 0

\* What the current call was answered, or will be.
Exact(of, data) == of = n /\ n \in executed /\ requests = <<>> /\ Holds(data)

\* The requests under way are broadcasts, but for the current call's, which is the last
\* one; the only reply under way is the current call's, and either of the two is until
\* the call returns.  From the reply on nothing else is under way.
Quiet ==
  /\ \A i \in 1..Len(requests) :
        /\ requests[i].ok
        /\ NoReply(requests[i].unit) \/ (pc = "sent" /\ i = Len(requests) /\ requests[i].of = n)
        /\ requests[i].of = n => i = Len(requests)
  /\ replies = <<>> \/
        /\ pc = "sent" /\ Len(replies) = 1
        /\ replies[1].ok /\ ~replies[1].exception
        /\ Exact(replies[1].of, replies[1].data)
  /\ pc = "sent" => \/ NoReply(unit) \/ replies # <<>>
                    \/ \E i \in 1..Len(requests) : requests[i].of = n
  /\ Succeeded => Exact(result.of, result.data)

QuietInv == ClientInv /\ OnlyBadCallsFail /\ (~fault => Quiet)

LEMMA FramesArePast ==
  ASSUME ClientInv
  PROVE  /\ n \in Nat /\ Len(requests) \in Nat /\ Len(replies) \in Nat
         /\ DOMAIN requests = 1..Len(requests) /\ DOMAIN replies = 1..Len(replies)
         /\ \A i \in 1..Len(requests) : requests[i] \in Requests /\ Known(requests[i])
         /\ \A i \in 1..Len(replies) : replies[i] \in Replies /\ Known(replies[i]) /\ True(replies[i])
<1>1. Rest /\ Frames
  BY InvParts
<1>2. n \in Nat
  BY <1>1, CallsCounted
<1>3. requests \in Seq(KnownRequests) /\ replies \in Seq(KnownReplies)
  BY <1>1 DEF Frames
<1>4. /\ Len(requests) \in Nat /\ Len(replies) \in Nat
      /\ DOMAIN requests = 1..Len(requests) /\ DOMAIN replies = 1..Len(replies)
  BY <1>3, LenProperties
<1>5. \A i \in 1..Len(requests) : requests[i] \in KnownRequests
  BY <1>3, ElementOfSeq
<1>6. \A i \in 1..Len(replies) : replies[i] \in KnownReplies
  BY <1>3, ElementOfSeq
<1> QED
  BY <1>2, <1>4, <1>5, <1>6, Zenon DEF KnownRequests, KnownReplies

LEMMA RestsEmpty == Rests(<<>>) = {<<>>}
<1>1. Dropped(<<>>) = {<<>>}
  <2>1. Len(<<>>) = 0
    OBVIOUS
  <2>2. \A k \in 0..0 : SubSeq(<<>>, k + 1, 0) = <<>>
    OBVIOUS
  <2>3. Dropped(<<>>) = {SubSeq(<<>>, k + 1, 0) : k \in 0..0}
    BY <2>1 DEF Dropped
  <2>4. 0 \in 0..0
    OBVIOUS
  <2> QED
    BY <2>2, <2>3, <2>4, Zenon
<1>2. Dropped(<<>>) \ {<<>>} = {}
  BY <1>1
<1>3. {<<Cut(Head(s))>> \o Tail(s) : s \in Dropped(<<>>) \ {<<>>}} = {}
  BY <1>2, Zenon
<1> QED
  BY <1>1, <1>3, Zenon DEF Rests

LEMMA SendIsQuiet ==
  ASSUME QuietInv, ~fault, NEW o \in Ops, NEW u \in Units \cup {0}, Send(o, u)
  PROVE  Quiet' /\ OnlyBadCallsFail'
<1> DEFINE f == NewRequest(o, u, TRUE)
<1>1. /\ pc = "idle" /\ op' = o /\ unit' = u /\ replies' \in Rests(replies)
      /\ calls' = Append(calls, [op |-> o, unit |-> u])
      /\ requests' = Append(requests, f)
  BY DEF Send, msg_state_req
<1>2. ClientInv /\ Quiet
  BY DEF QuietInv
<1>3. /\ n \in Nat /\ Len(requests) \in Nat
      /\ \A i \in 1..Len(requests) : requests[i].of \in 1..n
  BY <1>2, FramesArePast DEF Known
<1>4. n' = n + 1
  <2>1. calls \in Seq([op : Ops, unit : Units \cup {0}])
    BY <1>2, InvParts DEF Rest
  <2> QED
    BY <1>1, <2>1, AppendProperties DEF n
<1>5. replies' = <<>>
  <2>1. replies = <<>>
    BY <1>1, <1>2 DEF Quiet
  <2> QED
    BY <1>1, <2>1, RestsEmpty
<1>6. requests \in Seq(Requests)
  BY <1>2 DEF ClientInv, ClientTypeOK
<1>7. f.of = n + 1 /\ f.ok /\ f.unit = u
  BY DEF NewRequest
<1> HIDE DEF f
<1>8. /\ Len(requests') = Len(requests) + 1 /\ requests'[Len(requests) + 1] = f
      /\ \A i \in 1..Len(requests) : requests'[i] = requests[i]
  <2>1. requests \in Seq(Requests \cup {f})
    BY <1>6, SeqMonotonic
  <2> QED
    BY <1>1, <2>1, AppendProperties
<1>9. \/ pc' = "sent"
      \/ NoReply(u) /\ pc' = "idle" /\ result'.err = "NONE" /\ result'.of = 0
  BY DEF Send, AwaitsReply, NoReply, Ends
<1>10. \A i \in 1..Len(requests) : requests[i].ok /\ NoReply(requests[i].unit)
  BY <1>1, <1>2 DEF Quiet
<1>11. ASSUME NEW i \in 1..Len(requests')
       PROVE  /\ requests'[i].ok
              /\ NoReply(requests'[i].unit) \/ (pc' = "sent" /\ i = Len(requests') /\ requests'[i].of = n')
              /\ requests'[i].of = n' => i = Len(requests')
  <2>1. CASE i \in 1..Len(requests)
    <3>1. requests'[i] = requests[i]
      BY <1>8, <2>1
    <3>2. requests[i].of # n'
      BY <1>3, <1>4, <2>1
    <3> QED
      BY <1>10, <2>1, <3>1, <3>2
  <2>2. CASE i = Len(requests) + 1
    <3>1. requests'[i] = f /\ i = Len(requests')
      BY <1>8, <2>2
    <3> QED
      BY <1>4, <1>7, <1>9, <3>1
  <2> QED
    BY <1>3, <1>8, <2>1, <2>2
<1>12. pc' = "sent" => \E i \in 1..Len(requests') : requests'[i].of = n'
  <2>1. Len(requests) + 1 \in 1..Len(requests')
    BY <1>3, <1>8
  <2> QED
    BY <1>4, <1>7, <1>8, <2>1
<1>13. Quiet'
  <2>1. ~Succeeded'
    BY <1>9 DEF Succeeded
  <2> QED
    BY <1>5, <1>11, <1>12, <2>1 DEF Quiet, NoReply
<1>14. OnlyBadCallsFail'
  <2>1. pc' = "idle" => result'.err = "NONE"
    BY <1>9
  <2> QED
    BY <2>1 DEF OnlyBadCallsFail
<1> QED
  BY <1>13, <1>14

LEMMA TimeoutIsQuiet ==
  ASSUME QuietInv, Timeout, ~fault'
  PROVE  Quiet' /\ OnlyBadCallsFail'
<1>1. /\ pc = "sent" /\ pc' = "idle" /\ result'.err = "TIMEOUT" /\ ~fault /\ ~Underway
      /\ UNCHANGED <<unit, requests, replies, calls>>
  BY DEF Timeout, Fails, Ends
<1>2. ClientInv /\ Quiet
  BY <1>1 DEF QuietInv
<1>3. DOMAIN requests = 1..Len(requests) /\ DOMAIN replies = 1..Len(replies)
  BY <1>2, FramesArePast
<1>4. \A i \in 1..Len(requests) : requests[i].of # n
  BY <1>1, <1>2, <1>3 DEF Underway, Quiet
<1>5. \A i \in 1..Len(replies) : ~(replies[i].of = n /\ replies[i].ok)
  BY <1>1, <1>3 DEF Underway
<1>6. replies = <<>>
  <2> SUFFICES ASSUME replies # <<>> PROVE FALSE
    OBVIOUS
  <2>1. Len(replies) = 1 /\ replies[1].of = n /\ replies[1].ok
    BY <1>2 DEF Quiet, Exact
  <2> QED
    BY <1>5, <2>1
<1>7. NoReply(unit)
  BY <1>1, <1>2, <1>4, <1>6 DEF Quiet
<1>8. n' = n
  BY <1>1 DEF n
<1>9. Quiet'
  BY <1>1, <1>2, <1>4, <1>6, <1>8 DEF Quiet, NoReply, Succeeded
<1> QED
  BY <1>1, <1>7, <1>9 DEF OnlyBadCallsFail, NoReply

LEMMA ReceiveIsQuiet ==
  ASSUME QuietInv, Receive, ~fault'
  PROVE  Quiet' /\ OnlyBadCallsFail'
<1> DEFINE r == Head(replies)
<1>1. /\ pc = "sent" /\ replies # <<>> /\ ~fault
      /\ UNCHANGED <<op, unit, tid, requests, store, calls, executed>>
      /\ ReceiveGarbage(r) \/ ReceiveForeign(r) \/ ReceiveException(r) \/ ReceiveAnswer(r)
  BY DEF Receive
<1>2. ClientInv /\ Quiet
  BY <1>1 DEF QuietInv
<1>3. /\ Len(replies) = 1 /\ replies[1].of = n /\ replies[1].ok /\ ~replies[1].exception
      /\ Exact(replies[1].of, replies[1].data)
  BY <1>1, <1>2 DEF Quiet, Exact
<1>4. replies \in Seq(Replies)
  BY <1>2 DEF ClientInv, ClientTypeOK
<1>5. r = replies[1] /\ Tail(replies) = <<>>
  <2>1. r = replies[1]
    OBVIOUS
  <2>2. Tail(replies) \in Seq(Replies) /\ Len(Tail(replies)) = 0
    BY <1>1, <1>3, <1>4, HeadTailProperties
  <2> QED
    BY <2>1, <2>2, EmptySeq
<1>6. r.of = n /\ r.ok /\ ~r.exception /\ Known(r) /\ True(r)
  <2>1. 1 \in 1..Len(replies)
    BY <1>3
  <2> QED
    BY <1>2, <1>3, <1>5, <2>1, FramesArePast
<1> HIDE DEF r
<1>7. n \in Nat /\ n > 0
  BY <1>1, <1>2, FramesArePast DEF ClientInv
<1>8. r.op = op /\ r.unit = unit /\ Request(op).valid /\ op \in Calls /\ tid \in 1..TidMax
  <2>1. calls[n] = [op |-> r.op, unit |-> r.unit] /\ Request(r.op).valid
    BY <1>6, Zenon DEF Known
  <2>2. calls[n] = [op |-> op, unit |-> unit] /\ op \in Ops /\ tid \in 1..TidMax
    BY <1>2, <1>7 DEF ClientInv, ClientTypeOK, Numbered
  <2> QED
    BY <2>1, <2>2, Constants
<1>9. HeaderError(r) = "NONE"
  <2>1. Transport = "TCP" => r.tid = tid
    <3> SUFFICES ASSUME Transport = "TCP" PROVE r.tid = tid
      OBVIOUS
    <3>1. r.tid = Back(tid, n - n)
      BY <1>6, Zenon DEF Known
    <3> QED
      BY <1>7, <1>8, <3>1, Constants DEF Back
  <2> QED
    BY <1>8, <2>1 DEF HeaderError
<1>10. Accepts(op, r.op, r.count)
  BY <1>6, <1>8, ValidIsServed DEF True, Served
<1>11. /\ pc' = "idle" /\ result'.err = "NONE" /\ replies' = <<>>
       /\ result'.of = r.of /\ result'.data = r.data
  <2>1. ReceiveAnswer(r)
    BY <1>1, <1>6, <1>9 DEF ReceiveGarbage, ReceiveForeign, ReceiveException
  <2>2. Ends("NONE", r.data, r.of) /\ replies' = Tail(replies)
    BY <1>10, <2>1 DEF ReceiveAnswer
  <2>3. result' = [err |-> "NONE", data |-> r.data, of |-> r.of] /\ pc' = "idle"
    BY <2>2 DEF Ends
  <2> QED
    BY <1>5, <2>2, <2>3
<1>12. n' = n
  BY <1>1 DEF n
<1>13. Quiet'
  <2>1. Exact(r.of, r.data)
    BY <1>3, <1>5
  <2>2. Exact(result.of, result.data)'
    BY <1>1, <1>11, <1>12, <2>1 DEF Exact, Holds
  <2>3. requests' = <<>>
    BY <1>1, <2>1 DEF Exact
  <2>4. 1..Len(requests') = {}
    BY <2>3, EmptySeq
  <2> QED
    BY <1>11, <2>2, <2>4 DEF Quiet
<1> QED
  BY <1>11, <1>13 DEF OnlyBadCallsFail

\* Nothing but the answer to the current call, or to none, is sent.
LEMMA ServeAnswersOnce ==
  ASSUME QuietInv, Serve, ~fault', NEW q, q = Head(requests)
  PROVE  /\ requests # <<>> /\ requests' = Tail(requests) /\ ~fault
         /\ UNCHANGED <<pc, op, unit, tid, result, calls>>
         /\ q = requests[1] /\ 1 \in 1..Len(requests)
         /\ \/ NoReply(q.unit) /\ replies' = replies
            \/ /\ ~NoReply(q.unit)
               /\ executed' = executed \cup {q.of}
               /\ \E r, u : /\ replies' = Append(replies, r) /\ r.of = q.of
                           /\ r.ok /\ ~r.exception /\ u \in Addressed(q)
                           /\ r.data = Answer(q.op, store[u])
               /\ store' = [u \in Units |-> IF u \in Addressed(q)
                                           THEN Effect(q.op, store[u]) ELSE store[u]]
<1> DEFINE h == handle_req_fc(q.op, Request(q.op).count)
<1>0. /\ requests # <<>>
      /\ UNCHANGED <<pc, op, unit, tid, result, calls>>
      /\ \/ ServeGarbage(q, h)
         \/ requests' = Tail(requests) /\ (ServeException(q, h) \/ ServeRequest(q, h))
  BY DEF Serve
<1>2. ~fault
  BY <1>0 DEF ServeGarbage, ServeException, ServeRequest
<1>3. ClientInv /\ Quiet
  BY <1>2 DEF QuietInv
<1>4. requests \in Seq(Requests)
  BY <1>3 DEF ClientInv, ClientTypeOK
<1>5. q = requests[1] /\ 1 \in 1..Len(requests)
  BY <1>0, <1>4, EmptySeq
<1>6. q \in Requests /\ Known(q)
  BY <1>3, <1>5, FramesArePast
<1>7. q.op \in Calls /\ Request(q.op).valid
  BY <1>6, Constants DEF Known, Requests
<1>8. h.taken /\ h.valid
  BY <1>7, ValidIsServed DEF Served
<1>9. q.ok
  BY <1>3, <1>5 DEF Quiet
<1> HIDE DEF h
<1>1. /\ requests # <<>> /\ requests' = Tail(requests)
      /\ UNCHANGED <<pc, op, unit, tid, result, calls>>
      /\ ServeException(q, h) \/ ServeRequest(q, h)
  BY <1>0, <1>8, <1>9 DEF ServeGarbage
<1>10. ServeRequest(q, h)
  BY <1>1, <1>2, <1>8 DEF ServeException
<1>11. Broadcast(q) <=> NoReply(q.unit)
  BY DEF Broadcast, NoReply
<1>12. CASE Broadcast(q)
  BY <1>1, <1>2, <1>5, <1>10, <1>11, <1>12 DEF ServeRequest
<1>13. CASE ~Broadcast(q)
  <2>1. PICK u \in Addressed(q) :
             replies' = Append(replies, Reply(q, h, FALSE, Answer(q.op, store[u])))
    BY <1>10, <1>13 DEF ServeRequest
  <2>2. PICK r : r = Reply(q, h, FALSE, Answer(q.op, store[u]))
    OBVIOUS
  <2>3. r.of = q.of /\ r.ok /\ ~r.exception /\ r.data = Answer(q.op, store[u])
    BY <2>2 DEF Reply
  <2>4. replies' = Append(replies, r)
    BY <2>1, <2>2
  <2>5. /\ executed' = executed \cup {q.of}
        /\ store' = [v \in Units |-> IF v \in Addressed(q)
                                    THEN Effect(q.op, store[v]) ELSE store[v]]
    BY <1>10 DEF ServeRequest
  <2> QED
    BY <1>1, <1>2, <1>5, <1>11, <1>13, <2>1, <2>3, <2>4, <2>5
<1> QED
  BY <1>12, <1>13

\* The request of the current call says what the call is.
LEMMA CurrentFrame ==
  ASSUME ClientInv, pc = "sent", NEW j \in 1..Len(requests), requests[j].of = n
  PROVE  requests[j].op = op /\ requests[j].unit = unit
<1>1. n > 0 /\ calls[n] = [op |-> op, unit |-> unit]
  BY DEF ClientInv, Numbered
<1>2. calls[n] = [op |-> requests[j].op, unit |-> requests[j].unit]
  BY FramesArePast DEF Known
<1> QED
  BY <1>1, <1>2

\* The unit that answers holds what it answers.
LEMMA ServedIsHeld ==
  ASSUME Rest, NEW q, q.op = op, q.unit = unit, ~NoReply(unit),
         NEW v \in Addressed(q), NEW r, r.data = Answer(op, store[v]),
         store' = [u \in Units |-> IF u \in Addressed(q) THEN Effect(op, store[u]) ELSE store[u]],
         UNCHANGED <<op, unit>>
  PROVE  \A u \in Units : Transport = "TCP" \/ u = unit =>
            /\ op.fc \in Readers => r.data = store'[u]
            /\ op.fc \in Writers => store'[u] = op.data
<1> SUFFICES ASSUME NEW u \in Units, Transport = "TCP" \/ u = unit
             PROVE  /\ op.fc \in Readers => r.data = store'[u]
                    /\ op.fc \in Writers => store'[u] = op.data
  OBVIOUS
<1>1. u = v /\ u \in Addressed(q)
  <2>1. CASE Transport = "TCP"
    <3>1. Addressed(q) = Units /\ \E x \in Units : Units = {x}
      BY <2>1, ClientAssumption DEF Addressed
    <3> QED
      BY <3>1
  <2>2. CASE Transport # "TCP"
    <3>1. Transport = "RTU" /\ unit # 0
      BY <2>2, Constants DEF NoReply, Transports
    <3>2. Addressed(q) = {unit}
      BY <2>2, <3>1 DEF Addressed
    <3> QED
      BY <2>2, <3>2
  <2> QED
    BY <2>1, <2>2
<1>2. store'[u] = Effect(op, store[u])
  BY <1>1
<1> QED
  BY <1>1, <1>2 DEF Answer, Effect

LEMMA ServeIsQuiet ==
  ASSUME QuietInv, Serve, ~fault'
  PROVE  Quiet' /\ OnlyBadCallsFail'
<1>1. PICK q : q = Head(requests)
  OBVIOUS
<1>2. /\ requests # <<>> /\ requests' = Tail(requests) /\ ~fault
      /\ UNCHANGED <<pc, op, unit, tid, result, calls>>
      /\ q = requests[1] /\ 1 \in 1..Len(requests)
  BY <1>1, ServeAnswersOnce
<1>3. ClientInv /\ Quiet
  BY <1>2 DEF QuietInv
<1>4. requests \in Seq(Requests) /\ Len(requests) \in Nat /\ n' = n
  BY <1>2, <1>3, FramesArePast DEF ClientInv, ClientTypeOK, n
<1>5. /\ Len(requests') = Len(requests) - 1 /\ requests' \in Seq(Requests)
      /\ \A i \in 1..Len(requests') : requests'[i] = requests[i + 1]
  BY <1>2, <1>4, HeadTailProperties
<1>6. ASSUME NEW i \in 1..Len(requests')
      PROVE  /\ requests'[i].ok
             /\ NoReply(requests'[i].unit) \/ (pc' = "sent" /\ i = Len(requests') /\ requests'[i].of = n')
             /\ requests'[i].of = n' => i = Len(requests')
  <2>1. PICK j \in 1..Len(requests) : j = i + 1
    BY <1>4, <1>5
  <2>2. requests'[i] = requests[j] /\ (j = Len(requests) <=> i = Len(requests'))
    BY <1>4, <1>5, <2>1
  <2> QED
    BY <1>2, <1>3, <1>4, <2>2 DEF Quiet
<1>7. OnlyBadCallsFail'
  BY <1>2 DEF QuietInv, OnlyBadCallsFail
<1>8. replies = <<>> /\ ~Succeeded'
  BY <1>2, <1>3 DEF Quiet, Exact, Succeeded
<1>9. CASE NoReply(q.unit)
  <2>1. replies' = replies
    BY <1>1, <1>9, ServeAnswersOnce
  <2>2. ASSUME pc = "sent", ~NoReply(unit)
        PROVE  \E i \in 1..Len(requests') : requests'[i].of = n'
    <3>1. PICK j \in 1..Len(requests) : requests[j].of = n
      BY <1>3, <1>8, <2>2 DEF Quiet
    <3>2. requests[j].unit = unit
      BY <1>3, <2>2, <3>1, CurrentFrame
    <3>3. j # 1
      BY <1>2, <1>9, <2>2, <3>2
    <3>4. j - 1 \in 1..Len(requests') /\ requests'[j - 1] = requests[j]
      <4>1. j - 1 \in 1..Len(requests') /\ (j - 1) + 1 = j
        BY <1>4, <1>5, <3>3
      <4> QED
        BY <1>5, <4>1
    <3> QED
      BY <1>4, <3>1, <3>4
  <2>3. Quiet'
    BY <1>2, <1>6, <1>8, <2>1, <2>2 DEF Quiet, NoReply
  <2> QED
    BY <1>7, <2>3
<1>10. CASE ~NoReply(q.unit)
  <2>1. PICK r, v : /\ replies' = Append(replies, r) /\ r.of = q.of
                    /\ r.ok /\ ~r.exception /\ v \in Addressed(q)
                    /\ r.data = Answer(q.op, store[v])
    BY <1>1, <1>10, ServeAnswersOnce
  <2>2. /\ executed' = executed \cup {q.of}
        /\ store' = [u \in Units |-> IF u \in Addressed(q)
                                    THEN Effect(q.op, store[u]) ELSE store[u]]
    BY <1>1, <1>10, ServeAnswersOnce
  <2>3. pc = "sent" /\ Len(requests) = 1 /\ q.of = n
    BY <1>2, <1>3, <1>10 DEF Quiet
  <2>4. q.op = op /\ q.unit = unit
    BY <1>2, <1>3, <2>3, CurrentFrame
  <2>5. Len(replies') = 1 /\ replies'[1] = r /\ replies' # <<>>
    BY <1>8, <2>1
  <2>6. 1..Len(requests') = {} /\ requests' = <<>>
    BY <1>5, <2>3, EmptySeq
  <2>7. Rest
    BY <1>3, InvParts
  <2>8. \A u \in Units : Transport = "TCP" \/ u = unit =>
            /\ op.fc \in Readers => r.data = store'[u]
            /\ op.fc \in Writers => store'[u] = op.data
    BY <1>2, <1>10, <2>1, <2>2, <2>4, <2>7, ServedIsHeld
  <2>9. Exact(replies[1].of, replies[1].data)'
    BY <1>2, <1>4, <2>1, <2>2, <2>3, <2>5, <2>6, <2>8 DEF Exact, Holds
  <2>10. Quiet'
    BY <1>2, <1>8, <2>1, <2>3, <2>5, <2>6, <2>9 DEF Quiet
  <2> QED
    BY <1>7, <2>10
<1> QED
  BY <1>9, <1>10

LEMMA QuietStep ==
  ASSUME QuietInv, [ClientNext]_clientVars
  PROVE  OnlyBadCallsFail' /\ (~fault' => Quiet')
<1> SUFFICES ASSUME ~fault' PROVE OnlyBadCallsFail' /\ Quiet'
  BY DEF OnlyBadCallsFail
<1>1. ASSUME NEW o \in Ops, InvalidArgument(o) PROVE OnlyBadCallsFail' /\ Quiet'
  <2>1. /\ pc = "idle" /\ pc' = "idle" /\ result'.err = "INVALID_ARGUMENT"
        /\ UNCHANGED <<op, unit, tid, requests, replies, store, calls, executed, fault>>
    BY <1>1 DEF InvalidArgument, Fails, Ends
  <2>2. Quiet
    BY <2>1 DEF QuietInv
  <2>3. n' = n
    BY <2>1 DEF n
  <2> QED
    BY <2>1, <2>2, <2>3 DEF OnlyBadCallsFail, Quiet, NoReply, Exact, Holds, Succeeded
<1>2. ASSUME NEW o \in Ops, NEW u \in Units \cup {0}, Send(o, u) PROVE OnlyBadCallsFail' /\ Quiet'
  <2>1. ~fault
    BY <1>2 DEF Send
  <2> QED
    BY <1>2, <2>1, SendIsQuiet
<1>3. ASSUME NEW o \in Ops, NEW u \in Units \cup {0}, SendFails(o, u) PROVE FALSE
  BY <1>3 DEF SendFails
<1>4. CASE Timeout
  BY <1>4, TimeoutIsQuiet
<1>5. CASE Receive
  BY <1>5, ReceiveIsQuiet
<1>6. CASE Serve
  BY <1>6, ServeIsQuiet
<1>7. CASE LineFault
  BY <1>7 DEF LineFault
<1>8. CASE UNCHANGED clientVars
  <2>1. UNCHANGED <<pc, op, unit, tid, requests, replies, store, result, calls, executed, fault>>
    BY <1>8 DEF clientVars
  <2>2. n' = n
    BY <2>1 DEF n
  <2>3. Quiet /\ OnlyBadCallsFail
    BY <2>1 DEF QuietInv
  <2> QED
    BY <2>1, <2>2, <2>3 DEF OnlyBadCallsFail, Quiet, NoReply, Exact, Holds, Succeeded
<1> QED
  BY <1>1, <1>2, <1>3, <1>4, <1>5, <1>6, <1>7, <1>8 DEF ClientNext, CallStep

\* The invariant of a line without faults.
THEOREM QuietInvariance == ClientSpec => []QuietInv
<1>1. ClientInit => OnlyBadCallsFail /\ (~fault => Quiet)
  <2> SUFFICES ASSUME ClientInit PROVE OnlyBadCallsFail /\ Quiet
    OBVIOUS
  <2>1. pc = "idle" /\ requests = <<>> /\ replies = <<>> /\ result.err = "no call"
    BY DEF ClientInit
  <2>2. Len(requests) = 0
    BY <2>1, EmptySeq
  <2>3. \A i \in 1..Len(requests) : FALSE
    BY <2>2
  <2> QED
    BY <2>1, <2>3 DEF OnlyBadCallsFail, Quiet, Succeeded
<1>2. ClientInv /\ OnlyBadCallsFail /\ (~fault => Quiet) <=> QuietInv
  BY DEF QuietInv
<1>3. QuietInv /\ [ClientNext]_clientVars => OnlyBadCallsFail' /\ (~fault => Quiet)'
  BY QuietStep
<1> QED
  BY <1>1, <1>2, <1>3, ClientInvariance, PTL DEF ClientSpec

\* The answer of a call is its own and still true when the call returns: nothing that
\* was sent before it is left to change it.
THEOREM AnswersAreCurrent == ClientSpec => []AnswerIsCurrent
<1>1. QuietInv => AnswerIsCurrent
  BY DEF QuietInv, Quiet, Exact, AnswerIsCurrent
<1> QED
  BY <1>1, QuietInvariance, PTL

\* Without losses, damage, failing callbacks and premature time-outs a call fails for
\* its arguments only, or as a read that was broadcast, and the answer of any other is
\* its own, over both transports.
THEOREM FailuresHaveCause == ClientSpec => []WithoutFault
<1>1. QuietInv /\ AnswerIsCurrent => WithoutFault
  BY DEF QuietInv, WithoutFault
<1> QED
  BY <1>1, QuietInvariance, AnswersAreCurrent, PTL
=============================================================================
