-------------------------------- MODULE Pdu --------------------------------
(***************************************************************************)
(* The data parts of nanoMODBUS' messages, for every function code with a  *)
(* request of one part: what a client function checks and puts into the    *)
(* message buffer, what the server's handler takes out, checks and puts    *)
(* in for the reply, and what the client accepts of the reply.             *)
(*                                                                         *)
(* The three places compare the same arguments with limits of their own    *)
(* and count the same bytes in variables of 8 bits.  Here a message is its *)
(* arguments and its numbers of bytes; the values it carries are one       *)
(* datum.  Contents and framing are in NmbsClient.                         *)
(***************************************************************************)
EXTENDS Integers

CONSTANT Data    \* what registers, coils and records may hold
ASSUME DataAssumption == Data # {}

U8  == 0..255
U16 == 0..65535

(***************************************************************************)
(* The calls of the client's interface with their arguments.  The data of  *)
(* FC 5 is the coil as it is encoded, 0 or 0xFF00.                         *)
(***************************************************************************)
Reads      == [fc : 1..4, address : U16, quantity : U16]
Coils      == [fc : {5}, address : U16, data : Data \cap {0, 65280}]
Registers  == [fc : {6}, address : U16, data : Data]
Multiples  == [fc : {15, 16}, address : U16, quantity : U16, data : Data]
FileReads  == [fc : {20}, file : U16, record : U16, count : U16]
FileWrites == [fc : {21}, file : U16, record : U16, count : U16, data : Data]
ReadWrites == [fc : {23}, address : U16, quantity : U16,
               waddress : U16, wquantity : U16, data : Data]
Calls == Reads \cup Coils \cup Registers \cup Multiples \cup FileReads \cup FileWrites \cup ReadWrites

Readers == 1..4 \cup {20, 23}
Writers == {5, 6, 15, 16, 21, 23}

InRange(address, quantity) == address + quantity <= 65536
CoilBytes(quantity) == ((quantity + 7) \div 8) % 256
RegisterBytes(quantity) == (quantity * 2) % 256
QuantityAllowed(c, limit) == c.quantity \in 1..limit /\ InRange(c.address, c.quantity)
RecordAllowed(c, limit) == c.file # 0 /\ c.record <= 9999 /\ c.count <= limit
ReadWriteAllowed(c, limit) ==
  /\ QuantityAllowed(c, 125)
  /\ c.wquantity \in 1..limit /\ InRange(c.waddress, c.wquantity)

(***************************************************************************)
(* Client: whether the arguments are valid, the length announced to        *)
(* put_req_header, the bytes put behind the header, and the byte count     *)
(* among them.                                                             *)
(***************************************************************************)
Asked(valid, announced, put, count) ==
  [valid |-> valid, announced |-> announced, put |-> put, count |-> count]

read_discrete(c) ==
  Asked(QuantityAllowed(c, 2000), 4, 4, 0)

read_registers(c) ==
  Asked(QuantityAllowed(c, 125), 4, 4, 0)

nmbs_write_single_coil(c) == Asked(TRUE, 4, 4, 0)
nmbs_write_single_register(c) == Asked(TRUE, 4, 4, 0)

nmbs_write_multiple_coils(c) ==
  LET bytes == CoilBytes(c.quantity)
  IN  Asked(QuantityAllowed(c, 1968), 5 + bytes, 5 + bytes, bytes)

nmbs_write_multiple_registers(c) ==
  LET bytes == RegisterBytes(c.quantity)
  IN  Asked(QuantityAllowed(c, 123), 5 + bytes, 5 + 2 * c.quantity, bytes)

nmbs_read_file_record(c) == Asked(RecordAllowed(c, 124), 8, 8, 7)

nmbs_write_file_recordLikeRead(c) ==
  Asked(RecordAllowed(c, 124), 8 + 2 * c.count, 8 + 2 * c.count, (7 + 2 * c.count) % 256)
nmbs_write_file_record(c) ==
  Asked(RecordAllowed(c, 122), 8 + 2 * c.count, 8 + 2 * c.count, (7 + 2 * c.count) % 256)

nmbs_read_write_registers(c) ==
  LET bytes == RegisterBytes(c.wquantity)
  IN  Asked(ReadWriteAllowed(c, 121), 9 + bytes, 9 + 2 * c.wquantity, bytes)

Request(c) ==
  CASE c.fc \in {1, 2} -> read_discrete(c)
    [] c.fc \in {3, 4} -> read_registers(c)
    [] c.fc = 5 -> nmbs_write_single_coil(c)
    [] c.fc = 6 -> nmbs_write_single_register(c)
    [] c.fc = 15 -> nmbs_write_multiple_coils(c)
    [] c.fc = 16 -> nmbs_write_multiple_registers(c)
    [] c.fc = 20 -> nmbs_read_file_record(c)
    [] c.fc = 21 -> nmbs_write_file_record(c)
    [] c.fc = 23 -> nmbs_read_write_registers(c)

(***************************************************************************)
(* Server: the handler of a request with byte count n: whether it takes n  *)
(* (else it gives up without an answer), the bytes it received behind the  *)
(* header, whether the contents are valid (else it answers an exception),  *)
(* the length announced for the reply, the bytes put into it and its byte  *)
(* count.  A request for a file record has one sub-request.                *)
(***************************************************************************)
Handled(taken, received, valid, announced, put, count) ==
  [taken |-> taken, received |-> received, valid |-> valid,
   announced |-> announced, put |-> put, count |-> count]

Takes(n, limit) == n <= limit
CoilValueOK(c) == c.data \in {0, 65280}
CoilsOK(c, n) == QuantityAllowed(c, 1968) /\ n # 0 /\ (c.quantity + 7) \div 8 = n
RegistersOK(c, n) == QuantityAllowed(c, 123) /\ n # 0 /\ n = c.quantity * 2
FileReadOK(c, n) == n = 7 /\ RecordAllowed(c, 124)
FileWriteOK(c, n) == n >= 7 /\ RecordAllowed(c, 122) /\ n = 7 + 2 * c.count
ReadWriteOK(c, n) == ReadWriteAllowed(c, 123) /\ n = c.wquantity * 2

handle_read_discrete(c) ==
  LET bytes == CoilBytes(c.quantity)
  IN  Handled(TRUE, 4, QuantityAllowed(c, 2000), 1 + bytes, 1 + bytes, bytes)

handle_read_registers(c) ==
  LET bytes == RegisterBytes(c.quantity)
  IN  Handled(TRUE, 4, QuantityAllowed(c, 125), 1 + bytes, 1 + 2 * c.quantity, bytes)

handle_write_single_coil(c) == Handled(TRUE, 4, CoilValueOK(c), 4, 4, 0)
handle_write_single_register(c) == Handled(TRUE, 4, TRUE, 4, 4, 0)

handle_write_multiple_coils(c, n) == Handled(Takes(n, 246), 5 + n, CoilsOK(c, n), 4, 4, 0)

\* This handler has received the n bytes before it compares n with the limit.
handle_write_multiple_registers(c, n) == Handled(Takes(n, 246), 5 + n, RegistersOK(c, n), 4, 4, 0)

handle_read_file_record(c, n) ==
  LET bytes == (2 + 2 * c.count) % 256
  IN  Handled(Takes(n, 245), 1 + n, FileReadOK(c, n), 1 + bytes, 1 + 2 + 2 * c.count, bytes)

\* The reply is the request, header included: its length is the request's.
handle_write_file_record(c, n) == Handled(Takes(n, 251), 1 + n, FileWriteOK(c, n), 1 + n, 1 + n, n)

handle_read_write_registers(c, n) ==
  LET bytes == RegisterBytes(c.quantity)
  IN  Handled(Takes(n, 242), 9 + n, ReadWriteOK(c, n), 1 + bytes, 1 + 2 * c.quantity, bytes)

handle_req_fc(c, n) ==
  CASE c.fc \in {1, 2} -> handle_read_discrete(c)
    [] c.fc \in {3, 4} -> handle_read_registers(c)
    [] c.fc = 5 -> handle_write_single_coil(c)
    [] c.fc = 6 -> handle_write_single_register(c)
    [] c.fc = 15 -> handle_write_multiple_coils(c, n)
    [] c.fc = 16 -> handle_write_multiple_registers(c, n)
    [] c.fc = 20 -> handle_read_file_record(c, n)
    [] c.fc = 21 -> handle_write_file_record(c, n)
    [] c.fc = 23 -> handle_read_write_registers(c, n)

(***************************************************************************)
(* Client: whether it accepts a reply with byte count n, to the request a  *)
(* and with data d, as the one to its call c of the same function code.    *)
(* recv_read_discrete_res does not compare n with what was asked for.      *)
(***************************************************************************)
recv_read_discrete_res(c, n) == n <= 250
recv_read_registers_resBelow(c, n) == n < 250 /\ n = c.quantity * 2
recv_read_registers_res(c, n) == n <= 250 /\ n = c.quantity * 2
recv_write_single_coil_res(c, a) == a.address = c.address /\ a.data = c.data
recv_write_single_register_res(c, a) == a.address = c.address /\ a.data = c.data
recv_write_multiple_coils_res(c, a) == a.address = c.address /\ a.quantity = c.quantity
recv_write_multiple_registers_res(c, a) == a.address = c.address /\ a.quantity = c.quantity
recv_read_file_record_res(c, n) == n <= 250 /\ c.count = (n - 2) \div 2
recv_write_file_record_res(c, a, n) ==
  /\ n <= 251
  /\ a.file = c.file /\ a.record = c.record /\ a.count = c.count /\ a.data = c.data

Accepts(c, a, n) ==
  CASE c.fc \in {1, 2} -> recv_read_discrete_res(c, n)
    [] c.fc \in {3, 4, 23} -> recv_read_registers_res(c, n)
    [] c.fc = 5 -> recv_write_single_coil_res(c, a)
    [] c.fc = 6 -> recv_write_single_register_res(c, a)
    [] c.fc = 15 -> recv_write_multiple_coils_res(c, a)
    [] c.fc = 16 -> recv_write_multiple_registers_res(c, a)
    [] c.fc = 20 -> recv_read_file_record_res(c, n)
    [] c.fc = 21 -> recv_write_file_record_res(c, a, n)

(***************************************************************************)
(* Bytes around the data: unit and function code on RTU, the MBAP header   *)
(* on TCP; the CRC.  Every message lies in msg.buf.                        *)
(***************************************************************************)
Transports == {"RTU", "TCP"}
HeaderBytes(t) == IF t = "RTU" THEN 2 ELSE 8
FooterBytes(t) == IF t = "RTU" THEN 2 ELSE 0
BufferBytes == 260
FitsBuffer(t, bytes) == HeaderBytes(t) + bytes + FooterBytes(t) <= BufferBytes
\* The MBAP length recv_msg_header believes: it counts unit and function code.
LengthAllowed(announced) == announced + 2 \in 2..255

(***************************************************************************)
(* Properties                                                              *)
(***************************************************************************)
Fits(bytes) == \A t \in Transports : FitsBuffer(t, bytes)

AskedWhole(q, h) ==
  /\ q.announced = q.put /\ LengthAllowed(q.announced)
  /\ h.received = q.put /\ Fits(q.put)

AnsweredWhole(h) ==
  /\ h.announced = h.put /\ LengthAllowed(h.announced) /\ Fits(h.put)
  /\ h.count \in Nat

\* What the client's checks let through passes the server's, the reply passes the
\* client's, and all numbers of bytes agree and fit the buffer: the three places
\* that compare one argument (nanomodbus.c:2187, 1478 and 769) have limits that agree.
Served(c) ==
  LET h == handle_req_fc(c, Request(c).count)
  IN  /\ h.taken /\ h.valid
      /\ AskedWhole(Request(c), h) /\ AnsweredWhole(h)
      /\ Accepts(c, c, h.count)
=============================================================================
