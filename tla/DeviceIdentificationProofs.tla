--------------------- MODULE DeviceIdentificationProofs ---------------------
(***************************************************************************)
(* Theorems about DeviceIdentification, for every numbering of the objects *)
(* and every room and lengths that keep the assumption.                    *)
(*                                                                         *)
(* The first invariant says, at every point of a call, which objects have   *)
(* been received (got: those below next) and which are in the page (those   *)
(* from next on and below id).                                              *)
(*                                                                         *)
(* The second is about the caller's arrays: what was received is in them    *)
(* as long as nothing was stored outside, and that needs a reason.          *)
(*                                                                         *)
(* The third is about the calls that fail, and why: what a page can look    *)
(* like as long as no callback failed and no message was lost.              *)
(***************************************************************************)
EXTENDS DeviceIdentification, SequenceTheorems, FiniteSetTheorems, TLAPS

Listed(s, S) == s \in Seq(Ids) /\ Ascending(s) /\ Elements(s) = S

Below(W, k) == {i \in W : i < k}
From(W, j, k) == {i \in W : j <= i /\ i < k}

Shaped ==
  /\ call.kind = "basic" => call.start = 0
  /\ call.kind = "regular" => call.start = BasicLast + 1
  /\ call.kind = "extended" => call.start >= ExtendedFirst

InCall ==
  IF call.kind = "single" THEN got = <<>> /\ next = call.start
  ELSE /\ Shaped /\ call.start <= next /\ next <= LastId(call.kind)
       /\ Listed(got, Below(Wanted, next))

InPage ==
  /\ call.kind # "single" /\ ~more
  /\ next <= id /\ id <= LastId(call.kind) + 1
  /\ Listed(page, From(Wanted, next, id))

InAnswer ==
  IF call.kind = "single" THEN page = <<call.start>> /\ Has(call.start) /\ ~more
  ELSE /\ next <= id
       /\ more => id <= LastId(call.kind)
       /\ ~more => id = LastId(call.kind) + 1
       /\ Listed(page, From(Wanted, next, id))

\* The ids a successful call has received.
Received ==
  pc = "idle" /\ err = "NONE" =>
    IF call.kind = "single" THEN got = <<call.start>> /\ Has(call.start)
    ELSE Ascending(got) /\ Elements(got) = Wanted

\* The type invariant but for what was stored.
CallTypeOK ==
  /\ objects \in [Ids -> Lengths \cup {Absent}]
  /\ pc \in {"idle", "asked", "paging", "answered", "refused", "unanswered"}
  /\ call \in CallTypes /\ next \in Ids /\ got \in Seq(Ids)
  /\ id \in 0..(ExtendedLast + 1) /\ left \in 0..Room /\ size \in 0..255 /\ page \in Seq(Ids)
  /\ more \in BOOLEAN /\ fault \in BOOLEAN
  /\ err \in {"no call", "NONE", "INVALID_ARGUMENT", "INVALID_RESPONSE", "exception", "TIMEOUT", "crash"}

DeviceInv ==
  /\ CallTypeOK /\ LengthsAgree /\ Received
  /\ pc # "idle" => InCall
  /\ pc = "paging" => InPage
  /\ pc = "answered" => InAnswer

-----------------------------------------------------------------------------
LEMMA DeviceNumbers ==
  /\ BasicLast \in Nat /\ RegularLast \in Nat /\ ExtendedFirst \in Nat /\ ExtendedLast \in Nat
  /\ BasicLast < RegularLast /\ RegularLast + 1 < ExtendedFirst /\ ExtendedFirst <= ExtendedLast
  /\ Room \in Nat /\ MaxLength \in Nat /\ MaxLength + 2 <= Room /\ Room + 6 <= 255
BY DeviceAssumption

LEMMA RoomNumbers ==
  /\ Room \in Nat /\ MaxLength \in Nat /\ MaxLength + 2 <= Room /\ Room + 6 <= 255
  /\ \A l \in Lengths : l \in Nat /\ l <= MaxLength
BY DeviceAssumption

LEMMA KindOfCall ==
  ASSUME call \in CallTypes
  PROVE  call.kind \in Kinds /\ call.start \in Ids
BY DEF CallTypes

LEMMA LastIdOf ==
  ASSUME NEW k, k \in {"basic", "regular", "extended"}
  PROVE  /\ LastId(k) \in Ids /\ FirstId(k) \in Ids
         /\ k = "basic" => FirstId(k) = 0 /\ LastId(k) = BasicLast
         /\ k = "regular" => FirstId(k) = BasicLast + 1 /\ LastId(k) = RegularLast
         /\ k = "extended" => FirstId(k) = ExtendedFirst /\ LastId(k) = ExtendedLast
<1>1. CASE k = "basic"
  <2>1. FirstId(k) = 0 /\ LastId(k) = BasicLast
    BY <1>1 DEF FirstId, LastId
  <2> QED
    BY <1>1, <2>1, DeviceNumbers DEF Ids
<1>2. CASE k = "regular"
  <2>1. FirstId(k) = BasicLast + 1 /\ LastId(k) = RegularLast
    BY <1>2 DEF FirstId, LastId
  <2> QED
    BY <1>2, <2>1, DeviceNumbers DEF Ids
<1>3. CASE k = "extended"
  <2>1. FirstId(k) = ExtendedFirst /\ LastId(k) = ExtendedLast
    BY <1>3 DEF FirstId, LastId
  <2> QED
    BY <1>3, <2>1, DeviceNumbers DEF Ids
<1> QED
  BY <1>1, <1>2, <1>3

(***************************************************************************)
(* Ascending lists                                                         *)
(***************************************************************************)
LEMMA NothingListed == Listed(<<>>, {})
BY DEF Listed, Ascending, Elements

LEMMA OneListed ==
  ASSUME NEW x \in Ids
  PROVE  Listed(<<x>>, {x})
BY DEF Listed, Ascending, Elements

LEMMA ListsJoin ==
  ASSUME NEW s, NEW S, NEW t, NEW T, Listed(s, S), Listed(t, T),
         \A a \in S, b \in T : a < b
  PROVE  Listed(s \o t, S \cup T)
<1> DEFINE u == s \o t
<1>1. s \in Seq(Ids) /\ t \in Seq(Ids)
  BY DEF Listed
<1>2. /\ Len(s) \in Nat /\ DOMAIN s = 1..Len(s)
      /\ Len(t) \in Nat /\ DOMAIN t = 1..Len(t)
  BY <1>1, LenProperties
<1>3. /\ u \in Seq(Ids) /\ Len(u) = Len(s) + Len(t)
      /\ \A i \in 1..Len(s) + Len(t) : u[i] = IF i <= Len(s) THEN s[i] ELSE t[i - Len(s)]
  BY <1>1, ConcatProperties
<1>4. DOMAIN u = 1..Len(s) + Len(t)
  BY <1>3, LenProperties
<1> HIDE DEF u
<1>5. ASSUME NEW i \in DOMAIN u
      PROVE  \/ i \in DOMAIN s /\ u[i] = s[i] /\ i <= Len(s)
             \/ i > Len(s) /\ i - Len(s) \in DOMAIN t /\ u[i] = t[i - Len(s)]
  BY <1>2, <1>3, <1>4
<1>6. \A i \in DOMAIN s : s[i] \in S
  BY DEF Listed, Elements
<1>7. \A i \in DOMAIN t : t[i] \in T
  BY DEF Listed, Elements
<1>8. Ascending(u)
  <2> SUFFICES ASSUME NEW i \in DOMAIN u, NEW j \in DOMAIN u, i < j PROVE u[i] < u[j]
    BY DEF Ascending
  <2>1. i \in Nat /\ j \in Nat
    BY <1>2, <1>4
  <2>2. CASE i \in DOMAIN s /\ j \in DOMAIN s /\ u[i] = s[i] /\ u[j] = s[j]
    BY <2>2 DEF Listed, Ascending
  <2>3. CASE /\ i > Len(s) /\ i - Len(s) \in DOMAIN t /\ u[i] = t[i - Len(s)]
             /\ j > Len(s) /\ j - Len(s) \in DOMAIN t /\ u[j] = t[j - Len(s)]
    <3>1. i - Len(s) < j - Len(s)
      BY <1>2, <2>1
    <3> QED
      BY <2>3, <3>1 DEF Listed, Ascending
  <2>4. CASE i \in DOMAIN s /\ u[i] = s[i] /\ j - Len(s) \in DOMAIN t /\ u[j] = t[j - Len(s)]
    BY <1>6, <1>7, <2>4
  <2>5. ~(i > Len(s) /\ j <= Len(s))
    BY <1>2, <2>1
  <2> QED
    BY <1>5, <2>2, <2>3, <2>4, <2>5
<1>9. Elements(u) \subseteq S \cup T
  BY <1>5, <1>6, <1>7 DEF Elements
<1>10. S \subseteq Elements(u)
  <2> SUFFICES ASSUME NEW i \in DOMAIN s PROVE s[i] \in Elements(u)
    BY DEF Listed, Elements
  <2>1. i \in DOMAIN u /\ u[i] = s[i]
    BY <1>2, <1>3, <1>4
  <2> QED
    BY <2>1 DEF Elements
<1>11. T \subseteq Elements(u)
  <2> SUFFICES ASSUME NEW i \in DOMAIN t PROVE t[i] \in Elements(u)
    BY DEF Listed, Elements
  <2>1. Len(s) + i \in DOMAIN u /\ u[Len(s) + i] = t[i]
    BY <1>2, <1>3, <1>4
  <2> QED
    BY <2>1 DEF Elements
<1>12. Listed(u, S \cup T)
  BY <1>3, <1>8, <1>9, <1>10, <1>11 DEF Listed
<1> QED
  BY <1>12 DEF u

LEMMA ListGrows ==
  ASSUME NEW s, NEW S, NEW x \in Ids, Listed(s, S), \A a \in S : a < x
  PROVE  Listed(Append(s, x), S \cup {x})
<1>1. Listed(<<x>>, {x})
  BY OneListed
<1>2. Listed(s \o <<x>>, S \cup {x})
  BY <1>1, ListsJoin
<1>3. Append(s, x) = s \o <<x>>
  BY AppendIsConcat DEF Listed
<1> QED
  BY <1>2, <1>3

(***************************************************************************)
(* What is wanted, below and from an object                                *)
(***************************************************************************)
LEMMA PageJoins ==
  ASSUME NEW W \in SUBSET Int, NEW j \in Int, NEW k \in Int, j <= k
  PROVE  /\ Below(W, j) \cup From(W, j, k) = Below(W, k)
         /\ \A a \in Below(W, j), b \in From(W, j, k) : a < b
<1>1. \A i \in W : (i < j \/ (j <= i /\ i < k)) <=> i < k
  OBVIOUS
<1>2. Below(W, j) \cup From(W, j, k) = Below(W, k)
  BY <1>1 DEF Below, From
<1>3. ASSUME NEW a \in Below(W, j), NEW b \in From(W, j, k) PROVE a < b
  <2>1. a \in Int /\ b \in Int /\ a < j /\ j <= b
    BY DEF Below, From
  <2> QED
    BY <2>1
<1> QED
  BY <1>2, <1>3

LEMMA NothingBelow ==
  ASSUME NEW W \in SUBSET Int, NEW j \in Int, \A i \in W : j <= i
  PROVE  Below(W, j) = {}
<1>1. \A i \in W : ~(i < j)
  OBVIOUS
<1> QED
  BY <1>1 DEF Below

LEMMA AllBelow ==
  ASSUME NEW W \in SUBSET Int, NEW k \in Int, \A i \in W : i <= k
  PROVE  Below(W, k + 1) = W
<1>1. \A i \in W : i < k + 1
  OBVIOUS
<1> QED
  BY <1>1 DEF Below

LEMMA NextObject ==
  ASSUME NEW W \in SUBSET Int, NEW j \in Int, NEW k \in Int, j <= k
  PROVE  /\ k \in W => From(W, j, k + 1) = From(W, j, k) \cup {k}
         /\ k \notin W => From(W, j, k + 1) = From(W, j, k)
         /\ \A a \in From(W, j, k) : a < k
<1>1. \A i \in W : (j <= i /\ i < k + 1) <=> ((j <= i /\ i < k) \/ i = k)
  OBVIOUS
<1>2. k \in W => From(W, j, k + 1) = From(W, j, k) \cup {k}
  BY <1>1 DEF From
<1>3. k \notin W => From(W, j, k + 1) = From(W, j, k)
  BY <1>1 DEF From
<1>4. \A a \in From(W, j, k) : a < k
  BY DEF From
<1> QED
  BY <1>2, <1>3, <1>4

LEMMA NothingFrom ==
  ASSUME NEW W \in SUBSET Int, NEW j \in Int
  PROVE  From(W, j, j) = {}
<1>1. \A i \in W : ~(j <= i /\ i < j)
  OBVIOUS
<1> QED
  BY <1>1 DEF From

LEMMA WantedStays ==
  ASSUME UNCHANGED <<objects, call>>
  PROVE  Wanted' = Wanted
BY DEF Wanted, Has

LEMMA WantedAreIds ==
  CallTypeOK /\ call.kind # "single" =>
    /\ Wanted \in SUBSET Int
    /\ \A i \in Wanted : call.start <= i /\ i <= LastId(call.kind)
    /\ call.start \in Int /\ call.start >= 0 /\ LastId(call.kind) \in Ids
    /\ LastId(call.kind) \in Int
<1> SUFFICES ASSUME CallTypeOK, call.kind # "single"
             PROVE  /\ Wanted \in SUBSET Int
                    /\ \A i \in Wanted : call.start <= i /\ i <= LastId(call.kind)
                    /\ call.start \in Int /\ call.start >= 0 /\ LastId(call.kind) \in Ids
                    /\ LastId(call.kind) \in Int
  OBVIOUS
<1>1. call.kind \in {"basic", "regular", "extended"} /\ call.start \in Ids
  BY KindOfCall DEF CallTypeOK, Kinds
<1>2. LastId(call.kind) \in Ids
  BY <1>1, LastIdOf
<1>3. call.start \in Int /\ call.start >= 0 /\ LastId(call.kind) \in Int
  BY <1>1, <1>2, DeviceNumbers DEF Ids
<1>4. \A i \in Wanted : i \in Int /\ call.start <= i /\ i <= LastId(call.kind)
  BY <1>3 DEF Wanted
<1> QED
  BY <1>2, <1>3, <1>4

LEMMA WantedHas ==
  ASSUME CallTypeOK, call.kind # "single", NEW i \in Int,
         call.start <= i, i <= LastId(call.kind)
  PROVE  i \in Wanted <=> Has(i)
<1>1. i \in call.start..LastId(call.kind)
  BY WantedAreIds
<1> QED
  BY <1>1 DEF Wanted

(***************************************************************************)
(* The steps                                                               *)
(***************************************************************************)
\* Numbers of the handler: what is left of the room for an object.
LEMMA LeftOver ==
  ASSUME CallTypeOK, LengthsAgree, NEW i \in Ids, Has(i)
  PROVE  /\ Left(i) >= 0 => Left(i) \in 0..Room /\ size + 2 + objects[i] \in 0..255
         /\ (size + 2 + objects[i]) + Left(i) = Room + 6
         /\ Room - 2 - objects[i] \in 0..Room /\ 6 + 2 + objects[i] \in 0..255
         /\ (6 + 2 + objects[i]) + (Room - 2 - objects[i]) = Room + 6
<1>1. objects[i] \in Lengths
  BY DEF CallTypeOK, Has
<1>2. PICK l \in Nat : l = objects[i] /\ l <= MaxLength
  BY <1>1, RoomNumbers
<1>3. left \in 0..Room /\ size \in 0..255 /\ size + left = Room + 6
  BY DEF CallTypeOK, LengthsAgree
<1>4. PICK f \in Nat : f = left /\ f <= Room
  BY <1>3, RoomNumbers
<1>5. PICK z \in Nat : z = size
  BY <1>3
<1>6. z + f = Room + 6
  BY <1>3, <1>4, <1>5
<1>7. Left(i) = f - 2 - l
  BY <1>2, <1>4 DEF Left
<1>8. f - 2 - l >= 0 => f - 2 - l \in 0..Room /\ z + 2 + l \in 0..255
  <2> SUFFICES ASSUME f - 2 - l >= 0 PROVE f - 2 - l \in 0..Room /\ z + 2 + l \in 0..255
    OBVIOUS
  <2>1. Room \in Nat /\ Room + 6 <= 255 /\ f <= Room
    BY <1>4, RoomNumbers
  <2>2. f - 2 - l \in 0..Room
    BY <2>1
  <2>3. z + 2 + l <= z + f
    OBVIOUS
  <2>4. z + 2 + l <= 255
    BY <1>6, <2>1, <2>3
  <2> QED
    BY <2>2, <2>4
<1>9. z + 2 + l + (f - 2 - l) = Room + 6
  BY <1>2, <1>4, <1>5, <1>6, RoomNumbers
<1>10. Room - 2 - l \in 0..Room /\ 6 + 2 + l \in 0..255 /\ 6 + 2 + l + (Room - 2 - l) = Room + 6
  BY <1>2, RoomNumbers
<1> QED
  BY <1>2, <1>5, <1>7, <1>8, <1>9, <1>10

LEMMA ForgottenTypes ==
  ASSUME Forget
  PROVE  /\ id' \in 0..(ExtendedLast + 1) /\ left' \in 0..Room /\ size' \in 0..255
         /\ page' \in Seq(Ids) /\ more' \in BOOLEAN /\ LengthsAgree'
<1>1. id' = 0 /\ left' = Room /\ size' = 6 /\ page' = <<>> /\ more' = FALSE
  BY DEF Forget
<1>2. ExtendedLast \in Nat
  BY DeviceNumbers
<1>3. 0 \in 0..(ExtendedLast + 1)
  BY <1>2
<1>4. Room \in 0..Room /\ 6 + Room = Room + 6 /\ 6 \in 0..255
  BY RoomNumbers
<1>5. LengthsAgree'
  BY <1>1, <1>4 DEF LengthsAgree
<1>6. page' \in Seq(Ids)
  BY <1>1
<1> QED
  BY <1>1, <1>3, <1>4, <1>5, <1>6

\* The type invariant after a step: the client's part and the handler's.
LEMMA TypesAfter ==
  ASSUME objects' \in [Ids -> Lengths \cup {Absent}], call' \in CallTypes,
         pc' \in {"idle", "asked", "paging", "answered", "refused", "unanswered"},
         next' \in Ids, got' \in Seq(Ids), fault' \in BOOLEAN,
         err' \in {"no call", "NONE", "INVALID_ARGUMENT", "INVALID_RESPONSE", "exception", "TIMEOUT", "crash"},
         id' \in 0..(ExtendedLast + 1), left' \in 0..Room, size' \in 0..255,
         page' \in Seq(Ids), more' \in BOOLEAN
  PROVE  CallTypeOK'
BY DEF CallTypeOK

LEMMA ClientPartStays ==
  ASSUME CallTypeOK, UNCHANGED <<objects, call, next, got, err>>
  PROVE  /\ objects' \in [Ids -> Lengths \cup {Absent}] /\ call' \in CallTypes
         /\ next' \in Ids /\ got' \in Seq(Ids)
         /\ err' \in {"no call", "NONE", "INVALID_ARGUMENT", "INVALID_RESPONSE", "exception", "TIMEOUT", "crash"}
BY DEF CallTypeOK

LEMMA HandlerPartStays ==
  ASSUME CallTypeOK, UNCHANGED <<id, left, size, page, more>>
  PROVE  /\ id' \in 0..(ExtendedLast + 1) /\ left' \in 0..Room /\ size' \in 0..255
         /\ page' \in Seq(Ids) /\ more' \in BOOLEAN
BY DEF CallTypeOK

LEMMA InCallStays ==
  ASSUME InCall, UNCHANGED <<objects, call, next, got>>
  PROVE  InCall'
<1>1. Wanted' = Wanted
  BY WantedStays
<1> QED
  BY <1>1 DEF InCall, Shaped

LEMMA BeginKeeps ==
  ASSUME DeviceInv, NEW c \in DeviceCalls, Begin(c)
  PROVE  DeviceInv'
<1>1. c.kind \in Kinds /\ c.start \in Ids /\ c \in CallTypes
  BY DeviceNumbers DEF DeviceCalls, BasicCalls, RegularCalls, Kinds, CallTypes, Ids
<1>2. (c.kind = "basic" => c.start = 0) /\ (c.kind = "regular" => c.start = BasicLast + 1)
  BY DEF DeviceCalls, BasicCalls, RegularCalls
<1>3. /\ call' = c /\ got' = <<>> /\ next' = c.start /\ fault' = FALSE
      /\ UNCHANGED <<objects, id, left, size, page, more>>
  BY DEF Begin
<1>4. \/ Valid(c) /\ pc' = "asked" /\ err' = "no call"
      \/ ~Valid(c) /\ pc' = "idle" /\ err' = "INVALID_ARGUMENT"
  BY DEF Begin, Returns
<1>5. CallTypeOK'
  <2>1. CallTypeOK
    BY DEF DeviceInv
  <2>2. /\ pc' \in {"idle", "asked"} /\ err' \in {"no call", "INVALID_ARGUMENT"}
        /\ got' \in Seq(Ids) /\ next' \in Ids /\ call' \in CallTypes /\ fault' \in BOOLEAN
    <3>1. pc' \in {"idle", "asked"} /\ err' \in {"no call", "INVALID_ARGUMENT"}
      BY <1>4
    <3>2. next' \in Ids /\ call' \in CallTypes /\ fault' \in BOOLEAN
      BY <1>1, <1>3
    <3>3. got' \in Seq(Ids)
      BY <1>3
    <3> QED
      BY <3>1, <3>2, <3>3
  <2>3. objects' \in [Ids -> Lengths \cup {Absent}]
    BY <1>3, <2>1 DEF CallTypeOK
  <2>4. /\ id' \in 0..(ExtendedLast + 1) /\ left' \in 0..Room /\ size' \in 0..255
        /\ page' \in Seq(Ids) /\ more' \in BOOLEAN
    BY <1>3, <2>1, HandlerPartStays
  <2>5. pc' \in {"idle", "asked", "paging", "answered", "refused", "unanswered"}
    BY <2>2
  <2>6. err' \in {"no call", "NONE", "INVALID_ARGUMENT", "INVALID_RESPONSE", "exception", "TIMEOUT", "crash"}
    BY <2>2
  <2> QED
    BY <2>2, <2>3, <2>4, <2>5, <2>6, TypesAfter
<1>6. LengthsAgree'
  BY <1>3 DEF DeviceInv, LengthsAgree
<1>7. Received'
  <2>1. err' # "NONE"
    BY <1>4
  <2> QED
    BY <2>1 DEF Received
<1>8. ASSUME Valid(c) PROVE InCall'
  <2>1. CASE c.kind = "single"
    BY <1>3, <2>1 DEF InCall
  <2>2. CASE c.kind # "single"
    <3>1. c.kind = "extended" => c.start >= ExtendedFirst
      BY <1>8 DEF Valid
    <3>2. Shaped'
      BY <1>2, <1>3, <3>1 DEF Shaped
    <3>3. c.kind \in {"basic", "regular", "extended"}
      BY <1>1, <2>2 DEF Kinds
    <3>4. c.start <= LastId(c.kind) /\ c.start <= c.start
      BY <1>1, <1>2, <3>3, LastIdOf, DeviceNumbers DEF Ids
    <3>5. (/\ Wanted \in SUBSET Int
           /\ \A i \in Wanted : call.start <= i /\ i <= LastId(call.kind)
           /\ call.start \in Int)'
      <4>1. (CallTypeOK /\ call.kind # "single" =>
             /\ Wanted \in SUBSET Int
             /\ \A i \in Wanted : call.start <= i /\ i <= LastId(call.kind)
             /\ call.start \in Int /\ call.start >= 0 /\ LastId(call.kind) \in Ids
             /\ LastId(call.kind) \in Int)'
        BY WantedAreIds, PTL
      <4> QED
        BY <1>3, <1>5, <2>2, <4>1
    <3>6. Below(Wanted', c.start) = {}
      BY <1>3, <3>5, NothingBelow
    <3>7. Listed(got', Below(Wanted', next'))
      BY <1>3, <3>6, NothingListed
    <3> QED
      BY <1>3, <2>2, <3>2, <3>4, <3>7 DEF InCall
  <2> QED
    BY <2>1, <2>2
<1> QED
  BY <1>3, <1>4, <1>5, <1>6, <1>7, <1>8 DEF DeviceInv

LEMMA HandleKeeps ==
  ASSUME DeviceInv, Handle
  PROVE  DeviceInv'
<1>1. /\ CallTypeOK /\ LengthsAgree /\ InCall /\ pc = "asked"
      /\ UNCHANGED <<objects, call, next, got, err, fault>>
  BY DEF DeviceInv, Handle, stored
<1>2. InCall'
  BY <1>1, InCallStays
<1>3. next \in Ids /\ fault' \in BOOLEAN /\ id \in 0..(ExtendedLast + 1)
  BY <1>1 DEF CallTypeOK
<1>7. /\ objects' \in [Ids -> Lengths \cup {Absent}] /\ call' \in CallTypes
      /\ next' \in Ids /\ got' \in Seq(Ids)
      /\ err' \in {"no call", "NONE", "INVALID_ARGUMENT", "INVALID_RESPONSE", "exception", "TIMEOUT", "crash"}
  BY <1>1, ClientPartStays
<1>4. CASE /\ call.kind = "single" /\ Has(next)
           /\ pc' = "answered" /\ page' = <<next>> /\ more' = FALSE
           /\ size' = 6 + 2 + objects[next] /\ left' = Room - 2 - objects[next] /\ UNCHANGED id
  <2>1. /\ left' \in 0..Room /\ size' \in 0..255 /\ LengthsAgree'
    BY <1>1, <1>3, <1>4, LeftOver DEF LengthsAgree
  <2>2. page' \in Seq(Ids) /\ more' \in BOOLEAN
    <3>1. <<next>> \in Seq(Ids)
      BY <1>3
    <3>2. more' \in BOOLEAN
      BY <1>4
    <3> QED
      BY <1>4, <3>1, <3>2
  <2>3. CallTypeOK'
    <3>1. pc' \in {"idle", "asked", "paging", "answered", "refused", "unanswered"}
      BY <1>4
    <3>2. id' \in 0..(ExtendedLast + 1)
      BY <1>3, <1>4
    <3> QED
      BY <1>3, <1>7, <2>1, <2>2, <3>1, <3>2, TypesAfter
  <2>4. InAnswer'
    BY <1>1, <1>4 DEF InAnswer, InCall, Has
  <2>5. Received' /\ pc' = "answered"
    BY <1>4 DEF Received
  <2> QED
    BY <1>2, <2>1, <2>3, <2>4, <2>5 DEF DeviceInv
<1>5. CASE /\ call.kind # "single" /\ next \in FirstId(call.kind)..LastId(call.kind)
           /\ pc' = "paging" /\ id' = next
           /\ left' = Room /\ size' = 6 /\ page' = <<>> /\ more' = FALSE
  <2>1. Room \in 0..Room /\ 6 + Room = Room + 6 /\ 6 \in 0..255
    BY RoomNumbers
  <2>2. LengthsAgree' /\ left' \in 0..Room /\ size' \in 0..255
    BY <1>5, <2>1 DEF LengthsAgree
  <2>3. next \in Int /\ next \in 0..(ExtendedLast + 1)
    BY <1>3, DeviceNumbers DEF Ids
  <2>4. page' \in Seq(Ids) /\ more' \in BOOLEAN
    <3>1. <<>> \in Seq(Ids)
      OBVIOUS
    <3>2. more' \in BOOLEAN
      BY <1>5
    <3> QED
      BY <1>5, <3>1, <3>2
  <2>5. CallTypeOK'
    <3>1. pc' \in {"idle", "asked", "paging", "answered", "refused", "unanswered"}
      BY <1>5
    <3>2. id' \in 0..(ExtendedLast + 1)
      BY <1>5, <2>3
    <3> QED
      BY <1>3, <1>7, <2>2, <2>4, <3>1, <3>2, TypesAfter
  <2>6. Wanted' = Wanted /\ Wanted \in SUBSET Int /\ LastId(call.kind) \in Int
    BY <1>1, <1>5, WantedStays, WantedAreIds
  <2>7. From(Wanted, next, next) = {}
    BY <2>3, <2>6, NothingFrom
  <2>8. Listed(page', From(Wanted', next', id'))
    BY <1>1, <1>5, <2>6, <2>7, NothingListed
  <2>9. next <= next /\ next <= LastId(call.kind) + 1
    BY <1>1, <1>5, <2>3, <2>6 DEF InCall
  <2>10. InPage'
    BY <1>1, <1>5, <2>8, <2>9 DEF InPage
  <2>11. Received' /\ pc' = "paging"
    BY <1>5 DEF Received
  <2> QED
    BY <1>2, <2>2, <2>5, <2>10, <2>11 DEF DeviceInv
<1>6. CASE Refuse
  <2>1. pc' = "refused" /\ Forget
    BY <1>6 DEF Refuse
  <2>2. /\ id' \in 0..(ExtendedLast + 1) /\ left' \in 0..Room /\ size' \in 0..255
        /\ page' \in Seq(Ids) /\ more' \in BOOLEAN /\ LengthsAgree'
    BY <2>1, ForgottenTypes
  <2>3. CallTypeOK'
    BY <1>3, <1>7, <2>1, <2>2, TypesAfter
  <2>4. Received'
    BY <2>1 DEF Received
  <2> QED
    BY <1>2, <2>1, <2>2, <2>3, <2>4 DEF DeviceInv
<1> QED
  BY <1>4, <1>5, <1>6 DEF Handle

LEMMA PageStepKeeps ==
  ASSUME DeviceInv, PageStep
  PROVE  DeviceInv'
<1>1. /\ CallTypeOK /\ LengthsAgree /\ InCall /\ InPage /\ pc = "paging"
      /\ UNCHANGED <<objects, call, next, got, err, fault>>
      /\ id <= LastId(call.kind)
  BY DEF DeviceInv, PageStep, stored
<1>2. InCall'
  BY <1>1, InCallStays
<1>3. /\ objects' \in [Ids -> Lengths \cup {Absent}] /\ call' \in CallTypes
      /\ next' \in Ids /\ got' \in Seq(Ids)
      /\ err' \in {"no call", "NONE", "INVALID_ARGUMENT", "INVALID_RESPONSE", "exception", "TIMEOUT", "crash"}
  BY <1>1, ClientPartStays
<1>4. /\ next \in Ids /\ fault' \in BOOLEAN /\ id \in 0..(ExtendedLast + 1)
      /\ left \in 0..Room /\ size \in 0..255 /\ page \in Seq(Ids) /\ more \in BOOLEAN
  BY <1>1 DEF CallTypeOK
<1>5. /\ call.kind # "single" /\ ~more /\ next <= id
      /\ Listed(page, From(Wanted, next, id))
  BY <1>1 DEF InPage
<1>6. /\ Wanted' = Wanted /\ Wanted \in SUBSET Int /\ call.start \in Int
      /\ LastId(call.kind) \in Int /\ LastId(call.kind) \in Ids
  BY <1>1, <1>5, WantedStays, WantedAreIds
<1>7. next \in Int /\ id \in Int /\ call.start <= id
  <2>1. next \in Int /\ id \in Int
    BY <1>4, DeviceNumbers DEF Ids
  <2>2. call.start <= next
    BY <1>1, <1>5 DEF InCall
  <2> QED
    BY <1>5, <1>6, <2>1, <2>2
<1>8. id \in Ids /\ id + 1 \in 0..(ExtendedLast + 1) /\ next <= id + 1 /\ id + 1 <= LastId(call.kind) + 1
  BY <1>1, <1>4, <1>5, <1>6, <1>7, DeviceNumbers DEF Ids
<1>9. id \in Wanted <=> Has(id)
  BY <1>1, <1>5, <1>7, WantedHas
<1>10. /\ Has(id) => From(Wanted, next, id + 1) = From(Wanted, next, id) \cup {id}
       /\ ~Has(id) => From(Wanted, next, id + 1) = From(Wanted, next, id)
       /\ \A a \in From(Wanted, next, id) : a < id
  BY <1>5, <1>6, <1>7, <1>9, NextObject
<1>11. CASE ~Has(id) /\ id <= BasicLast /\ Refuse
  <2>1. pc' = "refused" /\ Forget
    BY <1>11 DEF Refuse
  <2>2. /\ id' \in 0..(ExtendedLast + 1) /\ left' \in 0..Room /\ size' \in 0..255
        /\ page' \in Seq(Ids) /\ more' \in BOOLEAN /\ LengthsAgree'
    BY <2>1, ForgottenTypes
  <2>3. CallTypeOK'
    BY <1>3, <1>4, <2>1, <2>2, TypesAfter
  <2>4. Received'
    BY <2>1 DEF Received
  <2> QED
    BY <1>2, <2>1, <2>2, <2>3, <2>4 DEF DeviceInv
<1>12. CASE ~Has(id) /\ id > BasicLast /\ id' = id + 1 /\ UNCHANGED <<pc, left, size, page, more>>
  <2>1. pc' = "paging" /\ left' = left /\ size' = size /\ page' = page /\ more' = more
    BY <1>1, <1>12
  <2>2. id' \in 0..(ExtendedLast + 1)
    BY <1>8, <1>12
  <2>3. CallTypeOK'
    BY <1>3, <1>4, <2>1, <2>2, TypesAfter
  <2>4. LengthsAgree' /\ Received'
    BY <1>1, <2>1 DEF LengthsAgree, Received
  <2>5. Listed(page', From(Wanted', next', id'))
    BY <1>1, <1>5, <1>6, <1>10, <1>12
  <2>6. next' <= id' /\ id' <= LastId(call'.kind) + 1 /\ call'.kind # "single" /\ ~more'
    BY <1>1, <1>5, <1>8, <1>12
  <2>7. InPage'
    BY <2>5, <2>6 DEF InPage
  <2> QED
    BY <1>2, <2>1, <2>3, <2>4, <2>7 DEF DeviceInv
<1>13. CASE Has(id) /\ Fits(id)
              /\ page' = Append(page, id) /\ left' = Left(id) /\ size' = size + 2 + objects[id]
              /\ id' = id + 1 /\ UNCHANGED <<pc, more>>
  <2>1. pc' = "paging" /\ more' = more
    BY <1>1, <1>13
  <2>2. /\ left' \in 0..Room /\ size' \in 0..255 /\ size' + left' = Room + 6
    BY <1>1, <1>8, <1>13, LeftOver DEF Fits
  <2>3. id' \in 0..(ExtendedLast + 1)
    BY <1>8, <1>13
  <2>4. Listed(page', From(Wanted, next, id) \cup {id})
    BY <1>5, <1>8, <1>10, <1>13, ListGrows
  <2>5. page' \in Seq(Ids)
    BY <2>4 DEF Listed
  <2>6. CallTypeOK'
    BY <1>3, <1>4, <2>1, <2>2, <2>3, <2>5, TypesAfter
  <2>7. LengthsAgree' /\ Received'
    BY <2>1, <2>2 DEF LengthsAgree, Received
  <2>8. Listed(page', From(Wanted', next', id'))
    BY <1>1, <1>6, <1>10, <1>13, <2>4
  <2>9. next' <= id' /\ id' <= LastId(call'.kind) + 1 /\ call'.kind # "single" /\ ~more'
    BY <1>1, <1>5, <1>8, <1>13
  <2>10. InPage'
    BY <2>8, <2>9 DEF InPage
  <2> QED
    BY <1>2, <2>1, <2>6, <2>7, <2>10 DEF DeviceInv
<1>14. CASE Has(id) /\ ~Fits(id)
              /\ pc' = "answered" /\ more' = TRUE /\ UNCHANGED <<id, left, size, page>>
  <2>1. /\ pc' = "answered" /\ more' = TRUE
        /\ id' = id /\ left' = left /\ size' = size /\ page' = page
    BY <1>14
  <2>2. more' \in BOOLEAN
    BY <2>1
  <2>3. CallTypeOK'
    BY <1>3, <1>4, <2>1, <2>2, TypesAfter
  <2>4. LengthsAgree' /\ Received'
    BY <1>1, <2>1 DEF LengthsAgree, Received
  <2>5. Listed(page', From(Wanted', next', id')) /\ call'.kind # "single"
    BY <1>1, <1>5, <1>6, <2>1
  <2>6. next' <= id' /\ id' <= LastId(call'.kind)
    BY <1>1, <1>5, <2>1
  <2>7. InAnswer'
    BY <2>1, <2>5, <2>6 DEF InAnswer
  <2> QED
    BY <1>2, <2>1, <2>3, <2>4, <2>7 DEF DeviceInv
<1>15. \/ ~Has(id) /\ id <= BasicLast /\ Refuse
       \/ ~Has(id) /\ id > BasicLast /\ id' = id + 1 /\ UNCHANGED <<pc, left, size, page, more>>
       \/ Has(id) /\ Fits(id)
            /\ page' = Append(page, id) /\ left' = Left(id) /\ size' = size + 2 + objects[id]
            /\ id' = id + 1 /\ UNCHANGED <<pc, more>>
       \/ Has(id) /\ ~Fits(id)
            /\ pc' = "answered" /\ more' = TRUE /\ UNCHANGED <<id, left, size, page>>
  BY DEF PageStep
<1> QED
  BY <1>11, <1>12, <1>13, <1>14, <1>15

LEMMA PageEndsKeeps ==
  ASSUME DeviceInv, PageEnds
  PROVE  DeviceInv'
<1>1. /\ CallTypeOK /\ LengthsAgree /\ InCall /\ InPage /\ pc' = "answered"
      /\ UNCHANGED <<objects, call, next, got, id, left, size, page, more, err, fault>>
      /\ id > LastId(call.kind)
  BY DEF DeviceInv, PageEnds, stored
<1>2. InCall'
  BY <1>1, InCallStays
<1>3. CallTypeOK'
  BY <1>1 DEF CallTypeOK
<1>4. LengthsAgree' /\ Received'
  BY <1>1 DEF LengthsAgree, Received
<1>5. /\ call.kind # "single" /\ ~more /\ next <= id /\ id <= LastId(call.kind) + 1
      /\ Listed(page, From(Wanted, next, id))
  BY <1>1 DEF InPage
<1>6. Wanted' = Wanted /\ LastId(call.kind) \in Int
  BY <1>1, <1>5, WantedStays, WantedAreIds
<1>7. id = LastId(call.kind) + 1
  <2>1. id \in 0..(ExtendedLast + 1)
    BY <1>1 DEF CallTypeOK
  <2>2. id \in Int
    BY <2>1, DeviceNumbers
  <2> QED
    BY <1>1, <1>5, <1>6, <2>2
<1>8. /\ Listed(page', From(Wanted', next', id')) /\ call'.kind # "single" /\ ~more'
      /\ next' <= id' /\ id' = LastId(call'.kind) + 1
  BY <1>1, <1>5, <1>6, <1>7
<1>9. InAnswer'
  BY <1>8 DEF InAnswer
<1> QED
  BY <1>1, <1>2, <1>3, <1>4, <1>9 DEF DeviceInv

LEMMA TakePageKeeps ==
  ASSUME DeviceInv, TakePage
  PROVE  DeviceInv'
<1>1. /\ CallTypeOK /\ InCall /\ InAnswer /\ Forget
      /\ UNCHANGED <<objects, call, fault>>
  BY DEF DeviceInv, TakePage
<1>2. \/ Returns("INVALID_ARGUMENT") /\ got' = got /\ next' = next
      \/ /\ got' = got \o page /\ next' = IF more THEN NextId ELSE Done
         /\ \/ Returns("INVALID_RESPONSE")
            \/ more /\ pc' = "asked" /\ UNCHANGED err
            \/ ~more /\ Returns("NONE")
  BY DEF TakePage, stored
<1>3. /\ id' \in 0..(ExtendedLast + 1) /\ left' \in 0..Room /\ size' \in 0..255
      /\ page' \in Seq(Ids) /\ more' \in BOOLEAN /\ LengthsAgree'
  BY <1>1, ForgottenTypes
<1>4. /\ objects \in [Ids -> Lengths \cup {Absent}] /\ call \in CallTypes /\ next \in Ids
      /\ got \in Seq(Ids) /\ page \in Seq(Ids) /\ fault \in BOOLEAN
      /\ id \in 0..(ExtendedLast + 1)
      /\ err \in {"no call", "NONE", "INVALID_ARGUMENT", "INVALID_RESPONSE", "exception", "TIMEOUT", "crash"}
  BY <1>1 DEF CallTypeOK
<1>5. Done \in Ids
  BY DeviceNumbers DEF Done, Ids
<1>6. more => id \in Ids
  <2>1. CASE call.kind = "single"
    BY <1>1, <2>1 DEF InAnswer
  <2>2. CASE call.kind # "single"
    <3>1. more => id <= LastId(call.kind)
      BY <1>1, <2>2 DEF InAnswer
    <3>2. LastId(call.kind) \in Ids
      BY <1>1, <2>2, WantedAreIds
    <3>3. id \in 0..(ExtendedLast + 1) /\ ExtendedLast \in Nat
      BY <1>4, DeviceNumbers
    <3>4. id <= LastId(call.kind) => id \in Ids
      BY <3>2, <3>3 DEF Ids
    <3> QED
      BY <3>1, <3>4
  <2> QED
    BY <2>1, <2>2
<1>7. got \o page \in Seq(Ids)
  BY <1>4, ConcatProperties
<1>8. CallTypeOK'
  <2>1. pc' \in {"idle", "asked", "paging", "answered", "refused", "unanswered"}
    BY <1>2 DEF Returns
  <2>2. err' \in {"no call", "NONE", "INVALID_ARGUMENT", "INVALID_RESPONSE", "exception", "TIMEOUT", "crash"}
    BY <1>2, <1>4 DEF Returns
  <2>3. next' \in Ids
    BY <1>2, <1>4, <1>5, <1>6 DEF NextId
  <2>4. got' \in Seq(Ids)
    BY <1>2, <1>4, <1>7
  <2>5. /\ objects' \in [Ids -> Lengths \cup {Absent}] /\ call' \in CallTypes
        /\ fault' \in BOOLEAN
    BY <1>1, <1>4
  <2> QED
    BY <1>3, <2>1, <2>2, <2>3, <2>4, <2>5, TypesAfter
<1>9. CASE call.kind = "single"
  <2>1. /\ got = <<>> /\ next = call.start /\ page = <<call.start>> /\ Has(call.start) /\ ~more
    BY <1>1, <1>9 DEF InCall, InAnswer
  <2>2. call.start \in Ids
    BY <1>4, KindOfCall
  <2>3. <<>> \o <<call.start>> = <<call.start>>
    BY <2>2
  <2>4. pc' = "idle" /\ (err' = "NONE" => got' = <<call.start>>)
    BY <1>2, <2>1, <2>3 DEF Returns
  <2>5. call'.kind = "single" /\ call'.start = call.start /\ Has(call.start)'
    BY <1>1, <1>9, <2>1 DEF Has
  <2>6. Received'
    BY <2>4, <2>5 DEF Received, Has
  <2> QED
    BY <1>3, <1>8, <2>4, <2>6 DEF DeviceInv
<1>10. CASE call.kind # "single"
  <2>1. /\ Shaped /\ call.start <= next /\ next <= LastId(call.kind)
        /\ Listed(got, Below(Wanted, next))
    BY <1>1, <1>10 DEF InCall
  <2>2. /\ next <= id
        /\ more => id <= LastId(call.kind)
        /\ ~more => id = LastId(call.kind) + 1
        /\ Listed(page, From(Wanted, next, id))
    BY <1>1, <1>10 DEF InAnswer
  <2>3. /\ Wanted' = Wanted /\ Wanted \in SUBSET Int /\ call.start \in Int
        /\ LastId(call.kind) \in Int /\ \A i \in Wanted : i <= LastId(call.kind)
    BY <1>1, <1>10, WantedStays, WantedAreIds
  <2>4. next \in Int /\ id \in Int
    <3>1. id \in 0..(ExtendedLast + 1) /\ ExtendedLast \in Nat /\ next \in Ids
      BY <1>4, DeviceNumbers
    <3> QED
      BY <3>1 DEF Ids
  <2>5. /\ Below(Wanted, next) \cup From(Wanted, next, id) = Below(Wanted, id)
        /\ \A a \in Below(Wanted, next), b \in From(Wanted, next, id) : a < b
    BY <2>2, <2>3, <2>4, PageJoins
  <2>6. Listed(got \o page, Below(Wanted, id))
    BY <2>1, <2>2, <2>5, ListsJoin
  <2>7. ASSUME pc' = "asked" PROVE InCall'
    <3>1. more /\ got' = got \o page /\ next' = id
      BY <1>2, <2>7 DEF Returns, NextId
    <3>2. call.start <= id /\ id <= LastId(call.kind)
      BY <2>1, <2>2, <2>3, <2>4, <3>1
    <3>3. Listed(got', Below(Wanted', next'))
      BY <2>3, <2>6, <3>1
    <3>4. Shaped'
      BY <1>1, <2>1 DEF Shaped
    <3> QED
      BY <1>1, <1>10, <3>1, <3>2, <3>3, <3>4 DEF InCall
  <2>8. ASSUME pc' = "idle", err' = "NONE"
        PROVE  Ascending(got') /\ Elements(got') = Wanted' /\ call'.kind # "single"
    <3>1. ~more /\ got' = got \o page
      BY <1>2, <2>8 DEF Returns
    <3>2. Below(Wanted, LastId(call.kind) + 1) = Wanted
      BY <2>3, AllBelow
    <3>3. Listed(got', Wanted)
      BY <2>2, <2>6, <3>1, <3>2
    <3> QED
      BY <1>1, <1>10, <2>3, <3>3 DEF Listed
  <2>9. Received'
    BY <2>8 DEF Received
  <2>10. pc' = "idle" \/ pc' = "asked"
    BY <1>2 DEF Returns
  <2> QED
    BY <1>3, <1>8, <2>7, <2>9, <2>10 DEF DeviceInv
<1> QED
  BY <1>9, <1>10

LEMMA ReturnKeeps ==
  ASSUME DeviceInv, TakeException \/ Timeout \/ Crash
  PROVE  DeviceInv'
<1>1. /\ CallTypeOK /\ LengthsAgree /\ UNCHANGED <<objects, call, next, got>>
      /\ pc' = "idle" /\ err' \in {"exception", "TIMEOUT", "crash"}
      /\ Forget \/ UNCHANGED <<id, left, size, page, more>>
  BY DEF DeviceInv, TakeException, Timeout, Crash, Returns, stored
<1>2. /\ objects \in [Ids -> Lengths \cup {Absent}] /\ call \in CallTypes /\ next \in Ids
      /\ got \in Seq(Ids) /\ fault \in BOOLEAN
  BY <1>1 DEF CallTypeOK
<1>3. /\ objects' \in [Ids -> Lengths \cup {Absent}] /\ call' \in CallTypes
      /\ next' \in Ids /\ got' \in Seq(Ids)
  BY <1>1, <1>2
<1>4. fault' \in BOOLEAN
  BY <1>2, Zenon DEF TakeException, Timeout, Crash
<1>5. /\ id' \in 0..(ExtendedLast + 1) /\ left' \in 0..Room /\ size' \in 0..255
      /\ page' \in Seq(Ids) /\ more' \in BOOLEAN /\ LengthsAgree'
  <2>1. CASE Forget
    BY <2>1, ForgottenTypes
  <2>2. CASE UNCHANGED <<id, left, size, page, more>>
    <3>1. LengthsAgree'
      BY <1>1, <2>2 DEF LengthsAgree
    <3> QED
      BY <1>1, <2>2, <3>1, HandlerPartStays
  <2> QED
    BY <1>1, <2>1, <2>2
<1>6. pc' \in {"idle", "asked", "paging", "answered", "refused", "unanswered"}
  BY <1>1
<1>7. err' \in {"no call", "NONE", "INVALID_ARGUMENT", "INVALID_RESPONSE", "exception", "TIMEOUT", "crash"}
  BY <1>1
<1>8. CallTypeOK'
  BY <1>3, <1>4, <1>5, <1>6, <1>7, TypesAfter
<1>9. Received'
  <2>1. err' # "NONE"
    BY <1>1
  <2> QED
    BY <2>1 DEF Received
<1> QED
  BY <1>1, <1>5, <1>8, <1>9 DEF DeviceInv

LEMMA CallbackFailsKeeps ==
  ASSUME DeviceInv, CallbackFails
  PROVE  DeviceInv'
<1>1. /\ CallTypeOK /\ InCall /\ pc' = "refused" /\ Forget /\ fault' = TRUE
      /\ UNCHANGED <<objects, call, next, got, err>>
  BY DEF DeviceInv, CallbackFails, Refuse, stored
<1>2. InCall'
  BY <1>1, InCallStays
<1>3. /\ objects' \in [Ids -> Lengths \cup {Absent}] /\ call' \in CallTypes
      /\ next' \in Ids /\ got' \in Seq(Ids)
      /\ err' \in {"no call", "NONE", "INVALID_ARGUMENT", "INVALID_RESPONSE", "exception", "TIMEOUT", "crash"}
  BY <1>1, ClientPartStays
<1>4. /\ id' \in 0..(ExtendedLast + 1) /\ left' \in 0..Room /\ size' \in 0..255
      /\ page' \in Seq(Ids) /\ more' \in BOOLEAN /\ LengthsAgree'
  BY <1>1, ForgottenTypes
<1>5. fault' \in BOOLEAN /\ pc' \in {"idle", "asked", "paging", "answered", "refused", "unanswered"}
  BY <1>1
<1>6. CallTypeOK'
  BY <1>3, <1>4, <1>5, TypesAfter
<1>7. Received'
  BY <1>1 DEF Received
<1> QED
  BY <1>1, <1>2, <1>4, <1>6, <1>7 DEF DeviceInv

LEMMA HandleBroadcastKeeps ==
  ASSUME DeviceInv, HandleBroadcast
  PROVE  DeviceInv'
<1>1. /\ CallTypeOK /\ LengthsAgree /\ InCall /\ pc' = "unanswered"
      /\ UNCHANGED <<objects, call, next, got, id, left, size, page, more, err, fault>>
  BY DEF DeviceInv, HandleBroadcast, stored
<1>2. InCall'
  BY <1>1, InCallStays
<1>3. CallTypeOK'
  BY <1>1 DEF CallTypeOK
<1>4. LengthsAgree' /\ Received'
  BY <1>1 DEF LengthsAgree, Received
<1> QED
  BY <1>1, <1>2, <1>3, <1>4 DEF DeviceInv

LEMMA DeviceStarts ==
  ASSUME DeviceInit
  PROVE  DeviceInv
<1>1. /\ objects \in [Ids -> Lengths \cup {Absent}]
      /\ pc = "idle" /\ call \in BasicCalls /\ next = Done /\ got = <<>>
      /\ id = 0 /\ left = Room /\ size = 6 /\ page = <<>> /\ more = FALSE
      /\ err = "no call" /\ fault = FALSE
  BY DEF DeviceInit
<1>2. Done \in Ids /\ 0 \in Ids /\ 0 \in 0..(ExtendedLast + 1)
  BY DeviceNumbers DEF Done, Ids
<1>3. call \in CallTypes
  BY <1>1, <1>2 DEF BasicCalls, CallTypes, Kinds
<1>4. Room \in 0..Room /\ 6 + Room = Room + 6 /\ 6 \in 0..255
  BY RoomNumbers
<1>5. left \in 0..Room /\ size \in 0..255 /\ LengthsAgree
  BY <1>1, <1>4 DEF LengthsAgree
<1>6. got \in Seq(Ids) /\ page \in Seq(Ids)
  <2>1. <<>> \in Seq(Ids)
    OBVIOUS
  <2> QED
    BY <1>1, <2>1
<1>7. more \in BOOLEAN /\ fault \in BOOLEAN
  BY <1>1
<1>8. /\ pc \in {"idle", "asked", "paging", "answered", "refused", "unanswered"}
      /\ err \in {"no call", "NONE", "INVALID_ARGUMENT", "INVALID_RESPONSE", "exception", "TIMEOUT", "crash"}
  BY <1>1
<1>9. call \in CallTypes /\ next \in Ids /\ id \in 0..(ExtendedLast + 1)
  BY <1>1, <1>2, <1>3
<1>10. CallTypeOK
  BY <1>1, <1>5, <1>6, <1>7, <1>8, <1>9 DEF CallTypeOK
<1>11. Received
  BY <1>1 DEF Received
<1> QED
  BY <1>1, <1>5, <1>10, <1>11 DEF DeviceInv

LEMMA DeviceStutters ==
  ASSUME DeviceInv, UNCHANGED deviceVars
  PROVE  DeviceInv'
<1>1. UNCHANGED <<objects, pc, call, next, got, id, left, size, page, more, err, fault>>
  BY DEF deviceVars, stored
<1>2. Wanted' = Wanted
  BY <1>1, WantedStays
<1>3. CallTypeOK' /\ LengthsAgree'
  BY <1>1 DEF DeviceInv, CallTypeOK, LengthsAgree
<1>4. Received'
  BY <1>1, <1>2 DEF DeviceInv, Received, Has
<1>5. pc # "idle" => InCall'
  BY <1>1, InCallStays DEF DeviceInv
<1>6. pc = "paging" => InPage'
  BY <1>1, <1>2 DEF DeviceInv, InPage
<1>7. pc = "answered" => InAnswer'
  BY <1>1, <1>2 DEF DeviceInv, InAnswer, Has
<1> QED
  BY <1>1, <1>3, <1>4, <1>5, <1>6, <1>7 DEF DeviceInv

-----------------------------------------------------------------------------
\* At every point of a call the stored objects are those wanted below next, and the page
\* holds those wanted from next on and below id.
THEOREM DeviceInvariance == DeviceSpec => []DeviceInv
<1>1. DeviceInit => DeviceInv
  BY DeviceStarts
<1>2. DeviceInv /\ [DeviceNext]_deviceVars => DeviceInv'
  <2> SUFFICES ASSUME DeviceInv, [DeviceNext]_deviceVars PROVE DeviceInv'
    OBVIOUS
  <2>1. CASE TakePage
    BY <2>1, TakePageKeeps
  <2>2. CASE TakeException \/ Timeout \/ Crash
    BY <2>2, ReturnKeeps
  <2>3. CASE CallbackFails
    BY <2>3, CallbackFailsKeeps
  <2>4. CASE Handle \/ HandleBroadcast
    BY <2>4, HandleKeeps, HandleBroadcastKeeps
  <2>5. CASE PageStep
    BY <2>5, PageStepKeeps
  <2>6. CASE PageEnds
    BY <2>6, PageEndsKeeps
  <2>7. CASE \E c \in DeviceCalls : Begin(c)
    BY <2>7, BeginKeeps
  <2>8. CASE UNCHANGED deviceVars
    BY <2>8, DeviceStutters
  <2>9. \/ TakePage \/ TakeException \/ Timeout \/ Crash
        \/ CallbackFails \/ Handle \/ HandleBroadcast \/ PageStep
        \/ PageEnds \/ (\E c \in DeviceCalls : Begin(c)) \/ UNCHANGED deviceVars
    BY DEF DeviceNext, DeviceStep
  <2> QED
    BY <2>1, <2>2, <2>3, <2>4, <2>5, <2>6, <2>7, <2>8, <2>9
<1> QED
  BY <1>1, <1>2, PTL DEF DeviceSpec

\* The announced length and the room left never disagree.
THEOREM LengthsAlwaysAgree == DeviceSpec => []LengthsAgree
<1>1. DeviceInv => LengthsAgree
  BY DEF DeviceInv
<1> QED
  BY <1>1, DeviceInvariance, PTL

-----------------------------------------------------------------------------
(***************************************************************************)
(* The caller's arrays                                                     *)
(***************************************************************************)
LEMMA ListIsShort ==
  ASSUME NEW s, NEW S, Listed(s, S), NEW W, S \subseteq W, IsFiniteSet(W)
  PROVE  Len(s) <= Cardinality(W) /\ Len(s) \in Nat /\ Cardinality(W) \in Nat
<1>1. s \in Seq(Ids) /\ Ascending(s) /\ Elements(s) = S
  BY DEF Listed
<1>2. Len(s) \in Nat /\ DOMAIN s = 1..Len(s) /\ s \in [1..Len(s) -> Ids]
  BY <1>1, LenProperties
<1>3. \A i \in 1..Len(s) : s[i] \in W /\ s[i] \in Int
  BY <1>1, <1>2, DeviceNumbers DEF Elements, Ids
<1>4. s \in [1..Len(s) -> W]
  BY <1>2, <1>3
<1>5. ASSUME NEW i \in 1..Len(s), NEW j \in 1..Len(s), s[i] = s[j] PROVE i = j
  <2>1. i < j => s[i] < s[j]
    BY <1>1, <1>2 DEF Ascending
  <2>2. j < i => s[j] < s[i]
    BY <1>1, <1>2 DEF Ascending
  <2> QED
    BY <1>2, <1>3, <1>5, <2>1, <2>2
<1>6. s \in Injection(1..Len(s), W)
  BY <1>4, <1>5 DEF Injection, IsInjective
<1>7. Cardinality(1..Len(s)) <= Cardinality(W)
  BY <1>6, FS_Injection
<1>8. Cardinality(1..Len(s)) = Len(s)
  <2>1. 1 \in Int /\ Len(s) \in Int
    BY <1>2
  <2>2. Cardinality(1..Len(s)) = IF 1 > Len(s) THEN 0 ELSE Len(s) - 1 + 1
    BY <2>1, FS_Interval
  <2> QED
    BY <1>2, <2>2
<1> QED
  BY <1>2, <1>7, <1>8, FS_CardinalityType

LEMMA WantedIsFinite ==
  ASSUME CallTypeOK, call.kind # "single"
  PROVE  /\ IsFiniteSet(Wanted) /\ Cardinality(Wanted) \in Nat
         /\ Cardinality(Wanted) <= IF call.start > LastId(call.kind) THEN 0 ELSE LastId(call.kind) - call.start + 1
<1>1. call.start \in Int /\ LastId(call.kind) \in Int
  BY WantedAreIds
<1>2. Wanted \subseteq call.start..LastId(call.kind)
  BY DEF Wanted
<1>3. /\ IsFiniteSet(call.start..LastId(call.kind))
      /\ Cardinality(call.start..LastId(call.kind))
           = IF call.start > LastId(call.kind) THEN 0 ELSE LastId(call.kind) - call.start + 1
  BY <1>1, FS_Interval
<1>4. IsFiniteSet(Wanted) /\ Cardinality(Wanted) <= Cardinality(call.start..LastId(call.kind))
  BY <1>2, <1>3, FS_Subset, Zenon
<1>5. Cardinality(Wanted) \in Nat
  BY <1>4, FS_CardinalityType
<1> QED
  BY <1>3, <1>4, <1>5, Zenon

LEMMA IdNumbers ==
  ASSUME CallTypeOK
  PROVE  next \in Int /\ id \in Int /\ call.start \in Int /\ next >= 0
<1>1. next \in Ids /\ id \in 0..(ExtendedLast + 1) /\ call.start \in Ids
  BY KindOfCall DEF CallTypeOK
<1> QED
  BY <1>1, DeviceNumbers DEF Ids

LEMMA IdOfPage ==
  ASSUME CallTypeOK, call.kind # "single", id <= LastId(call.kind)
  PROVE  id \in Ids
<1>1. id \in 0..(ExtendedLast + 1) /\ LastId(call.kind) \in Ids
  BY WantedAreIds DEF CallTypeOK
<1> QED
  BY <1>1, DeviceNumbers DEF Ids

\* The objects of the pages so far are not more than are wanted.
LEMMA PagesAreShort ==
  ASSUME DeviceInv, pc = "answered", call.kind # "single"
  PROVE  /\ Len(got) + Len(page) <= Cardinality(Wanted)
         /\ Len(got) \in Nat /\ Len(page) \in Nat
         /\ call.kind = "basic" => Cardinality(Wanted) <= BasicLast + 1
         /\ call.kind = "regular" => Cardinality(Wanted) <= RegularLast - BasicLast
<1>1. CallTypeOK /\ InCall /\ InAnswer
  BY DEF DeviceInv
<1>2. /\ Shaped /\ Listed(got, Below(Wanted, next)) /\ next <= id
      /\ Listed(page, From(Wanted, next, id))
  BY <1>1 DEF InCall, InAnswer
<1>3. Wanted \in SUBSET Int /\ next \in Int /\ id \in Int
  BY <1>1, WantedAreIds, IdNumbers
<1>4. Listed(got \o page, Below(Wanted, next) \cup From(Wanted, next, id))
  BY <1>2, <1>3, PageJoins, ListsJoin
<1>5. Below(Wanted, next) \cup From(Wanted, next, id) \subseteq Wanted
  BY DEF Below, From
<1>6. Len(got \o page) <= Cardinality(Wanted)
  BY <1>1, <1>4, <1>5, ListIsShort, WantedIsFinite
<1>7. Len(got \o page) = Len(got) + Len(page) /\ Len(got) \in Nat /\ Len(page) \in Nat
  BY <1>2, ConcatProperties, LenProperties DEF Listed
<1>8. call.kind = "basic" => Cardinality(Wanted) <= BasicLast + 1
  <2> SUFFICES ASSUME call.kind = "basic" PROVE Cardinality(Wanted) <= BasicLast + 1
    OBVIOUS
  <2>1. call.start = 0 /\ LastId(call.kind) = BasicLast
    BY <1>2, LastIdOf DEF Shaped
  <2> QED
    BY <1>1, <2>1, WantedIsFinite, DeviceNumbers
<1>9. call.kind = "regular" => Cardinality(Wanted) <= RegularLast - BasicLast
  <2> SUFFICES ASSUME call.kind = "regular" PROVE Cardinality(Wanted) <= RegularLast - BasicLast
    OBVIOUS
  <2>1. call.start = BasicLast + 1 /\ LastId(call.kind) = RegularLast
    BY <1>2, LastIdOf DEF Shaped
  <2>2. Cardinality(Wanted) <= IF BasicLast + 1 > RegularLast THEN 0 ELSE RegularLast - (BasicLast + 1) + 1
    BY <1>1, <2>1, WantedIsFinite
  <2> QED
    BY <2>2, DeviceNumbers
<1> QED
  BY <1>6, <1>7, <1>8, <1>9

LEMMA CountNumbers ==
  CallTypeOK => call.ids_length \in Nat /\ call.ids_length < CountMod /\ CountMod \in Nat
<1> SUFFICES ASSUME CallTypeOK
             PROVE  call.ids_length \in Nat /\ call.ids_length < CountMod /\ CountMod \in Nat
  OBVIOUS
<1>1. call.ids_length \in IdsLengths \cup {0}
  BY DEF CallTypeOK, CallTypes
<1>2. CountMod \in Nat /\ ExtendedLast - ExtendedFirst + 1 < CountMod /\ IdsLengths \subseteq 0..(CountMod - 1)
  BY DeviceAssumption
<1>3. 0 < CountMod
  BY <1>2, DeviceNumbers
<1>4. CASE call.ids_length \in IdsLengths
  <2>1. call.ids_length \in 0..(CountMod - 1)
    BY <1>2, <1>4
  <2> QED
    BY <1>2, <2>1
<1>5. CASE call.ids_length = 0
  BY <1>2, <1>3, <1>5
<1> QED
  BY <1>1, <1>4, <1>5

LEMMA SmallRemainder ==
  ASSUME NEW n \in Nat, NEW x \in Nat, x < n
  PROVE  x % n = x
OBVIOUS

\* As long as the pages fit the ids array, the uint8_t is the number of buffers left.
LEMMA BuffersLeft ==
  ASSUME CallTypeOK, call.kind = "extended", Len(got) <= call.ids_length
  PROVE  buffers_count = call.ids_length - Len(got)
<1>1. call.ids_length \in Nat /\ call.ids_length < CountMod /\ CountMod \in Nat
  BY CountNumbers
<1>2. Len(got) \in Nat
  BY LenProperties DEF CallTypeOK
<1>3. PICK x \in Nat : x = call.ids_length - Len(got) /\ x < CountMod
  BY <1>1, <1>2
<1>4. buffers_count = (call.ids_length - Len(got)) % CountMod
  BY DEF buffers_count
<1> QED
  BY <1>1, <1>3, <1>4, SmallRemainder

LEMMA SufficesStays ==
  ASSUME UNCHANGED <<objects, call>>
  PROVE  Suffices' <=> Suffices
<1>1. Wanted' = Wanted
  BY WantedStays
<1> QED
  BY <1>1 DEF Suffices

LEMMA WantedSingle ==
  ASSUME CallTypeOK, call.kind = "single"
  PROVE  Has(call.start) => Wanted = {call.start}
<1>1. call.start \in Int
  <2>1. call.start \in Ids
    BY KindOfCall DEF CallTypeOK
  <2> QED
    BY <2>1, DeviceNumbers DEF Ids
<1>2. call.start..call.start = {call.start}
  BY <1>1
<1>3. Wanted = {i \in call.start..call.start : Has(i)}
  BY DEF Wanted
<1> QED
  BY <1>2, <1>3

LEMMA PageIsWanted ==
  ASSUME DeviceInv, pc = "answered", NEW i \in DOMAIN page
  PROVE  page[i] \in Wanted
<1>1. CallTypeOK /\ InAnswer
  BY DEF DeviceInv
<1>2. CASE call.kind = "single"
  <2>1. page = <<call.start>> /\ Has(call.start)
    BY <1>1, <1>2 DEF InAnswer
  <2>2. page[i] = call.start
    BY <2>1
  <2> QED
    BY <1>1, <1>2, <2>1, <2>2, WantedSingle
<1>3. CASE call.kind # "single"
  <2>1. Elements(page) = From(Wanted, next, id)
    BY <1>1, <1>3 DEF InAnswer, Listed
  <2> QED
    BY <2>1 DEF From, Elements
<1> QED
  BY <1>2, <1>3

StoreInv ==
  /\ values \in Seq(Ids) /\ overrun \in BOOLEAN
  /\ overrun => ~Suffices
  /\ ~overrun => values = got
  /\ ~overrun /\ call.kind = "extended" => Len(got) <= call.ids_length

\* A store outside the arrays means that they do not suffice.
LEMMA OutOfBoundsHasCause ==
  ASSUME DeviceInv, pc = "answered", OutOfBounds
  PROVE  ~Suffices
<1>1. CASE call.kind = "extended" /\ Len(got) + Len(page) > call.ids_length
  <2>1. /\ Len(got) + Len(page) <= Cardinality(Wanted)
        /\ Len(got) \in Nat /\ Len(page) \in Nat
    BY <1>1, PagesAreShort
  <2>2. CallTypeOK
    BY DEF DeviceInv
  <2>3. Cardinality(Wanted) \in Nat /\ call.ids_length \in Nat
    BY <1>1, <2>2, WantedIsFinite, CountNumbers
  <2>4. ~(Cardinality(Wanted) <= call.ids_length)
    BY <1>1, <2>1, <2>3
  <2> QED
    BY <1>1, <2>4 DEF Suffices
<1>2. CASE \E i \in DOMAIN page : objects[page[i]] >= call.buffer_length
  <2>1. PICK i \in DOMAIN page : objects[page[i]] >= call.buffer_length
    BY <1>2
  <2>2. page[i] \in Wanted
    BY PageIsWanted
  <2>3. objects[page[i]] \in Int /\ call.buffer_length \in Int
    <3>1. call.buffer_length \in BufferLengths
      BY DEF DeviceInv, CallTypeOK, CallTypes
    <3>2. page[i] \in Ids /\ Has(page[i])
      <4>1. Has(page[i])
        BY <2>2 DEF Wanted
      <4>2. page \in Seq(Ids)
        BY DEF DeviceInv, CallTypeOK
      <4> QED
        BY <4>1, <4>2, LenProperties
    <3>3. objects[page[i]] \in Lengths
      BY <3>2 DEF DeviceInv, CallTypeOK, Has
    <3>4. BufferLengths \subseteq Nat
      BY DeviceAssumption
    <3>5. objects[page[i]] \in Nat
      BY <3>3, RoomNumbers
    <3>6. call.buffer_length \in Nat
      BY <3>1, <3>4
    <3> QED
      BY <3>5, <3>6
  <2>4. ~(objects[page[i]] < call.buffer_length)
    BY <2>1, <2>3
  <2> QED
    BY <2>2, <2>4 DEF Suffices
<1> QED
  BY <1>1, <1>2 DEF OutOfBounds

LEMMA TakePageStores ==
  ASSUME DeviceInv, StoreInv, TakePage
  PROVE  StoreInv'
<1>1. CallTypeOK /\ pc = "answered" /\ UNCHANGED <<objects, call>>
  BY DEF DeviceInv, TakePage
<1>2. Suffices' <=> Suffices
  BY <1>1, SufficesStays
<1>3. /\ got \in Seq(Ids) /\ page \in Seq(Ids) /\ values \in Seq(Ids) /\ overrun \in BOOLEAN
      /\ Len(got) \in Nat /\ Len(page) \in Nat
  BY <1>1, LenProperties DEF StoreInv, CallTypeOK
<1>4. CASE UNCHANGED stored
  BY <1>1, <1>2, <1>4 DEF StoreInv, stored
<1>5. CASE /\ got' = got \o page
           /\ values' = IF buffers_count = 0 THEN values ELSE values \o page
           /\ overrun' = (overrun \/ OutOfBounds)
  <2>1. values' \in Seq(Ids) /\ overrun' \in BOOLEAN
    <3>1. values \o page \in Seq(Ids)
      BY <1>3, ConcatProperties
    <3>2. values' \in Seq(Ids)
      BY <1>3, <1>5, <3>1
    <3>3. overrun' \in BOOLEAN
      BY <1>5, Zenon
    <3> QED
      BY <3>2, <3>3
  <2>2. overrun' => ~Suffices'
    <3>1. overrun => ~Suffices
      BY DEF StoreInv
    <3>2. OutOfBounds => ~Suffices
      BY <1>1, OutOfBoundsHasCause
    <3> QED
      BY <1>2, <1>5, <3>1, <3>2
  <2>3. ASSUME ~overrun'
        PROVE  values' = got' /\ (call'.kind = "extended" => Len(got') <= call'.ids_length)
    <3>1. ~overrun /\ ~OutOfBounds
      BY <1>5, <2>3
    <3>2. values = got /\ (call.kind = "extended" => Len(got) <= call.ids_length)
      BY <3>1 DEF StoreInv
    <3>3. Len(got') = Len(got) + Len(page)
      BY <1>3, <1>5, ConcatProperties
    <3>4. call.kind = "extended" =>
            /\ page = <<>> \/ Len(got) + Len(page) <= call.ids_length
            /\ call.ids_length \in Nat
      BY <1>1, <1>3, <3>1, CountNumbers DEF OutOfBounds
    <3>5. page = <<>> => Len(page) = 0 /\ got \o page = got
      BY <1>3, ConcatEmptySeq, EmptySeq
    <3>6. call.kind = "extended" => Len(got') <= call.ids_length
      BY <1>3, <3>2, <3>3, <3>4, <3>5
    <3>7. buffers_count = 0 => page = <<>>
      <4> SUFFICES ASSUME buffers_count = 0 PROVE page = <<>>
        OBVIOUS
      <4>1. call.kind \in {"basic", "regular", "extended", "single"}
        BY <1>1, KindOfCall DEF CallTypeOK, Kinds
      <4>2. call.kind = "extended"
        <5>1. call.kind # "basic"
          BY DeviceNumbers DEF buffers_count
        <5>2. call.kind # "regular"
          <6> SUFFICES ASSUME call.kind = "regular" PROVE FALSE
            OBVIOUS
          <6>1. buffers_count = RegularLast - BasicLast
            BY DEF buffers_count
          <6> QED
            BY <6>1, DeviceNumbers
        <5>3. call.kind # "single"
          <6> SUFFICES ASSUME call.kind = "single" PROVE FALSE
            OBVIOUS
          <6>1. buffers_count = 1
            BY DEF buffers_count
          <6> QED
            BY <6>1
        <5> QED
          BY <4>1, <5>1, <5>2, <5>3
      <4>3. buffers_count = call.ids_length - Len(got)
        BY <1>1, <3>2, <4>2, BuffersLeft
      <4>4. page = <<>> \/ Len(page) = 0
        BY <1>3, <3>4, <4>2, <4>3
      <4> QED
        BY <1>3, <4>4, EmptySeq
    <3>8. values' = got'
      BY <1>5, <3>2, <3>5, <3>7
    <3> QED
      BY <1>1, <3>6, <3>8
  <2> QED
    BY <2>1, <2>2, <2>3 DEF StoreInv
<1> QED
  BY <1>4, <1>5 DEF TakePage, stored

\* What was received is stored, or the arrays do not suffice.
THEOREM StoreInvariance == DeviceSpec => []StoreInv
<1>1. DeviceInit => StoreInv
  <2> SUFFICES ASSUME DeviceInit PROVE StoreInv
    OBVIOUS
  <2>1. values = <<>> /\ got = <<>> /\ overrun = FALSE /\ call \in BasicCalls
    BY DEF DeviceInit
  <2>2. call.kind = "basic"
    BY <2>1 DEF BasicCalls
  <2>3. values \in Seq(Ids)
    BY <2>1
  <2> QED
    BY <2>1, <2>2, <2>3 DEF StoreInv
<1>2. DeviceInv /\ DeviceInv' /\ StoreInv /\ [DeviceNext]_deviceVars => StoreInv'
  <2> SUFFICES ASSUME DeviceInv, DeviceInv', StoreInv, [DeviceNext]_deviceVars PROVE StoreInv'
    OBVIOUS
  <2>1. CASE TakePage
    BY <2>1, TakePageStores
  <2>2. CASE \E c \in DeviceCalls : Begin(c)
    <3>1. values' = <<>> /\ got' = <<>> /\ overrun' = FALSE
      BY <2>2 DEF Begin
    <3>2. (call.ids_length \in Nat)'
      <4>1. (CallTypeOK => call.ids_length \in Nat /\ call.ids_length < CountMod /\ CountMod \in Nat)'
        BY CountNumbers, PTL
      <4> QED
        BY <4>1 DEF DeviceInv
    <3>3. values' \in Seq(Ids) /\ values' = got'
      BY <3>1
    <3>4. (Len(got) <= call.ids_length)'
      <4>1. Len(got') = 0
        BY <3>1
      <4> QED
        BY <3>2, <4>1
    <3>5. (overrun \in BOOLEAN)' /\ ~overrun'
      BY <3>1
    <3> QED
      BY <3>3, <3>4, <3>5 DEF StoreInv
  <2>3. CASE UNCHANGED <<stored, objects, call>>
    <3>1. Suffices' <=> Suffices
      BY <2>3, SufficesStays
    <3> QED
      BY <2>3, <3>1 DEF StoreInv, stored
  <2>4. \/ TakePage \/ (\E c \in DeviceCalls : Begin(c)) \/ UNCHANGED <<stored, objects, call>>
    BY DEF DeviceNext, DeviceStep, deviceVars, TakeException, Timeout, Crash,
           CallbackFails, HandleBroadcast, Handle, PageStep, PageEnds
  <2> QED
    BY <2>1, <2>2, <2>3, <2>4
<1> QED
  BY <1>1, <1>2, DeviceInvariance, PTL DEF DeviceSpec

\* The type invariant holds for every numbering, room and length of the objects.
THEOREM DeviceTypes == DeviceSpec => []DeviceTypeOK
<1>1. DeviceInv /\ StoreInv => DeviceTypeOK
  BY DEF DeviceInv, StoreInv, CallTypeOK, DeviceTypeOK
<1> QED
  BY <1>1, DeviceInvariance, StoreInvariance, PTL

\* Nothing is stored outside arrays that suffice; however the objects spread over pages,
\* a call that returns NMBS_ERROR_NONE and stored nothing outside its arrays has the
\* id and the value of each of the wanted ones in them, once and in order.
THEOREM ReadsAreComplete == DeviceSpec => []ReadIsComplete
<1>1. DeviceInv /\ StoreInv => ReadIsComplete
  <2> SUFFICES ASSUME DeviceInv, StoreInv, pc = "idle", err = "NONE", ~overrun
               PROVE  /\ Ascending(got) /\ Elements(got) = Wanted /\ values = got
                      /\ call.kind = "single" => Wanted # {}
    BY DEF ReadIsComplete, StoreInv
  <2>1. Received /\ CallTypeOK /\ values = got
    BY DEF DeviceInv, StoreInv
  <2>2. CASE call.kind = "single"
    <3>1. got = <<call.start>> /\ Wanted = {call.start}
      BY <2>1, <2>2, WantedSingle DEF Received
    <3>2. Ascending(got) /\ Elements(got) = {call.start}
      BY <3>1 DEF Ascending, Elements
    <3> QED
      BY <2>1, <3>1, <3>2
  <2>3. CASE call.kind # "single"
    BY <2>1, <2>3 DEF Received
  <2> QED
    BY <2>2, <2>3
<1> QED
  BY <1>1, DeviceInvariance, StoreInvariance, PTL

-----------------------------------------------------------------------------
(***************************************************************************)
(* The causes of errors                                                    *)
(***************************************************************************)
ExceptionCause ==
  \/ call.kind = "basic" /\ \E i \in 0..BasicLast : ~Has(i)
  \/ call.kind = "single" /\ ~Has(call.start)

\* A page begins with an object the device has, but for the first one; a page that
\* holds nothing has all its room; no basic object was passed over.
Causes ==
  /\ pc = "refused" /\ ~fault => ExceptionCause
  /\ pc = "unanswered" => call.broadcast
  /\ pc # "idle" /\ call.kind # "single" => next = call.start \/ Has(next)
  /\ pc \in {"paging", "answered"} /\ call.kind # "single" =>
       /\ page = <<>> => ~more /\ left = Room
       /\ call.kind = "basic" => \A i \in next..(id - 1) : Has(i)
       /\ pc = "answered" /\ more => Has(id)

CauseInv == DeviceInv /\ StoreInv /\ ErrorHasCause /\ Causes

LEMMA EmptyIsNothing ==
  ASSUME NEW S, Listed(<<>>, S)
  PROVE  S = {}
BY DEF Listed, Elements

\* An empty page means that nothing is wanted, and it is not a basic one.
LEMMA EmptyPage ==
  ASSUME CauseInv, pc = "answered", page = <<>>, call.kind \in {"basic", "regular"}
  PROVE  call.kind = "regular" /\ Wanted = {}
<1>1. CallTypeOK /\ InCall /\ InAnswer /\ Causes
  BY DEF CauseInv, DeviceInv
<1>2. /\ Shaped /\ call.start <= next /\ next <= LastId(call.kind)
      /\ next = call.start \/ Has(next)
      /\ ~more /\ id = LastId(call.kind) + 1
      /\ Listed(page, From(Wanted, next, id))
      /\ call.kind = "basic" => \A i \in next..(id - 1) : Has(i)
  BY <1>1 DEF InCall, InAnswer, Causes
<1>3. From(Wanted, next, id) = {}
  BY <1>2, EmptyIsNothing
<1>4. /\ next \in Int /\ id \in Int /\ call.start \in Int /\ Wanted \in SUBSET Int
      /\ LastId(call.kind) \in Int /\ \A i \in Wanted : call.start <= i /\ i <= LastId(call.kind)
  BY <1>1, IdNumbers, WantedAreIds
<1>5. ~Has(next)
  <2> SUFFICES ASSUME Has(next) PROVE FALSE
    OBVIOUS
  <2>1. next \in Wanted
    BY <1>1, <1>2, <1>4, WantedHas
  <2>2. next <= next /\ next < id
    BY <1>2, <1>4
  <2> QED
    BY <1>3, <2>1, <2>2 DEF From
<1>6. call.kind # "basic"
  <2>1. next \in next..(id - 1)
    BY <1>2, <1>4
  <2> QED
    BY <1>2, <1>5, <2>1
<1>7. Wanted = {}
  <2> SUFFICES ASSUME NEW i \in Wanted PROVE FALSE
    OBVIOUS
  <2>1. next <= i /\ i < id
    BY <1>2, <1>4, <1>5
  <2> QED
    BY <1>3, <2>1 DEF From
<1> QED
  BY <1>6, <1>7

-----------------------------------------------------------------------------
LEMMA BeginCause ==
  ASSUME CauseInv, NEW c \in DeviceCalls, Begin(c)
  PROVE  ErrorHasCause' /\ Causes'
<1>1. /\ call' = c /\ next' = c.start
      /\ \/ Valid(c) /\ pc' = "asked" /\ err' = "no call"
         \/ ~Valid(c) /\ pc' = "idle" /\ err' = "INVALID_ARGUMENT"
  BY DEF Begin, Returns
<1>2. Valid(c)' <=> Valid(c)
  BY Zenon DEF Valid
<1>3. ErrorHasCause'
  BY <1>1, <1>2 DEF ErrorHasCause
<1>4. Causes'
  BY <1>1 DEF Causes
<1> QED
  BY <1>3, <1>4

LEMMA HandleCause ==
  ASSUME CauseInv, Handle
  PROVE  ErrorHasCause' /\ Causes'
<1>1. CallTypeOK /\ InCall /\ pc = "asked" /\ UNCHANGED <<objects, call, next, got, err, fault>>
  BY DEF CauseInv, DeviceInv, Handle, stored
<1>2. call.kind # "single" => next = call.start \/ Has(next)
  BY <1>1 DEF CauseInv, Causes
<1>3. CASE call.kind = "single"
  <2>1. (pc' = "answered") \/ (pc' = "refused" /\ ~Has(call.start))
    BY <1>1, <1>3 DEF Handle, Refuse, InCall
  <2> QED
    BY <1>1, <1>3, <2>1 DEF ErrorHasCause, Causes, ExceptionCause, Has
<1>4. CASE call.kind # "single"
  <2>1. next \in FirstId(call.kind)..LastId(call.kind)
    <3>1. call.kind \in {"basic", "regular", "extended"} /\ Shaped
          /\ call.start <= next /\ next <= LastId(call.kind)
      BY <1>1, <1>4, KindOfCall DEF InCall, CallTypeOK, Kinds
    <3>2. FirstId(call.kind) <= call.start /\ FirstId(call.kind) \in Int /\ LastId(call.kind) \in Int
      BY <3>1, LastIdOf, DeviceNumbers DEF Shaped, Ids
    <3> QED
      BY <1>1, <3>1, <3>2, IdNumbers
  <2>2. pc' = "paging" /\ id' = next /\ left' = Room /\ page' = <<>> /\ more' = FALSE
    BY <1>4, <2>1 DEF Handle
  <2>3. \A i \in next..(next - 1) : FALSE
    BY <1>1, IdNumbers
  <2>4. Causes'
    BY <1>1, <1>2, <2>2, <2>3 DEF Causes, Has
  <2>5. ErrorHasCause'
    BY <2>2 DEF ErrorHasCause
  <2> QED
    BY <2>4, <2>5
<1> QED
  BY <1>3, <1>4

LEMMA PageStepCause ==
  ASSUME CauseInv, PageStep
  PROVE  ErrorHasCause' /\ Causes'
<1>1. /\ CallTypeOK /\ InCall /\ InPage /\ pc = "paging" /\ id <= LastId(call.kind)
      /\ UNCHANGED <<objects, call, next, got, err, fault>>
  BY DEF CauseInv, DeviceInv, PageStep, stored
<1>2. /\ call.kind # "single" /\ ~more /\ next <= id /\ Shaped /\ call.start <= next
  BY <1>1 DEF InPage, InCall
<1>3. /\ next = call.start \/ Has(next)
      /\ page = <<>> => left = Room
      /\ call.kind = "basic" => \A i \in next..(id - 1) : Has(i)
  BY <1>1, <1>2 DEF CauseInv, Causes
<1>4. next \in Int /\ id \in Int /\ call.start \in Int /\ next >= 0
  BY <1>1, IdNumbers
<1>5. pc' # "idle" => ErrorHasCause'
  BY DEF ErrorHasCause
<1>6. CASE ~Has(id) /\ id <= BasicLast /\ Refuse
  <2>1. pc' = "refused"
    BY <1>6 DEF Refuse
  <2>2. call.kind = "basic"
    <3>1. call.start <= BasicLast
      BY <1>2, <1>4, <1>6, DeviceNumbers
    <3>2. call.kind \in {"basic", "regular", "extended"}
      BY <1>1, <1>2, KindOfCall DEF CallTypeOK, Kinds
    <3> QED
      BY <1>2, <1>4, <3>1, <3>2, DeviceNumbers DEF Shaped
  <2>3. id \in 0..BasicLast
    BY <1>2, <1>4, <1>6, DeviceNumbers
  <2> QED
    BY <1>1, <1>2, <1>3, <1>5, <1>6, <2>1, <2>2, <2>3 DEF Causes, ExceptionCause, Has
<1>7. CASE ~Has(id) /\ id > BasicLast /\ id' = id + 1 /\ UNCHANGED <<pc, left, size, page, more>>
  <2>1. call.kind # "basic"
    BY <1>1, <1>4, <1>7, LastIdOf, DeviceNumbers
  <2> QED
    BY <1>1, <1>2, <1>3, <1>5, <1>7, <2>1 DEF Causes, Has
<1>8. CASE Has(id) /\ page' = Append(page, id) /\ id' = id + 1 /\ UNCHANGED <<pc, more>>
  <2>1. page' # <<>>
    <3>1. page \in Seq(Ids) /\ id \in Ids
      BY <1>1, <1>2, IdOfPage DEF CallTypeOK
    <3>2. Len(page') = Len(page) + 1 /\ Len(page) \in Nat
      BY <1>8, <3>1, AppendProperties, LenProperties
    <3>3. Len(page') # 0
      BY <3>2
    <3> QED
      BY <3>3, EmptySeq
  <2>2. \A i \in next..(id' - 1) : i \in next..(id - 1) \/ i = id
    BY <1>4, <1>8
  <2> QED
    BY <1>1, <1>2, <1>3, <1>5, <1>8, <2>1, <2>2 DEF Causes, Has
<1>9. CASE Has(id) /\ ~Fits(id) /\ pc' = "answered" /\ more' = TRUE /\ UNCHANGED <<id, left, size, page>>
  <2>1. page # <<>>
    <3> SUFFICES ASSUME left = Room PROVE FALSE
      BY <1>3
    <3>1. id \in Ids
      BY <1>1, <1>2, IdOfPage
    <3>2. objects[id] \in Lengths
      BY <1>1, <1>9, <3>1 DEF CallTypeOK, Has
    <3>3. Room - 2 - objects[id] >= 0
      BY <3>2, RoomNumbers
    <3> QED
      BY <1>9, <3>3 DEF Fits, Left
  <2> QED
    BY <1>1, <1>2, <1>3, <1>5, <1>9, <2>1 DEF Causes, Has
<1> QED
  BY <1>6, <1>7, <1>8, <1>9 DEF PageStep

LEMMA TakePageCause ==
  ASSUME CauseInv, TakePage
  PROVE  ErrorHasCause' /\ Causes'
<1>1. /\ CallTypeOK /\ DeviceInv /\ InCall /\ InAnswer /\ pc = "answered"
      /\ UNCHANGED <<objects, call, fault>>
  BY DEF CauseInv, DeviceInv, TakePage
<1>2. Wanted' = Wanted
  BY <1>1, WantedStays
<1>3. CASE Overfull /\ pc' = "idle" /\ err' = "INVALID_ARGUMENT"
  <2>1. call.kind = "extended" /\ Cardinality(Wanted) > call.ids_length
    <3>1. call.kind # "single"
      <4> SUFFICES ASSUME call.kind = "single" PROVE FALSE
        OBVIOUS
      <4>1. page = <<call.start>> /\ buffers_count = 1
        BY <1>1 DEF InAnswer, buffers_count
      <4>2. Len(page) = 1
        BY <4>1
      <4> QED
        BY <1>3, <4>1, <4>2 DEF Overfull
    <3>2. /\ Len(got) + Len(page) <= Cardinality(Wanted)
          /\ Len(got) \in Nat /\ Len(page) \in Nat /\ Cardinality(Wanted) \in Nat
          /\ call.kind = "basic" => Cardinality(Wanted) <= BasicLast + 1
          /\ call.kind = "regular" => Cardinality(Wanted) <= RegularLast - BasicLast
      BY <1>1, <3>1, PagesAreShort, WantedIsFinite
    <3>3. Len(page) > buffers_count
      BY <1>3 DEF Overfull
    <3>4. call.kind # "basic"
      <4> SUFFICES ASSUME call.kind = "basic" PROVE FALSE
        OBVIOUS
      <4>1. buffers_count = BasicLast + 1
        BY DEF buffers_count
      <4> QED
        BY <3>2, <3>3, <4>1, DeviceNumbers
    <3>5. call.kind # "regular"
      <4> SUFFICES ASSUME call.kind = "regular" PROVE FALSE
        OBVIOUS
      <4>1. buffers_count = RegularLast - BasicLast
        BY DEF buffers_count
      <4> QED
        BY <3>2, <3>3, <4>1, DeviceNumbers
    <3>6. call.kind = "extended"
      BY <1>1, <3>1, <3>4, <3>5, KindOfCall DEF CallTypeOK, Kinds
    <3>7. Len(got) <= call.ids_length => buffers_count = call.ids_length - Len(got)
      BY <1>1, <3>2, <3>6, BuffersLeft
    <3>8. call.ids_length \in Nat
      BY <1>1, CountNumbers
    <3> QED
      BY <3>2, <3>3, <3>6, <3>7, <3>8
  <2> QED
    BY <1>1, <1>2, <1>3, <2>1 DEF ErrorHasCause, Causes
<1>4. CASE Unexpected /\ pc' = "idle" /\ err' = "INVALID_RESPONSE"
  <2>1. call.kind \in {"basic", "regular"}
    BY <1>4 DEF Unexpected
  <2>2. page = <<>>
    <3> SUFFICES ASSUME Len(got) + Len(page) > buffers_count PROVE FALSE
      BY <1>4 DEF Unexpected
    <3>1. /\ Len(got) + Len(page) <= Cardinality(Wanted)
          /\ Len(got) \in Nat /\ Len(page) \in Nat /\ Cardinality(Wanted) \in Nat
          /\ call.kind = "basic" => Cardinality(Wanted) <= BasicLast + 1
          /\ call.kind = "regular" => Cardinality(Wanted) <= RegularLast - BasicLast
      BY <1>1, <2>1, PagesAreShort, WantedIsFinite
    <3>2. Cardinality(Wanted) <= buffers_count /\ buffers_count \in Int
      <4>1. CASE call.kind = "basic"
        BY <3>1, <4>1, DeviceNumbers DEF buffers_count
      <4>2. CASE call.kind = "regular"
        BY <3>1, <4>2, DeviceNumbers DEF buffers_count
      <4> QED
        BY <2>1, <4>1, <4>2
    <3> QED
      BY <3>1, <3>2
  <2>3. call.kind = "regular" /\ Wanted = {}
    BY <1>1, <2>1, <2>2, EmptyPage
  <2> QED
    BY <1>1, <1>2, <1>4, <2>3 DEF ErrorHasCause, Causes
<1>5. CASE ~Overfull /\ more /\ next' = id /\ pc' = "asked"
  <2>1. call.kind # "single" => Has(id)
    BY <1>1, <1>5 DEF CauseInv, Causes
  <2> QED
    BY <1>1, <1>5, <2>1 DEF ErrorHasCause, Causes, Has
<1>6. CASE pc' = "idle" /\ err' = "NONE"
  BY <1>6 DEF ErrorHasCause, Causes
<1> QED
  BY <1>3, <1>4, <1>5, <1>6 DEF TakePage, Returns, NextId

LEMMA OtherCauses ==
  ASSUME CauseInv, TakeException \/ Timeout \/ Crash \/ CallbackFails \/ HandleBroadcast \/ PageEnds
  PROVE  ErrorHasCause' /\ Causes'
<1>1. CASE TakeException
  <2>1. pc = "refused" /\ pc' = "idle" /\ err' = "exception" /\ UNCHANGED <<objects, call, fault>>
    BY <1>1 DEF TakeException, Returns
  <2>2. ~fault => ExceptionCause
    BY <2>1 DEF CauseInv, Causes
  <2> QED
    BY <2>1, <2>2 DEF ErrorHasCause, Causes, ExceptionCause, Has
<1>2. CASE Timeout
  <2>1. /\ pc' = "idle" /\ err' = "TIMEOUT" /\ call' = call
        /\ ~fault' => pc = "unanswered"
    BY <1>2, Zenon DEF Timeout, Returns
  <2>2. pc = "unanswered" => call.broadcast
    BY DEF CauseInv, Causes
  <2> QED
    BY <2>1, <2>2 DEF ErrorHasCause, Causes
<1>5. CASE Crash
  <2>1. pc' = "idle" /\ err' = "crash" /\ overrun /\ UNCHANGED <<objects, call>>
    BY <1>5 DEF Crash, Returns
  <2>2. ~Suffices'
    BY <2>1, SufficesStays DEF CauseInv, StoreInv
  <2> QED
    BY <2>1, <2>2 DEF ErrorHasCause, Causes
<1>6. CASE HandleBroadcast
  BY <1>6 DEF HandleBroadcast, stored, ErrorHasCause, Causes, CauseInv, Has
<1>3. CASE CallbackFails
  BY <1>3 DEF CallbackFails, Refuse, stored, ErrorHasCause, Causes, CauseInv, Has
<1>4. CASE PageEnds
  <2>1. pc = "paging" /\ pc' = "answered" /\ UNCHANGED <<objects, call, next, got, id, left, size, page, more, err, fault>>
    BY <1>4 DEF PageEnds, stored
  <2>2. ~more
    BY <2>1 DEF CauseInv, DeviceInv, InPage
  <2> QED
    BY <2>1, <2>2 DEF ErrorHasCause, Causes, CauseInv, Has
<1> QED
  BY <1>1, <1>2, <1>3, <1>4, <1>5, <1>6

LEMMA CauseStays ==
  ASSUME CauseInv, UNCHANGED deviceVars
  PROVE  ErrorHasCause' /\ Causes'
<1>1. UNCHANGED <<objects, pc, call, next, got, id, left, size, page, more, err, fault>>
  BY DEF deviceVars, stored
<1>2. Wanted' = Wanted /\ (Valid(call)' <=> Valid(call)) /\ (Suffices' <=> Suffices)
  BY <1>1, WantedStays, SufficesStays DEF Valid
<1>3. ErrorHasCause'
  BY <1>1, <1>2 DEF CauseInv, ErrorHasCause, Has
<1>4. Causes'
  BY <1>1 DEF CauseInv, Causes, ExceptionCause, Has
<1> QED
  BY <1>3, <1>4

\* The invariant with what it says about failures.
THEOREM CauseInvariance == DeviceSpec => []CauseInv
<1>1. DeviceInit => ErrorHasCause /\ Causes
  BY DEF DeviceInit, ErrorHasCause, Causes
<1>2. CauseInv /\ [DeviceNext]_deviceVars => ErrorHasCause' /\ Causes'
  BY BeginCause, HandleCause, PageStepCause, TakePageCause, OtherCauses, CauseStays
     DEF DeviceNext, DeviceStep
<1>3. DeviceInv /\ StoreInv /\ ErrorHasCause /\ Causes <=> CauseInv
  BY DEF CauseInv
<1> QED
  BY <1>1, <1>2, <1>3, DeviceInvariance, StoreInvariance, PTL DEF DeviceSpec

\* Without failing callbacks and lost messages a call of a client function fails only when
\* a mandatory object is missing, the single one asked for is, there is no regular one at
\* all, or there are more extended ones than the caller has room for; only a call to the
\* broadcast address times out.
THEOREM ErrorsHaveCause == DeviceSpec => []ErrorHasCause
<1>1. CauseInv => ErrorHasCause
  BY DEF CauseInv
<1> QED
  BY <1>1, CauseInvariance, PTL

-----------------------------------------------------------------------------
(***************************************************************************)
(* The measure of a call                                                   *)
(***************************************************************************)
\* A page that is not the last one holds an object, so the next one starts later.
LEMMA MorePagesGoOn ==
  ASSUME CauseInv, pc = "answered", more
  PROVE  call.kind # "single" /\ next < id /\ id <= LastId(call.kind)
<1>1. CallTypeOK /\ InCall /\ InAnswer /\ Causes
  BY DEF CauseInv, DeviceInv
<1>2. call.kind # "single"
  BY <1>1 DEF InAnswer
<1>3. /\ next <= id /\ id <= LastId(call.kind) /\ page # <<>>
      /\ Listed(page, From(Wanted, next, id))
  BY <1>1, <1>2 DEF InAnswer, Causes
<1>4. next \in Int /\ id \in Int
  BY <1>1, IdNumbers
<1>5. next # id
  <2> SUFFICES ASSUME next = id PROVE FALSE
    OBVIOUS
  <2>1. Elements(page) = {} /\ page \in Seq(Ids)
    BY <1>1, <1>2, <1>3, <1>4, NothingFrom, WantedAreIds DEF Listed
  <2>2. Len(page) \in Nat \ {0} /\ DOMAIN page = 1..Len(page)
    BY <1>3, <2>1, EmptySeq, LenProperties
  <2>3. page[1] \in Elements(page)
    BY <2>2 DEF Elements
  <2> QED
    BY <2>1, <2>3
<1> QED
  BY <1>2, <1>3, <1>4, <1>5

\* Steps that leave next alone and go on to a later stage.
LEMMA LaterStage ==
  /\ Stage["asked"] < Stage["paging"] /\ Stage["asked"] < Stage["answered"]
  /\ Stage["asked"] < Stage["refused"] /\ Stage["paging"] < Stage["refused"]
  /\ Stage["paging"] < Stage["answered"] /\ Stage["asked"] < Stage["unanswered"]
BY DEF Stage

\* Every call asks for fewer and fewer objects until it returns, and the handler's
\* loop runs through each of them once.
THEOREM CallsAdvance == DeviceSpec => CallAdvances
<1> DEFINE Further == \/ pc' = "idle"
                      \/ pc' = "asked" /\ next < next' /\ next' <= LastId(call.kind)
                      \/ /\ next' = next
                         /\ \/ Stage[pc'] > Stage[pc]
                            \/ pc' = pc /\ id < id' /\ id <= LastId(call.kind)
<1>1. CauseInv /\ [DeviceNext]_deviceVars => [pc # "idle" => Further]_deviceVars
  <2> SUFFICES ASSUME CauseInv, DeviceNext, pc # "idle" PROVE Further
    OBVIOUS
  <2>1. CASE TakePage
    <3>1. pc = "answered"
      BY <2>1 DEF TakePage
    <3>2. CASE more /\ pc' = "asked" /\ next' = NextId
      BY <3>1, <3>2, MorePagesGoOn DEF NextId
    <3>3. pc' = "idle" \/ (more /\ pc' = "asked" /\ next' = NextId)
      BY <2>1 DEF TakePage, Returns
    <3> QED
      BY <3>2, <3>3
  <2>2. CASE TakeException \/ Timeout \/ Crash
    BY <2>2 DEF TakeException, Timeout, Crash, Returns
  <2>3. CASE CallbackFails
    <3>1. pc \in {"asked", "paging"} /\ pc' = "refused" /\ next' = next
      BY <2>3 DEF CallbackFails, Refuse
    <3> QED
      BY <3>1, LaterStage
  <2>4. CASE Handle \/ HandleBroadcast
    <3>1. pc = "asked" /\ pc' \in {"answered", "paging", "refused", "unanswered"} /\ next' = next
      BY <2>4 DEF Handle, HandleBroadcast, Refuse
    <3> QED
      BY <3>1, LaterStage
  <2>5. CASE PageStep
    <3>1. pc = "paging" /\ id <= LastId(call.kind) /\ next' = next
      BY <2>5 DEF PageStep
    <3>2. id \in Int
      BY IdNumbers DEF CauseInv, DeviceInv
    <3>3. CASE pc' = pc /\ id' = id + 1
      BY <3>1, <3>2, <3>3
    <3>4. CASE pc' \in {"answered", "refused"}
      BY <3>1, <3>4, LaterStage
    <3>5. (pc' = pc /\ id' = id + 1) \/ pc' \in {"answered", "refused"}
      BY <2>5 DEF PageStep, Refuse
    <3> QED
      BY <3>3, <3>4, <3>5
  <2>6. CASE PageEnds
    <3>1. pc = "paging" /\ pc' = "answered" /\ next' = next
      BY <2>6 DEF PageEnds
    <3> QED
      BY <3>1, LaterStage
  <2>7. CASE \E c \in DeviceCalls : Begin(c)
    BY <2>7 DEF Begin
  <2> QED
    BY <2>1, <2>2, <2>3, <2>4, <2>5, <2>6, <2>7 DEF DeviceNext, DeviceStep
<1> QED
  BY <1>1, CauseInvariance, PTL DEF DeviceSpec, CallAdvances
=============================================================================
