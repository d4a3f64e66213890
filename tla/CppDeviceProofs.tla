--------------------------- MODULE CppDeviceProofs ---------------------------
(***************************************************************************)
(* What is true of the CPP device server for any number of clients and     *)
(* areas, any widths of the integers, and whatever the clients ask for,    *)
(* also out of step:                                                       *)
(*                                                                         *)
(*   - the areas that it has listed do not overlap, except at the very top *)
(*     of the offsets, where the sum of offset and size is 0.  Only the    *)
(*     two ioctls touch the list; that one of them removes the area with   *)
(*     the offset it is given, whoever asked for it, does no harm here;    *)
(*   - it stops only after a client has closed its end, or on a read that  *)
(*     is too large;                                                       *)
(*   - it waits in the middle of a request only for a client that is       *)
(*     sending, or whose stream is out of step;                            *)
(*   - the streams are in step until a call is broken off.                 *)
(*                                                                         *)
(* The first rests on areas being pages (PagedList).  The second needs to  *)
(* know which sockets are open at both ends and where each client is in    *)
(* its call (BasicInv), the last two what lies on the streams at each of   *)
(* these places (StreamsInv).                                              *)
(***************************************************************************)
EXTENDS CppDevice, WellFoundedInduction, TLAPS


\* A page or nothing, at a page boundary.
Paged(a) == a.offset % 2 = 0 /\ a.size \in {0, 2}

PagedList == areas \in Seq(AreaRequest) /\ \A i \in DOMAIN areas : Paged(areas[i])

AreasInv == PagedList /\ AreasDisjoint

-----------------------------------------------------------------------------
\* Of the numbers of a set there is a first.
LEMMA HasFirst ==
    ASSUME NEW T, T \subseteq Nat, T # {}
    PROVE  \E i \in T : \A j \in T : i <= j
  <1> DEFINE R == {ss \in Nat \X Nat : ss[1] < ss[2]}
  <1>1. IsWellFoundedOn(R, Nat) BY NatLessThanWellFounded DEF OpToRel
  <1> HIDE DEF R
  <1>2. PICK i \in T : \A j \in T : ~ (<<j, i>> \in R) BY <1>1, WFMin
  <1>3. ASSUME NEW j \in T PROVE i <= j
    <2>1. i \in Nat /\ j \in Nat OBVIOUS
    <2>2. j < i => <<j, i>> \in R BY <2>1 DEF R
    <2> QED BY <1>2, <2>1, <2>2
  <1> QED BY <1>3

-----------------------------------------------------------------------------
LEMMA Halves == \A n \in Nat : n % 2 = 0 => \E k \in Nat : n = 2 * k
  <1> SUFFICES ASSUME NEW n \in Nat, n % 2 = 0 PROVE \E k \in Nat : n = 2 * k
    OBVIOUS
  <1>1. n \div 2 \in Nat /\ n = 2 * (n \div 2) OBVIOUS
  <1> QED BY <1>1

\* The end of an area of pages is again a page boundary; that of the last page
\* is 0.
LEMMA EndOfArea ==
    ASSUME NEW a \in AreaRequest, Paged(a)
    PROVE  /\ AreaEnd(a) \in 0 .. OffsetSpace - 1 /\ AreaEnd(a) % 2 = 0
           /\ \/ a.offset + a.size < OffsetSpace /\ AreaEnd(a) = a.offset + a.size
              \/ AtTop(a) /\ AreaEnd(a) = 0 /\ a.size = 2
  <1>1. /\ OffsetSpace \in Nat /\ OffsetSpace > 0 /\ OffsetSpace % 2 = 0
    BY DeviceAssumption
  <1>2. /\ a.offset \in Nat /\ a.offset < OffsetSpace /\ a.offset % 2 = 0
        /\ (a.size = 0 \/ a.size = 2)
    BY <1>1 DEF AreaRequest, Paged
  <1>3. AreaEnd(a) = IF a.offset + a.size < OffsetSpace THEN a.offset + a.size
                     ELSE (a.offset + a.size) - OffsetSpace
    BY DEF AreaEnd
  <1>4. PICK t, n \in Nat : a.offset = 2 * t /\ OffsetSpace = 2 * n
    BY <1>1, <1>2, Halves
  <1>5. CASE a.offset + a.size < OffsetSpace BY <1>1, <1>2, <1>3, <1>5
  <1>6. CASE ~ (a.offset + a.size < OffsetSpace)
    <2>1. a.size = 2 /\ a.offset + a.size = OffsetSpace BY <1>2, <1>4, <1>6
    <2> QED BY <1>1, <1>3, <1>6, <2>1 DEF AtTop
  <1> QED BY <1>5, <1>6

\* What nfp_dev_cpp_range_check lets pass overlaps no area of the list, unless
\* both are the last page.
LEMMA CheckedIsClear ==
    ASSUME PagedList, NEW req \in AreaRequest, Paged(req),
           nfp_dev_cpp_range_check(req), NEW i \in DOMAIN areas
    PROVE  Overlap(req, areas[i]) \/ Overlap(areas[i], req) =>
              AtTop(req) /\ AtTop(areas[i])
  <1>1. PICK a : a = areas[i] OBVIOUS
  <1>2. a \in AreaRequest /\ Paged(a) BY <1>1 DEF PagedList
  <1>3. ~ (req.offset < AreaEnd(a) /\ AreaEnd(req) > a.offset)
    BY <1>1 DEF nfp_dev_cpp_range_check
  <1>4. /\ OffsetSpace \in Nat /\ OffsetSpace > 0 /\ OffsetSpace % 2 = 0
    BY DeviceAssumption
  <1>5. /\ a.offset \in Nat /\ a.offset < OffsetSpace /\ a.offset % 2 = 0
        /\ req.offset \in Nat /\ req.offset < OffsetSpace /\ req.offset % 2 = 0
        /\ (a.size = 0 \/ a.size = 2)
        /\ (req.size = 0 \/ req.size = 2)
    BY <1>2, <1>4 DEF AreaRequest, Paged
  <1>6. /\ \/ a.offset + a.size < OffsetSpace /\ AreaEnd(a) = a.offset + a.size
           \/ AtTop(a) /\ AreaEnd(a) = 0 /\ a.size = 2
        /\ \/ /\ req.offset + req.size < OffsetSpace
              /\ AreaEnd(req) = req.offset + req.size
           \/ AtTop(req) /\ AreaEnd(req) = 0 /\ req.size = 2
    BY <1>2, EndOfArea
  <1>7. Overlap(req, a) \/ Overlap(a, req) => AtTop(req) /\ AtTop(a)
    <2>1. CASE ~ AtTop(req) /\ ~ AtTop(a) BY <1>3, <1>5, <1>6, <2>1 DEF Overlap
    <2>2. PICK r, t, n \in Nat :
             req.offset = 2 * r /\ a.offset = 2 * t /\ OffsetSpace = 2 * n
      BY <1>4, <1>5, Halves
    <2>3. CASE AtTop(req) BY <1>5, <2>2, <2>3 DEF Overlap, AtTop
    <2>4. CASE AtTop(a) BY <1>5, <2>2, <2>4 DEF Overlap, AtTop
    <2> QED BY <2>1, <2>3, <2>4
  <1> QED BY <1>1, <1>7

\* nfp_dev_cpp_area_request places an area at a page boundary.
LEMMA PlacedIsPaged ==
    ASSUME PagedList, NEW req \in AreaRequest, req.size \in {0, 2},
           req.offset # Anywhere => req.offset % 2 = 0
    PROVE  Placed(req) \in AreaRequest /\ Paged(Placed(req))
  <1>1. CASE req.offset # Anywhere BY <1>1 DEF Placed, Paged
  <1>2. CASE req.offset = Anywhere
    <2> DEFINE at(o) == [req EXCEPT !.offset = o]
               ends == [i \in 0 .. Len(areas) |-> IF i = 0 THEN 0 ELSE AreaEnd(areas[i])]
               fits == {i \in DOMAIN ends : nfp_dev_cpp_range_check(at(ends[i]))}
               n == IF fits = {} THEN Len(areas)
                    ELSE CHOOSE i \in fits : \A j \in fits : i <= j
    <2>1. Placed(req) = at(ends[n]) BY <1>2 DEF Placed
    <2>2. areas \in Seq(AreaRequest) /\ Len(areas) \in Nat BY DEF PagedList
    <2>3. OffsetSpace \in Nat \ {0} BY DeviceAssumption
    <2>4. ASSUME NEW i \in 0 .. Len(areas)
          PROVE  ends[i] \in 0 .. OffsetSpace - 1 /\ ends[i] % 2 = 0
      <3>1. CASE i = 0
        <4>1. ends[i] = 0 BY <3>1, <2>2
        <4> QED BY <2>3, <4>1
      <3>2. CASE i # 0
        <4>1. i \in DOMAIN areas /\ ends[i] = AreaEnd(areas[i]) BY <2>2, <3>2
        <4>2. areas[i] \in AreaRequest /\ Paged(areas[i]) BY <2>2, <4>1 DEF PagedList
        <4> QED BY <4>1, <4>2, EndOfArea
      <3> QED BY <3>1, <3>2
    <2>5. n \in 0 .. Len(areas)
      <3>1. DOMAIN ends = 0 .. Len(areas) OBVIOUS
      <3>2. fits \subseteq 0 .. Len(areas) BY <3>1
      <3>3. fits \subseteq Nat BY <2>2, <3>2
      <3> HIDE DEF fits
      <3>4. CASE fits = {} BY <2>2, <3>4
      <3>5. CASE fits # {}
        <4>1. \E i \in fits : \A j \in fits : i <= j BY <3>3, <3>5, HasFirst
        <4> QED BY <3>2, <3>5, <4>1
      <3> QED BY <3>4, <3>5
    <2> HIDE DEF n, ends
    <2>6. PICK o : o = ends[n] OBVIOUS
    <2>7. o \in 0 .. OffsetSpace - 1 /\ o % 2 = 0 BY <2>4, <2>5, <2>6
    <2>8. Placed(req) = [req EXCEPT !.offset = o] BY <2>1, <2>6
    <2>9. /\ [req EXCEPT !.offset = o] \in AreaRequest
          /\ [req EXCEPT !.offset = o].offset = o
          /\ [req EXCEPT !.offset = o].size = req.size
      BY <2>7 DEF AreaRequest
    <2> QED BY <2>7, <2>8, <2>9 DEF Paged
  <1> QED BY <1>1, <1>2

\* q is the sequence s of elements of S without its k-th element.
IsWithout(S, s, k, q) ==
    /\ q \in Seq(S) /\ Len(q) = Len(s) - 1
    /\ \A i \in 1 .. (k - 1) : q[i] = s[i]
    /\ \A i \in k .. (Len(s) - 1) : q[i] = s[i + 1]

LEMMA WithoutOne ==
    ASSUME NEW S, NEW s, s \in Seq(S), NEW k, k \in 1 .. Len(s),
           NEW q, q = RemoveAt(s, k)
    PROVE  IsWithout(S, s, k, q)
  <1>1. s \in Seq(S) /\ Len(s) \in Nat /\ k \in 1 .. Len(s) OBVIOUS
  <1> DEFINE before == SubSeq(s, 1, k - 1)
             after == SubSeq(s, k + 1, Len(s))
  <1>2. /\ before \in Seq(S) /\ Len(before) = k - 1
        /\ \A i \in 1 .. (k - 1) : before[i] = s[i]
    BY <1>1
  <1>3. /\ after \in Seq(S) /\ Len(after) = Len(s) - k
        /\ \A i \in 1 .. (Len(s) - k) : after[i] = s[k + i]
    BY <1>1
  <1>4. q = before \o after BY DEF RemoveAt
  <1> HIDE DEF before, after
  <1>5. q \in Seq(S) BY <1>2, <1>3, <1>4
  <1>6. Len(q) = Len(before) + Len(after)
    <2>1. before \in Seq(S) /\ after \in Seq(S) BY <1>2, <1>3
    <2> QED BY <1>4, <2>1
  <1>7. Len(q) = Len(s) - 1 BY <1>1, <1>2, <1>3, <1>6
  <1>8. \A i \in 1 .. (k - 1) : q[i] = s[i] BY <1>1, <1>2, <1>3, <1>4
  <1>9. ASSUME NEW i \in k .. (Len(s) - 1) PROVE q[i] = s[i + 1]
    <2>1. q[i] = after[i - (k - 1)] BY <1>1, <1>2, <1>3, <1>4
    <2>2. i - (k - 1) \in 1 .. (Len(s) - k) /\ k + (i - (k - 1)) = i + 1 BY <1>1
    <2> QED BY <1>3, <2>1, <2>2
  <1> QED BY <1>5, <1>7, <1>8, <1>9 DEF IsWithout

\* do_cpp_area_request appends an area that was checked,
LEMMA RequestKeeps ==
    ASSUME AreasInv, NEW req \in AreaRequest, Paged(req),
           nfp_dev_cpp_range_check(req), areas' = Append(areas, req)
    PROVE  AreasInv'
  <1>1. areas \in Seq(AreaRequest) /\ PagedList BY DEF AreasInv, PagedList
  <1>2. areas' \in Seq(AreaRequest) BY <1>1
  <1>3. /\ Len(areas') = Len(areas) + 1 /\ Len(areas) \in Nat
        /\ \A k \in 1 .. Len(areas) : areas'[k] = areas[k]
        /\ areas'[Len(areas) + 1] = req
    BY <1>1
  <1>4. DOMAIN areas' = 1 .. (Len(areas) + 1) /\ DOMAIN areas = 1 .. Len(areas)
    BY <1>1, <1>2, <1>3
  <1>5. ASSUME NEW i \in DOMAIN areas', NEW j \in DOMAIN areas', i # j,
               Overlap(areas'[i], areas'[j])
        PROVE  AtTop(areas'[i]) /\ AtTop(areas'[j])
    <2>1. CASE i \in DOMAIN areas /\ j \in DOMAIN areas
      BY <1>3, <1>4, <1>5, <2>1 DEF AreasInv, AreasDisjoint
    <2>2. CASE i = Len(areas) + 1
      <3>1. j \in DOMAIN areas /\ areas'[i] = req /\ areas'[j] = areas[j]
        BY <1>3, <1>4, <1>5, <2>2
      <3> QED BY <1>1, <1>5, <3>1, CheckedIsClear
    <2>3. CASE j = Len(areas) + 1
      <3>1. i \in DOMAIN areas /\ areas'[j] = req /\ areas'[i] = areas[i]
        BY <1>3, <1>4, <1>5, <2>3
      <3> QED BY <1>1, <1>5, <3>1, CheckedIsClear
    <2> QED BY <1>3, <1>4, <2>1, <2>2, <2>3
  <1>6. AreasDisjoint' BY <1>5 DEF AreasDisjoint, Overlap, AtTop
  <1>7. \A i \in DOMAIN areas' : Paged(areas'[i])
    BY <1>1, <1>3, <1>4 DEF PagedList
  <1>8. PagedList' BY <1>2, <1>7 DEF PagedList, Paged, AreaRequest
  <1> QED BY <1>6, <1>8 DEF AreasInv

\* and do_cpp_area_release removes one.
LEMMA ReleaseKeeps ==
    ASSUME AreasInv, NEW k \in DOMAIN areas, areas' = RemoveAt(areas, k)
    PROVE  AreasInv'
  <1>1. areas \in Seq(AreaRequest) BY DEF AreasInv, PagedList
  <1>2. /\ Len(areas) \in Nat /\ DOMAIN areas = 1 .. Len(areas)
        /\ k \in 1 .. Len(areas)
    BY <1>1
  <1>3. /\ areas' \in Seq(AreaRequest) /\ Len(areas') = Len(areas) - 1
        /\ \A i \in 1 .. (k - 1) : areas'[i] = areas[i]
        /\ \A i \in k .. (Len(areas) - 1) : areas'[i] = areas[i + 1]
    <2>1. areas \in Seq(AreaRequest) BY <1>1
    <2>2. k \in 1 .. Len(areas) BY <1>2
    <2>3. IsWithout(AreaRequest, areas, k, areas') BY <2>1, <2>2, WithoutOne
    <2> QED BY <2>3 DEF IsWithout
  <1>4. /\ areas' \in Seq(AreaRequest) /\ DOMAIN areas' = 1 .. (Len(areas) - 1)
        /\ \A i \in 1 .. (k - 1) : areas'[i] = areas[i]
        /\ \A i \in k .. (Len(areas) - 1) : areas'[i] = areas[i + 1]
    <2>1. DOMAIN areas' = 1 .. Len(areas') BY <1>3
    <2> QED BY <1>3, <2>1
  <1>5. ASSUME NEW i \in DOMAIN areas', NEW j \in DOMAIN areas', i # j,
               Overlap(areas'[i], areas'[j])
        PROVE  AtTop(areas'[i]) /\ AtTop(areas'[j])
    <2>1. PICK m \in DOMAIN areas : areas'[i] = areas[m] /\ m = IF i < k THEN i ELSE i + 1
      BY <1>2, <1>4
    <2>2. PICK n \in DOMAIN areas : areas'[j] = areas[n] /\ n = IF j < k THEN j ELSE j + 1
      BY <1>2, <1>4
    <2>3. m # n BY <1>2, <1>4, <1>5, <2>1, <2>2
    <2> QED BY <1>5, <2>1, <2>2, <2>3 DEF AreasInv, AreasDisjoint
  <1>6. AreasDisjoint' BY <1>5 DEF AreasDisjoint, Overlap, AtTop
  <1>7. ASSUME NEW i \in DOMAIN areas' PROVE Paged(areas'[i])
    <2>1. PICK m \in DOMAIN areas : areas'[i] = areas[m] /\ m = IF i < k THEN i ELSE i + 1
      BY <1>2, <1>4
    <2> QED BY <2>1 DEF AreasInv, PagedList
  <1>8. PagedList' BY <1>4, <1>7 DEF PagedList, Paged, AreaRequest
  <1> QED BY <1>6, <1>8 DEF AreasInv

-----------------------------------------------------------------------------
\* Nothing else that the server does touches the list,
LEMMA ServerKeeps == ASSUME AreasInv, ServerStep PROVE AreasInv'
  <1>1. CASE UNCHANGED areas BY <1>1 DEF AreasInv, PagedList, AreasDisjoint
  <1>2. CASE nfp_cpp_dev_poll BY <1>1, <1>2 DEF nfp_cpp_dev_poll
  <1>3. ASSUME NEW c \in Clients,
               \/ ReadNext(c) \/ ReadEnd(c) \/ ReadError(c)
               \/ PayloadUnplaced(c) \/ WriteBroken(c)
        PROVE  AreasInv'
    BY <1>1, <1>3 DEF ReadNext, ReadEnd, ReadError, PayloadUnplaced, WriteBroken
  <1>4. ASSUME NEW c \in Clients, nfp_cpp_dev_read(c) \/ nfp_cpp_dev_write(c)
        PROVE  AreasInv'
    BY <1>1, <1>4 DEF nfp_cpp_dev_read, nfp_cpp_dev_write, Transfer
  <1>5. ASSUME NEW c \in Clients, ioctl_area_request(c) PROVE AreasInv'
    <2> DEFINE req == server.got[3].v
               placed == Placed(req)
    <2>1. \/ UNCHANGED areas
          \/ /\ req \in AreaRequest /\ req.size \in {0, 2}
             /\ req.offset # Anywhere => req.offset % 2 = 0
             /\ nfp_dev_cpp_range_check(placed) /\ areas' = Append(areas, placed)
      BY <1>5 DEF ioctl_area_request, PAGE_SIZE
    <2>2. CASE UNCHANGED areas BY <1>1, <2>2
    <2>3. CASE ~ UNCHANGED areas
      <3>1. placed \in AreaRequest /\ Paged(placed)
        BY <2>1, <2>3, PlacedIsPaged DEF AreasInv
      <3> HIDE DEF placed
      <3> QED BY <2>1, <2>3, <3>1, RequestKeeps
    <2> QED BY <2>2, <2>3
  <1>6. ASSUME NEW c \in Clients, ioctl_area_release(c) PROVE AreasInv'
    <2>1. \/ UNCHANGED areas
          \/ \E k \in DOMAIN areas : areas' = RemoveAt(areas, k)
      BY <1>6 DEF ioctl_area_release
    <2> QED BY <1>1, <2>1, ReleaseKeeps
  <1>7. ASSUME NEW c \in Clients,
               ioctl_expl_request(c) \/ ioctl_cpp_identification(c) \/ InvalidRequest(c)
        PROVE  AreasInv'
    BY <1>1, <1>7 DEF ioctl_expl_request, ioctl_cpp_identification, InvalidRequest
  <1> QED BY <1>2, <1>3, <1>4, <1>5, <1>6, <1>7 DEF ServerStep

\* nor does the shim.
LEMMA DeviceKeeps == AreasInv /\ [DeviceNext]_deviceVars => AreasInv'
  <1> SUFFICES ASSUME AreasInv, [DeviceNext]_deviceVars PROVE AreasInv'
    OBVIOUS
  <1>1. CASE UNCHANGED areas BY <1>1 DEF AreasInv, PagedList, AreasDisjoint
  <1>2. CASE ServerStep BY <1>2, ServerKeeps
  <1>3. ASSUME NEW c \in Clients,
               \/ \E open64 \in BOOLEAN : Open(c, open64)
               \/ \E call \in Calls : Call(c, call)
               \/ ShimStep(c)
               \/ Exit(c)
        PROVE  AreasInv'
    BY <1>1, <1>3 DEF Open, Call, ShimStep, Send, Receive, ReceiveNothing, Exit, serverVars
  <1>4. CASE UNCHANGED deviceVars BY <1>1, <1>4 DEF deviceVars
  <1> QED BY <1>2, <1>3, <1>4 DEF DeviceNext

(***************************************************************************)
(* However many clients request and release areas, in any order and in step   *)
(* with the server or not, the areas it has granted by                        *)
(* nfp_dev_cpp_range_check and do_cpp_area_request do not overlap, with        *)
(* offsets that wrap at OffsetSpace, unless both are its last page.           *)
(***************************************************************************)
THEOREM DeviceAreasDisjoint == DeviceSpec => []AreasDisjoint
  <1>1. DeviceInit => AreasInv
    <2> SUFFICES ASSUME DeviceInit PROVE AreasInv
      OBVIOUS
    <2>1. areas = <<>> BY DEF DeviceInit
    <2>2. areas \in Seq(AreaRequest) /\ DOMAIN areas = {} BY <2>1
    <2> QED BY <2>2 DEF AreasInv, PagedList, AreasDisjoint
  <1>2. AreasInv => AreasDisjoint BY DEF AreasInv
  <1> QED BY <1>1, <1>2, DeviceKeeps, PTL DEF DeviceSpec

-----------------------------------------------------------------------------
\* What travels: words, structures and payload, and the parts of a reply.
Value == Nat \cup {call.arg : call \in Calls} \cup {"data"}

Chunk == [kind : {"word", "struct", "payload"}, v : Value]

ReplyPart == [part : {"ret", "body"}, v : Int \cup Value]

ClientPc == {"new", "idle", "adrift", "send", "ret", "astray", "spins", "gone"}

SockState == {"none", "open", "ended", "ended_unread", "shut", "shut_unread"}

DeviceTypes ==
    /\ client \in [Clients ->
          [pc : ClientPc, call : Calls \cup {NoCall}, sent : Nat]]
    /\ sock \in [Clients -> SockState]
    /\ up \in [Clients -> Seq(Chunk)]
    /\ down \in [Clients -> Seq(ReplyPart)]
    /\ backlog \in Seq(Clients)
    /\ conns \in Seq(Clients)
    /\ server \in [pc : {"poll", "read", "writes", "spins", "killed"},
                   todo : SUBSET Clients, got : Seq(Chunk)]
    /\ spoiled \in [Clients -> SUBSET {"up", "down"}]

\* A client is connected once, in the backlog or in the table, and what is to
\* be served is in the table.
TableInv ==
    /\ \A j, k \in 1 .. Len(conns) : conns[j] = conns[k] => j = k
    /\ \A j, k \in 1 .. Len(backlog) : backlog[j] = backlog[k] => j = k
    /\ \A j \in 1 .. Len(conns), k \in 1 .. Len(backlog) : conns[j] # backlog[k]
    /\ \A c \in server.todo : \E k \in 1 .. Len(conns) : conns[k] = c
    /\ server.pc \in {"read", "writes", "spins"} => server.todo # {}
    /\ server.pc = "poll" => server.todo = {} /\ server.got = <<>>
    /\ server.pc = "killed" => server.todo = {}

\* Who has closed the socket of a client.
Alive == {"open", "ended", "ended_unread"}

SockInv ==
    /\ \A c \in Clients : client[c].pc = "new" <=> sock[c] = "none"
    /\ \A k \in 1 .. Len(conns) : server.pc # "killed" => sock[conns[k]] \in Alive
    /\ \A k \in 1 .. Len(backlog) : server.pc # "killed" => sock[backlog[k]] \in Alive
    /\ server.pc = "killed" => \A c \in Clients : sock[c] # "open"
    /\ server.pc = "spins" => sock[Current] # "open"
    /\ StopsOnlyAfterEnd

\* What the server has read of the current request of c.
Got(c) == IF server.pc = "read" /\ c = Current THEN server.got ELSE <<>>

\* g and u together are the first n items of a message.
Along(g, u, message, n) ==
    /\ Len(g) + Len(u) = n
    /\ n <= Len(message)
    /\ \A k \in 1 .. Len(g) : g[k] = message[k]
    /\ \A k \in 1 .. Len(u) : u[k] = message[Len(g) + k]

Nothing(g, u) == g = <<>> /\ u = <<>>

\* One whole request, or none any more.
WholeOrNone(g, u, call) ==
    \/ Along(g, u, Message(call), Len(Message(call)))
    \/ Nothing(g, u)

\* The stream of requests of a client that is at r, as long as every call was
\* sent to its end.
InStep(r, g, u) ==
    /\ r.pc \notin {"send", "ret", "astray"} => Nothing(g, u)
    /\ r.pc = "send" => Along(g, u, Message(r.call), r.sent)
    /\ r.pc = "ret" => ~ Incomplete(r.call) /\ WholeOrNone(g, u, r.call)
    /\ r.pc = "astray" =>
          \E call \in Calls : ~ Incomplete(call) /\ WholeOrNone(g, u, call)

\* The stream after ioctl has returned with its first word sent: what follows
\* the word can only be the first word of another call.
FirstWord == {Word(n) : n \in 1 .. 3}

OutOfStep(r, g, u) ==
    /\ Len(g) + Len(u) > 0
    /\ Len(g) <= 2
    /\ r.pc = "send" /\ r.sent > 0 => Len(g) + Len(u) > 1
    /\ r.pc \in {"ret", "astray"} => Len(g) + Len(u) > 1
    /\ Len(g) > 0 => g[1] = Word(OP_IOCTL)
    /\ Len(g) > 1 => g[2] \in FirstWord
    /\ Len(g) = 0 => u[1] = Word(OP_IOCTL)
    /\ Len(g) = 0 /\ Len(u) > 1 => u[2] \in FirstWord
    /\ Len(g) = 1 /\ Len(u) > 0 => u[1] \in FirstWord

\* The stream of an ioctl that waits for its reply and could not send its argument.
CutShort(r, g, u) ==
    /\ r.pc \in {"ret", "astray"}
    /\ \E call \in Calls :
          /\ Incomplete(call) /\ ~ Refused(call)
          /\ Along(g, u, Message(call), Len(Message(call)))

UpIs(r, g, u, sp) ==
    IF "up" \in sp THEN OutOfStep(r, g, u) \/ CutShort(r, g, u) ELSE InStep(r, g, u)

\* There is something to be read from c.
Due(c) == server.pc # "writes" /\ c \in server.todo

UpOf(c) ==
    sock[c] = "open" =>
        /\ Due(c) => ~ Nothing(Got(c), up[c])
        /\ UpIs(client[c], Got(c), up[c], spoiled[c])

CallOf(c) ==
    /\ client[c].pc \in {"send", "ret"} => client[c].call \in Calls
    /\ client[c].pc = "send" => client[c].sent < Len(Message(client[c].call))
    /\ client[c].pc = "ret" => ~ Refused(client[c].call)

\* How long the reply to a call is.
ReplyLen(call, ret) == IF AsInt(ret) >= 0 /\ HasBody(call, ret) THEN 2 ELSE 1

\* The stream of replies.
DownOf(c) ==
    /\ client[c].pc \in {"idle", "send"} /\ down[c] # <<>> =>
          Head(down[c]).part = "body"
    /\ client[c].pc = "ret" /\ down[c] # <<>> /\ Head(down[c]).part = "ret" =>
          /\ sock[c] = "open" => Nothing(Got(c), up[c]) /\ "up" \notin spoiled[c]
          /\ \A k \in 2 .. Len(down[c]) : down[c][k].part = "body"
    /\ client[c].pc = "spins" => sock[c] # "open"
    /\ "down" \notin spoiled[c] =>
          /\ client[c].pc \in {"idle", "send", "spins"} => down[c] = <<>>
          /\ client[c].pc = "ret" /\ down[c] # <<>> =>
                /\ Head(down[c]).part = "ret"
                /\ Len(down[c]) = ReplyLen(client[c].call, Head(down[c]).v)
          /\ client[c].pc # "astray"

\* Nothing is in the streams of a client that has not opened the device.
FreshOf(c) ==
    client[c].pc = "new" => up[c] = <<>> /\ down[c] = <<>> /\ spoiled[c] = {}

\* What holds whatever the streams carry, and the streams.
BasicInv ==
    /\ DeviceTypes /\ TableInv /\ SockInv
    /\ \A c \in Clients : CallOf(c)

StreamOf(c) == UpOf(c) /\ DownOf(c) /\ FreshOf(c)

StreamsInv == BasicInv /\ \A c \in Clients : StreamOf(c)

-----------------------------------------------------------------------------
\* Min is the least element of a set of numbers.
LEMMA MinIsIn ==
    ASSUME NEW T, T \subseteq Nat, T # {}
    PROVE  Min(T) \in T
  BY HasFirst DEF Min

\* As long as a connection is to be served, there is a current one, in the
\* table and among those to be served.
LEMMA CurrentServed ==
    ASSUME DeviceTypes, TableInv, server.todo # {}
    PROVE  /\ Current \in server.todo /\ Current \in Clients
           /\ \E k \in 1 .. Len(conns) : conns[k] = Current
  <1> DEFINE I == {i \in 1 .. Len(conns) : conns[i] \in server.todo}
  <1>1. conns \in Seq(Clients) /\ Len(conns) \in Nat BY DEF DeviceTypes
  <1>2. I # {} BY DEF TableInv
  <1>3. I \subseteq Nat BY <1>1
  <1>4. SelectInSeq(conns, LAMBDA c : c \in server.todo) = Min(I)
    BY <1>2 DEF SelectInSeq
  <1> HIDE DEF I
  <1>5. Min(I) \in I BY <1>2, <1>3, MinIsIn
  <1>6. Current = conns[Min(I)] BY <1>4 DEF Current
  <1>7. Min(I) \in 1 .. Len(conns) /\ conns[Min(I)] \in server.todo BY <1>5 DEF I
  <1>8. server.todo \subseteq Clients BY DEF DeviceTypes
  <1> QED BY <1>6, <1>7, <1>8

\* The table without one of its connections.
LEMMA ConnectionRemoved ==
    ASSUME DeviceTypes, TableInv, NEW c, \E k \in 1 .. Len(conns) : conns[k] = c,
           NEW q, q = RemoveFirst(conns, c)
    PROVE  /\ q \in Seq(Clients) /\ Len(q) < Len(conns)
           /\ \A j, k \in 1 .. Len(q) : q[j] = q[k] => j = k
           /\ \A j \in 1 .. Len(q) :
                 q[j] # c /\ \E k \in 1 .. Len(conns) : q[j] = conns[k]
           /\ \A k \in 1 .. Len(conns) :
                 conns[k] # c => \E j \in 1 .. Len(q) : q[j] = conns[k]
  <1>1. conns \in Seq(Clients) /\ Len(conns) \in Nat BY DEF DeviceTypes
  <1> DEFINE I == {i \in 1 .. Len(conns) : conns[i] = c}
             n == Min(I)
  <1>2. I # {} /\ I \subseteq Nat BY <1>1
  <1>3. SelectInSeq(conns, LAMBDA v : v = c) = n BY <1>2 DEF SelectInSeq
  <1>4. q = RemoveAt(conns, n) BY <1>3 DEF RemoveFirst
  <1> HIDE DEF I
  <1>5. n \in I BY <1>2, MinIsIn
  <1> HIDE DEF n
  <1>6. n \in 1 .. Len(conns) /\ conns[n] = c BY <1>5 DEF I
  <1>7. /\ q \in Seq(Clients) /\ Len(q) = Len(conns) - 1
        /\ \A i \in 1 .. (n - 1) : q[i] = conns[i]
        /\ \A i \in n .. (Len(conns) - 1) : q[i] = conns[i + 1]
    <2>1. conns \in Seq(Clients) BY <1>1
    <2>2. n \in 1 .. Len(conns) BY <1>6
    <2>3. IsWithout(Clients, conns, n, q) BY <1>4, <2>1, <2>2, WithoutOne
    <2> QED BY <2>3 DEF IsWithout
  <1> DEFINE old(j) == IF j < n THEN j ELSE j + 1
  <1>8. \A j \in 1 .. Len(q) : /\ old(j) \in 1 .. Len(conns) /\ old(j) # n
                               /\ q[j] = conns[old(j)]
    BY <1>1, <1>6, <1>7
  <1>9. \A j, k \in 1 .. Len(q) : old(j) = old(k) => j = k BY <1>1, <1>6, <1>7
  <1>10. \A j, k \in 1 .. Len(conns) : conns[j] = conns[k] => j = k BY DEF TableInv
  <1>11. ASSUME NEW k \in 1 .. Len(conns), conns[k] # c
         PROVE  \E j \in 1 .. Len(q) : q[j] = conns[k]
    <2>1. CASE k < n BY <1>1, <1>6, <1>7, <2>1
    <2>2. CASE k > n
      <3>1. k - 1 \in n .. (Len(conns) - 1) /\ k - 1 \in 1 .. Len(q)
        BY <1>1, <1>6, <1>7, <2>2
      <3>2. q[k - 1] = conns[(k - 1) + 1] BY <1>7, <3>1
      <3> QED BY <1>1, <3>1, <3>2
    <2> QED BY <1>1, <1>6, <1>11, <2>1, <2>2
  <1> HIDE DEF old
  <1>12. \A j \in 1 .. Len(q) :
            q[j] # c /\ \E k \in 1 .. Len(conns) : q[j] = conns[k]
    BY <1>6, <1>8, <1>10
  <1>13. \A j, k \in 1 .. Len(q) : q[j] = q[k] => j = k BY <1>8, <1>9, <1>10
  <1>14. Len(q) < Len(conns) BY <1>1, <1>7
  <1> QED BY <1>7, <1>11, <1>12, <1>13, <1>14

-----------------------------------------------------------------------------
\* One element more.
LEMMA TwoAndOne == ASSUME NEW a, NEW b, NEW c PROVE <<a, b>> \o <<c>> = <<a, b, c>>
  <1> DEFINE s == <<a, b>> \o <<c>>
  <1>1. <<a, b>> \in Seq({a, b, c}) /\ <<c>> \in Seq({a, b, c}) OBVIOUS
  <1>2. s \in Seq({a, b, c}) /\ Len(s) = 3 BY <1>1
  <1>3. s[1] = a /\ s[2] = b /\ s[3] = c OBVIOUS
  <1> HIDE DEF s
  <1>4. s = <<a, b, c>> BY <1>2, <1>3
  <1> QED BY <1>4 DEF s

LEMMA ThreeAndOne ==
    ASSUME NEW a, NEW b, NEW c, NEW d
    PROVE  <<a, b, c>> \o <<d>> = <<a, b, c, d>>
  <1> DEFINE s == <<a, b, c>> \o <<d>>
             S == {a, b, c, d}
  <1>1. <<a, b, c>> \in Seq(S) /\ <<d>> \in Seq(S) OBVIOUS
  <1>2. s \in Seq(S) BY <1>1
  <1>3. Len(s) = 4 BY <1>1
  <1>4. s[1] = a /\ s[2] = b /\ s[3] = c /\ s[4] = d OBVIOUS
  <1> HIDE DEF s, S
  <1>5. s \in [1 .. 4 -> S] BY <1>2, <1>3, SMTT(30)
  <1>6. s = <<a, b, c, d>> BY <1>4, <1>5
  <1> QED BY <1>6 DEF s

\* The messages, call by call.
LEMMA MessageForms ==
    ASSUME NEW call \in Calls
    PROVE  \/ /\ call.fn = "pread" /\ call.count \in Nat /\ call.offset \in Nat
              /\ Message(call) = <<Word(1), Word(call.count), Word(call.offset)>>
           \/ /\ call.fn = "pwrite" /\ call.count \in Nat /\ call.offset \in Nat
              /\ call.count = 0
              /\ Message(call) = <<Word(2), Word(call.count), Word(call.offset)>>
           \/ /\ call.fn = "pwrite" /\ call.count \in Nat /\ call.offset \in Nat
              /\ call.count > 0
              /\ Message(call) =
                    <<Word(2), Word(call.count), Word(call.offset), Payload>>
           \/ /\ call.fn = "ioctl" /\ Refused(call)
              /\ Message(call) = <<Word(3)>>
           \/ /\ call.fn = "ioctl" /\ call.request \in Nat /\ ~ Refused(call)
              /\ (call.request = 142 \/ ~ call.mapped)
              /\ Message(call) = <<Word(3), Word(call.request)>>
           \/ /\ call.fn = "ioctl" /\ call.request \in Nat /\ ~ Refused(call)
              /\ call.mapped
              /\ Message(call) = <<Word(3), Word(call.request), Struct(call.arg)>>
  <1> USE DEF OP_PREAD, OP_PWRITE, OP_IOCTL, NFP_IOCTL_FIRMWARE_LAST
  <1>1. CASE call.fn = "pread"
    BY <1>1, DeviceAssumption DEF Message, Refused
  <1>2. CASE call.fn = "pwrite"
    <2>1. call.count \in Nat /\ call.offset \in Nat BY <1>2, DeviceAssumption
    <2>2. Message(call) = <<Word(2), Word(call.count), Word(call.offset)>>
                             \o (IF call.count > 0 THEN <<Payload>> ELSE <<>>)
      BY <1>2 DEF Message, Refused
    <2>3. CASE call.count > 0
      <3>1. Message(call) = <<Word(2), Word(call.count), Word(call.offset)>>
                               \o <<Payload>>
        BY <2>2, <2>3
      <3> QED BY <1>2, <2>1, <2>3, <3>1, ThreeAndOne
    <2>4. CASE call.count = 0 BY <1>2, <2>1, <2>2, <2>4
    <2> QED BY <2>1, <2>3, <2>4
  <1>3. CASE call.fn = "ioctl" /\ Refused(call)
    BY <1>3 DEF Message
  <1>4. CASE call.fn = "ioctl" /\ ~ Refused(call)
    <2>1. call.request \in Nat BY <1>4, DeviceAssumption
    <2>2. Message(call) = <<Word(3), Word(call.request)>>
                             \o (IF call.request = 142 \/ ~ call.mapped THEN <<>>
                                 ELSE <<Struct(call.arg)>>)
      BY <1>4 DEF Message
    <2>3. CASE call.request = 142 \/ ~ call.mapped
      <3>1. Message(call) = <<Word(3), Word(call.request)>> \o <<>>
        BY <2>2, <2>3, Zenon
      <3>2. <<Word(3), Word(call.request)>> \o <<>> = <<Word(3), Word(call.request)>>
        OBVIOUS
      <3> QED BY <1>4, <2>1, <2>3, <3>1, <3>2, Zenon
    <2>4. CASE ~ (call.request = 142 \/ ~ call.mapped)
      <3>1. Message(call) = <<Word(3), Word(call.request)>> \o <<Struct(call.arg)>>
        BY <2>2, <2>4
      <3> QED BY <1>4, <2>1, <2>4, <3>1, TwoAndOne
    <2> QED BY <2>3, <2>4
  <1> QED BY <1>1, <1>2, <1>3, <1>4, DeviceAssumption

\* Words, structures and payload are what a stream holds.
LEMMA ChunksTyped ==
    /\ \A n \in Nat : Word(n) \in Chunk
    /\ \A call \in Calls : Struct(call.arg) \in Chunk
    /\ Payload \in Chunk
    /\ \A x \in Chunk : x.kind \in {"word", "struct", "payload"} /\ x.v \in Value
  BY DEF Word, Struct, Payload, Chunk, Value

LEMMA MessageTyped ==
    ASSUME NEW call \in Calls
    PROVE  /\ Message(call) \in Seq(Chunk) /\ Len(Message(call)) \in 1 .. 4
           /\ Message(call)[1] \in {Word(1), Word(2), Word(3)}
           /\ Refused(call) =>
                 Message(call) = <<Word(3)>> /\ Len(Message(call)) = 1
  <1>1. /\ Word(1) \in Chunk /\ Word(2) \in Chunk /\ Word(3) \in Chunk
        /\ Payload \in Chunk /\ Struct(call.arg) \in Chunk
        /\ \A n \in Nat : Word(n) \in Chunk
    BY ChunksTyped
  <1>2. Refused(call) => call.fn = "ioctl" BY DEF Refused
  <1> DEFINE m == Message(call)
  <1>3. ASSUME m = <<Word(3)>> PROVE m \in Seq(Chunk) /\ Len(m) = 1 /\ m[1] = Word(3)
    BY <1>1, <1>3
  <1>4. ASSUME NEW x \in Chunk, m = <<Word(3), x>>
        PROVE  m \in Seq(Chunk) /\ Len(m) = 2 /\ m[1] = Word(3)
    BY <1>1, <1>4
  <1>5. ASSUME NEW x \in Chunk, NEW y \in Chunk, NEW z \in Chunk, m = <<x, y, z>>
        PROVE  m \in Seq(Chunk) /\ Len(m) = 3 /\ m[1] = x
    BY <1>5
  <1>6. ASSUME NEW x \in Chunk, NEW y \in Chunk, NEW z \in Chunk, NEW w \in Chunk,
               m = <<x, y, z, w>>
        PROVE  m \in Seq(Chunk) /\ Len(m) = 4 /\ m[1] = x
    BY <1>6
  <1> HIDE DEF m
  <1> SUFFICES /\ m \in Seq(Chunk) /\ Len(m) \in 1 .. 4
               /\ m[1] \in {Word(1), Word(2), Word(3)}
               /\ Refused(call) => m = <<Word(3)>> /\ Len(m) = 1
    BY DEF m
  <1>7. CASE call.fn = "pread"
    <2>1. m = <<Word(1), Word(call.count), Word(call.offset)>> /\ call.count \in Nat
             /\ call.offset \in Nat
      BY <1>7, MessageForms DEF m
    <2> QED BY <1>1, <1>2, <1>5, <1>7, <2>1
  <1>8. CASE call.fn = "pwrite"
    <2>1. /\ call.count \in Nat /\ call.offset \in Nat
          /\ \/ m = <<Word(2), Word(call.count), Word(call.offset)>>
             \/ m = <<Word(2), Word(call.count), Word(call.offset), Payload>>
      BY <1>8, MessageForms DEF m
    <2> QED BY <1>1, <1>2, <1>5, <1>6, <1>8, <2>1
  <1>9. CASE call.fn = "ioctl" /\ Refused(call)
    <2>1. m = <<Word(3)>> BY <1>9, MessageForms DEF m
    <2> QED BY <1>3, <2>1
  <1>10. CASE call.fn = "ioctl" /\ ~ Refused(call)
    <2>1. /\ call.request \in Nat
          /\ \/ m = <<Word(3), Word(call.request)>>
             \/ m = <<Word(3), Word(call.request), Struct(call.arg)>>
      BY <1>10, MessageForms DEF m
    <2> QED BY <1>1, <1>4, <1>5, <1>10, <2>1
  <1> QED BY <1>7, <1>8, <1>9, <1>10, DeviceAssumption

\* What the handler expects, by how much it has read and the first two words.
ExpectedBy(n, op, arg) ==
    CASE n = 0 -> "word"
      [] n \in {1, 2} /\ op \in {1, 2} -> "word"
      [] n = 3 /\ op = 2 /\ arg > 0 -> "payload"
      [] n = 1 /\ op = 3 -> "word"
      [] n = 2 /\ op = 3 /\ arg \in Served -> "struct"
      [] OTHER -> "nothing"

LEMMA ExpectedForms ==
    ASSUME NEW got, got \in Seq(Chunk)
    PROVE  Expected(got) = ExpectedBy(Len(got), got[1].v, got[2].v)
  <1>1. Len(got) \in Nat /\ (got = <<>> <=> Len(got) = 0) OBVIOUS
  <1> USE DEF Expected, ExpectedBy, OP_PREAD, OP_PWRITE, OP_IOCTL
  <1>2. CASE Len(got) = 0 BY <1>1, <1>2
  <1>3. CASE Len(got) = 1 BY <1>1, <1>3
  <1>4. CASE Len(got) = 2 BY <1>1, <1>4
  <1>5. CASE Len(got) = 3 BY <1>1, <1>5
  <1>6. CASE Len(got) \notin {0, 1, 2, 3}
    <2>1. \A n \in Nat : n \notin {0, 1, 2, 3} => ~ (n < 3) OBVIOUS
    <2>2. ~ (Len(got) < 3) BY <1>1, <1>6, <2>1, Zenon
    <2> QED BY <1>1, <1>6, <2>2, Zenon
  <1> HIDE DEF Expected, ExpectedBy
  <1> QED BY <1>2, <1>3, <1>4, <1>5, <1>6

-----------------------------------------------------------------------------
\* What the server does with the connection it serves, whatever the request.
Serving(c) == server.pc = "read" /\ c = Current

\* Replies by what was read: a return value, a body, and whether it is in excess.
Answer(got, ret, body, extra) ==
    /\ Expected(got) = "nothing"
    /\ \/ /\ got[1].v = 1 /\ ret = got[2].v /\ body = (ret > 0)
          /\ extra = (ret > 0 /\ AsInt(ret) < 0)
       \/ got[1].v = 1 /\ ret = -5 /\ body = FALSE /\ extra = FALSE
       \/ got[1].v = 2 /\ ret \in {got[2].v, -5} /\ body = FALSE /\ extra = FALSE
       \/ /\ got[1].v = 3
          /\ \/ got[2].v = 128 /\ ret = 0 /\ body = TRUE /\ extra = FALSE
             \/ got[2].v = 128 /\ ret \in {-26, -22} /\ body = TRUE /\ extra = TRUE
             \/ got[2].v = 129 /\ ret \in {-2, 0} /\ body = FALSE /\ extra = FALSE
             \/ got[2].v = 130 /\ ret = -22 /\ body = TRUE /\ extra = TRUE
             \/ got[2].v = 143 /\ ret = 20 /\ body = TRUE /\ extra = FALSE

Answers(c) ==
    /\ Serving(c)
    /\ \E ret \in Int \cup Value : \E body, extra :
          /\ Answer(server.got, ret, body, extra)
          /\ Reply(c, ret, body, extra)

\* The stream has ended: a word is read all the same, or the loop does not end.
ReadsPastEnd(c) ==
    /\ Serving(c) /\ sock[c] = "ended" /\ up[c] = <<>>
    /\ Expected(server.got) # "nothing"
    /\ \/ \E word \in Chunk : server' = [server EXCEPT !.got = Append(@, word)]
       \/ server' = [server EXCEPT !.pc = "spins"]
    /\ UNCHANGED <<client, backlog, sock, up, down, conns, spoiled>>

\* The connection is closed,
Closes(c) == Serving(c) /\ Fail(c)

\* or the process ends, with a reason.
Reason ==
    \/ \E c \in Clients : sock[c] \in {"ended", "ended_unread"}
    \/ Oversized(server.got)

Dies == Reason /\ Killed

StepOf(c) ==
    ReadNext(c) \/ ReadsPastEnd(c) \/ Closes(c) \/ Dies \/ Answers(c)

\* The handlers of the requests differ, for this, in their answers only.
LEMMA TransferAnswers ==
    ASSUME DeviceTypes, NEW c \in Clients, Serving(c), NEW chunks,
           NEW body, Transfer(c, chunks, server.got[2].v, body),
           server.got[2].v \in Value,
           Answer(server.got, server.got[2].v, body,
                  body /\ AsInt(server.got[2].v) < 0),
           Answer(server.got, -5, FALSE, FALSE)
    PROVE  Answers(c)
  <1>1. \/ Reply(c, server.got[2].v, body, body /\ AsInt(server.got[2].v) < 0)
        \/ Reply(c, -5, FALSE, FALSE)
    BY DEF Transfer, EIO
  <1>2. -5 \in Int OBVIOUS
  <1> QED BY <1>1, <1>2, Zenon DEF Answers

\* A read or a write is handled after three words.
LEMMA ThreeRead ==
    ASSUME NEW got, got \in Seq(Chunk), Expected(got) = "nothing",
           got[1].v \in {1, 2}
    PROVE  Len(got) > 2 /\ 2 \in 1 .. Len(got)
  <1>1. Len(got) \notin {0, 1, 2} BY ExpectedForms DEF ExpectedBy
  <1>2. \A k \in Nat : k \notin {0, 1, 2} => k > 2 /\ 2 \in 1 .. k OBVIOUS
  <1>3. Len(got) \in Nat OBVIOUS
  <1> QED BY <1>1, <1>2, <1>3, Zenon

LEMMA ServerActs ==
    ASSUME BasicInv, ServerStep
    PROVE  nfp_cpp_dev_poll \/ \E c \in Clients : StepOf(c)
  <1>1. DeviceTypes /\ server.got \in Seq(Chunk) BY DEF BasicInv, DeviceTypes
  <1> SUFFICES ASSUME NEW c \in Clients,
                      \/ ReadNext(c) \/ ReadEnd(c) \/ ReadError(c)
                      \/ PayloadUnplaced(c) \/ WriteBroken(c)
                      \/ nfp_cpp_dev_read(c) \/ nfp_cpp_dev_write(c)
                      \/ ioctl_area_request(c) \/ ioctl_area_release(c)
                      \/ ioctl_expl_request(c) \/ ioctl_cpp_identification(c)
                      \/ InvalidRequest(c)
               PROVE  StepOf(c)
    BY DEF ServerStep
  <1>2. CASE ReadNext(c) BY <1>2 DEF StepOf
  <1>3. CASE ReadEnd(c)
    <2>1. Serving(c) /\ up[c] = <<>> /\ sock[c] = "ended"
             /\ Expected(server.got) # "nothing"
      BY <1>3 DEF ReadEnd, Reading, Serving
    <2>2. ASSUME NEW word \in IF server.got = <<>> THEN {Word(n) : n \in 0 .. OP_IOCTL}
                                                   ELSE {Last(server.got)}
          PROVE  word \in Chunk
      <3>1. CASE server.got = <<>> BY <2>2, <3>1, ChunksTyped DEF OP_IOCTL
      <3>2. CASE server.got # <<>>
        <4>1. Len(server.got) \in 1 .. Len(server.got) BY <1>1, <3>2
        <4> QED BY <1>1, <2>2, <3>2, <4>1 DEF Last
      <3> QED BY <3>1, <3>2
    <2>3. ReadsPastEnd(c) \/ Fail(c)
      BY <1>3, <2>1, <2>2 DEF ReadEnd, ReadsPastEnd, shimVars
    <2> QED BY <2>1, <2>3 DEF StepOf, Closes
  <1>4. CASE ReadError(c)
    BY <1>4 DEF ReadError, Reading, Serving, StepOf, Closes, Dies, Reason
  <1>5. CASE nfp_cpp_dev_read(c) \/ nfp_cpp_dev_write(c)
    <2> DEFINE n == server.got[2].v
    <2>1. Serving(c) /\ Expected(server.got) = "nothing"
      BY <1>5 DEF nfp_cpp_dev_read, nfp_cpp_dev_write, Handling, Serving
    <2>2. server.got[1].v \in {1, 2}
      BY <1>5 DEF nfp_cpp_dev_read, nfp_cpp_dev_write, Handling, OP_PREAD, OP_PWRITE
    <2>6. Len(server.got) > 2 /\ 2 \in 1 .. Len(server.got)
      BY <1>1, <2>1, <2>2, ThreeRead
    <2>3. n \in Value BY <1>1, <2>6, ChunksTyped
    <2>4. CASE nfp_cpp_dev_read(c)
      <3>1. server.got[1].v = 1 BY <2>4 DEF nfp_cpp_dev_read, Handling, OP_PREAD
      <3>2. \/ \E chunks : Transfer(c, chunks, n, n > 0)
            \/ n > Heap /\ Killed
        BY <2>4 DEF nfp_cpp_dev_read
      <3>3. /\ Answer(server.got, n, n > 0, n > 0 /\ AsInt(n) < 0)
            /\ Answer(server.got, -5, FALSE, FALSE)
        BY <2>1, <3>1 DEF Answer
      <3>4. CASE \E chunks : Transfer(c, chunks, n, n > 0)
        BY <1>1, <2>1, <2>3, <3>3, <3>4, TransferAnswers DEF StepOf
      <3>5. CASE n > Heap /\ Killed
        <4>1. Oversized(server.got) BY <2>6, <3>1, <3>5 DEF Oversized, OP_PREAD
        <4> QED BY <3>5, <4>1 DEF StepOf, Dies, Reason
      <3> QED BY <3>2, <3>4, <3>5
    <2>5. CASE nfp_cpp_dev_write(c)
      <3>1. server.got[1].v = 2 BY <2>5 DEF nfp_cpp_dev_write, Handling, OP_PWRITE
      <3>2. \E chunks : Transfer(c, chunks, n, FALSE)
        BY <2>5 DEF nfp_cpp_dev_write
      <3>3. /\ Answer(server.got, n, FALSE, FALSE /\ AsInt(n) < 0)
            /\ Answer(server.got, -5, FALSE, FALSE)
        BY <2>1, <3>1 DEF Answer
      <3> QED BY <1>1, <2>1, <2>3, <3>2, <3>3, TransferAnswers DEF StepOf
    <2> QED BY <1>5, <2>4, <2>5
  <1>6. ASSUME Serving(c), NEW ret \in Int, NEW body, NEW extra,
               Answer(server.got, ret, body, extra), Reply(c, ret, body, extra)
        PROVE  StepOf(c)
    BY <1>6 DEF StepOf, Answers
  <1> USE DEF Ioctl, Handling, Serving, OP_IOCTL, NFP_IOCTL_CPP_AREA_REQUEST,
              NFP_IOCTL_CPP_AREA_RELEASE, NFP_IOCTL_CPP_EXPL_REQUEST,
              NFP_IOCTL_CPP_IDENTIFICATION
  <1>7. CASE ioctl_area_request(c)
    <2>1. /\ Serving(c) /\ Expected(server.got) = "nothing" /\ server.got[1].v = 3
          /\ server.got[2].v = 128
      BY <1>7 DEF ioctl_area_request
    <2>2. \/ Reply(c, 0, TRUE, FALSE)
          \/ Reply(c, -26, TRUE, TRUE)
          \/ Reply(c, -22, TRUE, TRUE)
      BY <1>7 DEF ioctl_area_request, ETXTBSY, EINVAL
    <2>3. /\ Answer(server.got, 0, TRUE, FALSE)
          /\ Answer(server.got, -26, TRUE, TRUE) /\ Answer(server.got, -22, TRUE, TRUE)
      BY <2>1 DEF Answer
    <2>4. 0 \in Int /\ 20 \in Int /\ -26 \in Int /\ -22 \in Int /\ -2 \in Int OBVIOUS
    <2> QED BY <1>6, <2>1, <2>2, <2>3, <2>4, Zenon
  <1>8. CASE ioctl_area_release(c)
    <2>1. /\ Serving(c) /\ Expected(server.got) = "nothing" /\ server.got[1].v = 3
          /\ server.got[2].v = 129
      BY <1>8 DEF ioctl_area_release
    <2>2. Reply(c, -2, FALSE, FALSE) \/ Reply(c, 0, FALSE, FALSE)
      BY <1>8 DEF ioctl_area_release, ENOENT
    <2>3. Answer(server.got, -2, FALSE, FALSE) /\ Answer(server.got, 0, FALSE, FALSE)
      BY <2>1 DEF Answer
    <2>4. 0 \in Int /\ 20 \in Int /\ -26 \in Int /\ -22 \in Int /\ -2 \in Int OBVIOUS
    <2> QED BY <1>6, <2>1, <2>2, <2>3, <2>4, Zenon
  <1>9. CASE ioctl_expl_request(c)
    <2>1. /\ Serving(c) /\ Expected(server.got) = "nothing" /\ server.got[1].v = 3
          /\ server.got[2].v = 130
      BY <1>9 DEF ioctl_expl_request
    <2>2. Reply(c, -22, TRUE, TRUE) BY <1>9 DEF ioctl_expl_request, EINVAL
    <2>3. Answer(server.got, -22, TRUE, TRUE) BY <2>1 DEF Answer
    <2>4. 0 \in Int /\ 20 \in Int /\ -26 \in Int /\ -22 \in Int /\ -2 \in Int OBVIOUS
    <2> QED BY <1>6, <2>1, <2>2, <2>3, <2>4, Zenon
  <1>10. CASE ioctl_cpp_identification(c)
    <2>1. /\ Serving(c) /\ Expected(server.got) = "nothing" /\ server.got[1].v = 3
          /\ server.got[2].v = 143
      BY <1>10 DEF ioctl_cpp_identification
    <2>2. Reply(c, 20, TRUE, FALSE) BY <1>10 DEF ioctl_cpp_identification
    <2>3. Answer(server.got, 20, TRUE, FALSE) BY <2>1 DEF Answer
    <2>4. 0 \in Int /\ 20 \in Int /\ -26 \in Int /\ -22 \in Int /\ -2 \in Int OBVIOUS
    <2> QED BY <1>6, <2>1, <2>2, <2>3, <2>4, Zenon
  <1>11. CASE InvalidRequest(c)
    BY <1>11 DEF InvalidRequest, StepOf, Closes
  <1>12. CASE PayloadUnplaced(c)
    BY <1>12 DEF PayloadUnplaced, Reading, StepOf, Closes
  <1>13. CASE WriteBroken(c)
    <2>1. server.pc = "writes" /\ Killed BY <1>13 DEF WriteBroken
    <2>2. Reason BY <2>1 DEF BasicInv, SockInv, StopsOnlyAfterEnd, Stopped, Reason
    <2> QED BY <2>1, <2>2 DEF StepOf, Dies
  <1> QED BY <1>2, <1>3, <1>4, <1>5, <1>7, <1>8, <1>9, <1>10, <1>11, <1>12, <1>13

-----------------------------------------------------------------------------
\* The connection being served depends on the table and what is to be served.
LEMMA CurrentKept ==
    ASSUME UNCHANGED conns, server'.todo = server.todo
    PROVE  Current' = Current
  <1>1. {i \in 1 .. Len(conns') : conns'[i] \in server'.todo}
            = {i \in 1 .. Len(conns) : conns[i] \in server.todo}
    OBVIOUS
  <1> QED BY <1>1 DEF Current, SelectInSeq

\* The types, one by one.
LEMMA TableTyped ==
    ASSUME DeviceTypes
    PROVE  /\ conns \in Seq(Clients) /\ backlog \in Seq(Clients)
           /\ Len(conns) \in Nat /\ Len(backlog) \in Nat
           /\ \A k \in 1 .. Len(conns) : conns[k] \in Clients
           /\ \A k \in 1 .. Len(backlog) : backlog[k] \in Clients
  <1>1. conns \in Seq(Clients) BY DEF DeviceTypes
  <1>2. backlog \in Seq(Clients) BY DEF DeviceTypes
  <1>3. Len(conns) \in Nat /\ \A k \in 1 .. Len(conns) : conns[k] \in Clients BY <1>1
  <1>4. Len(backlog) \in Nat /\ \A k \in 1 .. Len(backlog) : backlog[k] \in Clients
    BY <1>2
  <1> QED BY <1>1, <1>2, <1>3, <1>4

\* A step of the shim that moves only its own client and socket.
SockMoves(c) ==
    \/ sock'[c] = sock[c]
    \/ sock[c] = "open" /\ sock'[c] \in {"ended", "ended_unread"}
    \/ sock[c] = "shut_unread" /\ sock'[c] = "shut"

OnlyMoves(c) ==
    /\ UNCHANGED <<backlog, conns, server>>
    /\ \A d \in Clients : d # c => client'[d] = client[d] /\ sock'[d] = sock[d]
    /\ client[c].pc # "new" /\ client'[c].pc # "new"
    /\ SockMoves(c)

LEMMA ShimFrame ==
    ASSUME BasicInv, NEW c \in Clients, OnlyMoves(c), DeviceTypes', CallOf(c)'
    PROVE  BasicInv'
  <1>1. TableInv' BY DEF BasicInv, TableInv, OnlyMoves
  <1>2. ASSUME NEW d \in Clients PROVE CallOf(d)'
    <2>1. CASE d = c BY <2>1
    <2>2. CASE d # c
      <3>1. client'[d] = client[d] BY <2>2 DEF OnlyMoves
      <3> QED BY <3>1 DEF BasicInv, CallOf
    <2> QED BY <2>1, <2>2
  <1>3. SockInv'
    <2>1. Current' = Current BY CurrentKept DEF OnlyMoves
    <2>2. ASSUME NEW d \in Clients
          PROVE  /\ (client'[d].pc = "new") <=> (client[d].pc = "new")
                 /\ (sock'[d] = "none") <=> (sock[d] = "none")
                 /\ sock[d] \in Alive => sock'[d] \in Alive
                 /\ sock[d] # "open" => sock'[d] # "open"
                 /\ sock[d] \in {"ended", "ended_unread"} =>
                       sock'[d] \in {"ended", "ended_unread"}
      <3>1. CASE d = c BY <3>1 DEF OnlyMoves, SockMoves, Alive
      <3>2. CASE d # c
        <4>1. client'[d] = client[d] /\ sock'[d] = sock[d] BY <3>2 DEF OnlyMoves
        <4> QED BY <4>1
      <3> QED BY <3>1, <3>2
    <2>3. SockInv /\ UNCHANGED <<backlog, conns, server>> BY DEF BasicInv, OnlyMoves
    <2>4. /\ \A k \in 1 .. Len(conns) : conns[k] \in Clients
          /\ \A k \in 1 .. Len(backlog) : backlog[k] \in Clients
      BY TableTyped DEF BasicInv
    <2>5. server.pc = "spins" => Current \in Clients
      BY CurrentServed DEF BasicInv, TableInv
    <2>6. \A d \in Clients : (client'[d].pc = "new") <=> (sock'[d] = "none")
      BY <2>2, <2>3 DEF SockInv
    <2>7. \A k \in 1 .. Len(conns) : server.pc # "killed" => sock'[conns[k]] \in Alive
      BY <2>2, <2>3, <2>4 DEF SockInv
    <2>8. \A k \in 1 .. Len(backlog) :
             server.pc # "killed" => sock'[backlog[k]] \in Alive
      BY <2>2, <2>3, <2>4 DEF SockInv
    <2>9. server.pc = "killed" => \A d \in Clients : sock'[d] # "open"
      BY <2>2, <2>3 DEF SockInv
    <2>10. server.pc = "spins" => sock'[Current] # "open"
      BY <2>2, <2>3, <2>5 DEF SockInv
    <2>11. StopsOnlyAfterEnd'
      BY <2>2, <2>3 DEF SockInv, StopsOnlyAfterEnd, Stopped, Oversized
    <2>12. Alive' = Alive BY DEF Alive
    <2> QED BY <2>1, <2>3, <2>6, <2>7, <2>8, <2>9, <2>10, <2>11, <2>12 DEF SockInv
  <1> QED BY <1>1, <1>2, <1>3 DEF BasicInv

\* The shim, action by action.
ClientRec == [pc : ClientPc, call : Calls \cup {NoCall}, sent : Nat]

LEMMA ClientTyped ==
    ASSUME DeviceTypes, NEW c \in Clients
    PROVE  /\ client[c] \in ClientRec
           /\ \A r : client' = [client EXCEPT ![c] = r] =>
                 /\ client'[c] = r
                 /\ \A d \in Clients : d # c => client'[d] = client[d]
                 /\ r \in ClientRec => client' \in [Clients -> ClientRec]
  <1>1. client \in [Clients -> ClientRec] BY DEF DeviceTypes, ClientRec
  <1> HIDE DEF ClientRec
  <1> QED BY <1>1

LEMMA CallEndsTyped ==
    ASSUME DeviceTypes, NEW c \in Clients, NEW pc \in ClientPc \ {"new", "send", "ret"},
           CallEnds(c, pc)
    PROVE  /\ client' \in [Clients -> ClientRec]
           /\ client'[c] = [pc |-> pc, call |-> NoCall, sent |-> 0]
           /\ client'[c].pc = pc
           /\ \A d \in Clients : d # c => client'[d] = client[d]
           /\ CallOf(c)'
  <1> DEFINE r == [pc |-> pc, call |-> NoCall, sent |-> 0]
  <1>1. client' = [client EXCEPT ![c] = r] BY DEF CallEnds
  <1>2. r \in ClientRec /\ r.pc = pc BY DEF ClientRec
  <1> HIDE DEF r
  <1>3. /\ client'[c] = r /\ client' \in [Clients -> ClientRec]
        /\ \A d \in Clients : d # c => client'[d] = client[d]
    BY <1>1, <1>2, ClientTyped
  <1>4. CallOf(c)' BY <1>2, <1>3 DEF CallOf
  <1> QED BY <1>2, <1>3, <1>4 DEF r

LEMMA CallKeeps ==
    ASSUME BasicInv, NEW c \in Clients, NEW call \in Calls, Call(c, call)
    PROVE  BasicInv'
  <1> DEFINE r == [pc |-> "send", call |-> call, sent |-> 0]
  <1>1. /\ client' = [client EXCEPT ![c] = r] /\ client[c].pc = "idle"
        /\ UNCHANGED <<sock, up, down, backlog, spoiled, conns, server>>
    BY DEF Call, serverVars
  <1>2. /\ r \in ClientRec /\ r.pc = "send" /\ r.call = call /\ r.sent = 0
    BY DEF ClientRec, ClientPc
  <1> HIDE DEF r
  <1>3. /\ client'[c] = r /\ client' \in [Clients -> ClientRec]
        /\ \A d \in Clients : d # c => client'[d] = client[d]
    BY <1>1, <1>2, ClientTyped DEF BasicInv
  <1>4. CallOf(c)'
    <2>1. 0 < Len(Message(call)) BY MessageTyped
    <2> QED BY <1>2, <1>3, <2>1 DEF CallOf
  <1>5. OnlyMoves(c) BY <1>1, <1>2, <1>3 DEF OnlyMoves, SockMoves
  <1>6. DeviceTypes' BY <1>1, <1>3 DEF BasicInv, DeviceTypes, ClientRec
  <1> QED BY <1>4, <1>5, <1>6, ShimFrame

LEMMA ReceiveKeeps ==
    ASSUME BasicInv, NEW c \in Clients, Receive(c)
    PROVE  BasicInv'
  <1>1. /\ client[c].pc = "ret" /\ UNCHANGED <<sock, up, backlog, spoiled, conns, server>>
        /\ \E pc \in {"idle", "astray"} : CallEnds(c, pc)
    BY DEF Receive, serverVars, Returns
  <1>2. /\ client' \in [Clients -> ClientRec] /\ CallOf(c)'
        /\ client'[c].pc # "new"
        /\ \A d \in Clients : d # c => client'[d] = client[d]
    BY <1>1, CallEndsTyped DEF BasicInv, ClientPc
  <1>3. OnlyMoves(c) BY <1>1, <1>2 DEF OnlyMoves, SockMoves
  <1>4. down' \in [Clients -> Seq(ReplyPart)]
    <2>1. down \in [Clients -> Seq(ReplyPart)] BY DEF BasicInv, DeviceTypes
    <2> DEFINE q(n) == SubSeq(down[c], n + 1, Len(down[c]))
    <2>2. \/ down' = down \/ down' = [down EXCEPT ![c] = q(1)]
          \/ down' = [down EXCEPT ![c] = q(2)]
      BY DEF Receive
    <2>3. down[c] \in Seq(ReplyPart) BY <2>1
    <2>4. q(1) \in Seq(ReplyPart) BY <2>3
    <2>5. q(2) \in Seq(ReplyPart) BY <2>3
    <2> HIDE DEF q
    <2> QED BY <2>1, <2>2, <2>4, <2>5
  <1>5. DeviceTypes' BY <1>1, <1>2, <1>4 DEF BasicInv, DeviceTypes, ClientRec
  <1> QED BY <1>2, <1>3, <1>5, ShimFrame

LEMMA ReceiveNothingKeeps ==
    ASSUME BasicInv, NEW c \in Clients, ReceiveNothing(c)
    PROVE  BasicInv'
  <1>1. sock \in [Clients -> SockState] BY DEF BasicInv, DeviceTypes
  <1>2. /\ client[c].pc = "ret" /\ UNCHANGED <<up, down, backlog, spoiled, conns, server>>
        /\ \E pc \in {"idle", "gone", "spins"} : CallEnds(c, pc)
    BY DEF ReceiveNothing, serverVars, Gone
  <1>3. /\ client' \in [Clients -> ClientRec] /\ CallOf(c)'
        /\ client'[c].pc # "new"
        /\ \A d \in Clients : d # c => client'[d] = client[d]
    BY <1>2, CallEndsTyped DEF BasicInv, ClientPc
  <1>4. /\ sock' \in [Clients -> SockState] /\ SockMoves(c)
        /\ \A d \in Clients : d # c => sock'[d] = sock[d]
    BY <1>1 DEF ReceiveNothing, SockMoves, SockState
  <1>5. OnlyMoves(c) BY <1>2, <1>3, <1>4 DEF OnlyMoves
  <1>6. DeviceTypes' BY <1>2, <1>3, <1>4 DEF BasicInv, DeviceTypes, ClientRec
  <1> QED BY <1>3, <1>5, <1>6, ShimFrame

LEMMA ExitKeeps ==
    ASSUME BasicInv, NEW c \in Clients, Exit(c)
    PROVE  BasicInv'
  <1>1. sock \in [Clients -> SockState] BY DEF BasicInv, DeviceTypes
  <1>2. /\ client[c].pc # "new" /\ UNCHANGED <<up, down, backlog, spoiled, conns, server>>
        /\ CallEnds(c, "gone")
    BY DEF Exit, serverVars, Gone
  <1>3. /\ client' \in [Clients -> ClientRec] /\ CallOf(c)'
        /\ client'[c].pc # "new"
        /\ \A d \in Clients : d # c => client'[d] = client[d]
    BY <1>2, CallEndsTyped DEF BasicInv, ClientPc
  <1>4. /\ sock' \in [Clients -> SockState] /\ SockMoves(c)
        /\ \A d \in Clients : d # c => sock'[d] = sock[d]
    BY <1>1 DEF Exit, SockMoves, SockState
  <1>5. OnlyMoves(c) BY <1>2, <1>3, <1>4 DEF OnlyMoves
  <1>6. DeviceTypes' BY <1>2, <1>3, <1>4 DEF BasicInv, DeviceTypes, ClientRec
  <1> QED BY <1>3, <1>5, <1>6, ShimFrame

\* A write into a closed socket, or the next part of the message; the last part
\* of it ends the call, or begins the wait for the reply.
SendCases(c) ==
    \/ sock[c] # "open" /\ CallEnds(c, "gone") /\ UNCHANGED <<up, spoiled>>
    \/ /\ sock[c] = "open"
       /\ up' = [up EXCEPT ![c] =
                    Append(@, Message(client[c].call)[client[c].sent + 1])]
       /\ \/ /\ client[c].sent + 1 < Len(Message(client[c].call))
             /\ client' = [client EXCEPT ![c] =
                   [pc |-> "send", call |-> client[c].call, sent |-> client[c].sent + 1]]
             /\ UNCHANGED spoiled
          \/ /\ client[c].sent + 1 = Len(Message(client[c].call))
             /\ Refused(client[c].call)
             /\ CallEnds(c, "idle")
             /\ spoiled' = [spoiled EXCEPT ![c] = @ \cup {"up"}]
          \/ /\ client[c].sent + 1 = Len(Message(client[c].call))
             /\ ~ Refused(client[c].call)
             /\ client' = [client EXCEPT ![c] =
                   [pc |-> "ret", call |-> client[c].call, sent |-> client[c].sent]]
             /\ \/ ~ Incomplete(client[c].call) /\ UNCHANGED spoiled
                \/ /\ Incomplete(client[c].call)
                   /\ spoiled' = [spoiled EXCEPT ![c] = @ \cup {"up"}]

LEMMA SendActs ==
    ASSUME BasicInv, NEW c \in Clients, Send(c)
    PROVE  /\ client[c].pc = "send" /\ client[c].call \in Calls
           /\ client[c].sent \in Nat /\ client[c].sent < Len(Message(client[c].call))
           /\ UNCHANGED <<sock, down, backlog, conns, server>>
           /\ SendCases(c)
  <1> DEFINE m == Message(client[c].call)
             sent == client[c].sent + 1
  <1>1. /\ client[c].pc = "send"
        /\ UNCHANGED <<sock, down, backlog, conns, server>>
    BY DEF Send, serverVars
  <1>2. client[c].call \in Calls /\ client[c].sent < Len(m)
    BY <1>1 DEF BasicInv, CallOf
  <1>3. client[c] \in ClientRec BY ClientTyped DEF BasicInv
  <1>4. client[c].sent \in Nat BY <1>3 DEF ClientRec
  <1>5. Len(m) \in Nat BY <1>2, MessageTyped
  <1>6. \A r, k : r \in ClientRec =>
           /\ [r EXCEPT !.sent = k] = [pc |-> r.pc, call |-> r.call, sent |-> k]
           /\ [r EXCEPT !.pc = k] = [pc |-> k, call |-> r.call, sent |-> r.sent]
    BY DEF ClientRec
  <1>7. client \in [Clients -> ClientRec] BY DEF BasicInv, DeviceTypes, ClientRec
  <1>8. [client EXCEPT ![c].sent = sent]
            = [client EXCEPT ![c] = [pc |-> "send", call |-> client[c].call, sent |-> sent]]
    <2>1. [client EXCEPT ![c].sent = sent] = [client EXCEPT ![c] = [@ EXCEPT !.sent = sent]]
      OBVIOUS
    <2> QED BY <1>1, <1>3, <1>6, <2>1
  <1>9. [client EXCEPT ![c].pc = "ret"]
            = [client EXCEPT ![c] =
                  [pc |-> "ret", call |-> client[c].call, sent |-> client[c].sent]]
    <2>1. [client EXCEPT ![c].pc = "ret"] = [client EXCEPT ![c] = [@ EXCEPT !.pc = "ret"]]
      OBVIOUS
    <2> QED BY <1>3, <1>6, <2>1
  <1>10. SendCases(c)
    <2>1. CASE sock[c] # "open" BY <2>1 DEF Send, SendCases, Gone
    <2>2. CASE sock[c] = "open"
      <3>1. up' = [up EXCEPT ![c] = Append(@, m[sent])] BY <2>2 DEF Send
      <3>2. CASE sent < Len(m)
        <4>1. sent # Len(m) BY <1>4, <1>5, <3>2
        <4>2. UNCHANGED spoiled BY <2>2, <4>1 DEF Send
        <4> QED BY <1>8, <2>2, <3>1, <3>2, <4>2 DEF Send, SendCases
      <3>3. CASE ~ (sent < Len(m))
        <4>1. sent = Len(m) BY <1>2, <1>4, <1>5, <3>3
        <4>2. CASE Refused(client[c].call)
          BY <2>2, <3>1, <3>3, <4>1, <4>2 DEF Send, SendCases, Returns, Incomplete
        <4>3. CASE ~ Refused(client[c].call)
          BY <1>9, <2>2, <3>1, <3>3, <4>1, <4>3 DEF Send, SendCases
        <4> QED BY <4>2, <4>3
      <3> QED BY <3>2, <3>3
    <2> QED BY <2>1, <2>2
  <1> QED BY <1>1, <1>2, <1>4, <1>10

LEMMA SendKeeps ==
    ASSUME BasicInv, NEW c \in Clients, Send(c)
    PROVE  BasicInv'
  <1> DEFINE call == client[c].call
             m == Message(call)
             n == client[c].sent
  <1>1. /\ client[c].pc = "send" /\ call \in Calls
        /\ n \in Nat /\ n < Len(m)
        /\ UNCHANGED <<sock, down, backlog, conns, server>>
        /\ SendCases(c)
    BY SendActs
  <1>2. m \in Seq(Chunk) /\ Len(m) \in Nat BY <1>1, MessageTyped
  <1>3. m[n + 1] \in Chunk
    <2>1. n + 1 \in 1 .. Len(m) BY <1>1, <1>2
    <2> QED BY <1>2, <2>1
  <1>4. up' \in [Clients -> Seq(Chunk)]
    <2>1. up \in [Clients -> Seq(Chunk)] BY DEF BasicInv, DeviceTypes
    <2> HIDE DEF m, n
    <2>2. up' = up \/ up' = [up EXCEPT ![c] = Append(up[c], m[n + 1])]
      BY <1>1 DEF SendCases, m, n
    <2>3. Append(up[c], m[n + 1]) \in Seq(Chunk) BY <1>3, <2>1
    <2> QED BY <2>1, <2>2, <2>3
  <1>5. spoiled' \in [Clients -> SUBSET {"up", "down"}]
    <2>1. spoiled \in [Clients -> SUBSET {"up", "down"}] BY DEF BasicInv, DeviceTypes
    <2>2. spoiled' = spoiled \/ spoiled' = [spoiled EXCEPT ![c] = @ \cup {"up"}]
      BY <1>1 DEF SendCases
    <2> QED BY <2>1, <2>2
  <1>6. ASSUME NEW pc \in {"gone", "idle"}, CallEnds(c, pc)
        PROVE  /\ client' \in [Clients -> ClientRec] /\ CallOf(c)'
               /\ client'[c].pc # "new"
               /\ \A d \in Clients : d # c => client'[d] = client[d]
    BY <1>6, CallEndsTyped DEF BasicInv, ClientPc
  <1>7. ASSUME NEW r, client' = [client EXCEPT ![c] = r],
               \/ r = [pc |-> "send", call |-> call, sent |-> n + 1] /\ n + 1 < Len(m)
               \/ r = [pc |-> "ret", call |-> call, sent |-> n] /\ ~ Refused(call)
        PROVE  /\ client' \in [Clients -> ClientRec] /\ CallOf(c)'
               /\ client'[c].pc # "new"
               /\ \A d \in Clients : d # c => client'[d] = client[d]
    <2> HIDE DEF call, m, n
    <2>1. /\ r \in ClientRec /\ r.pc # "new" BY <1>1, <1>7 DEF ClientRec, ClientPc
    <2>2. /\ client'[c] = r /\ client' \in [Clients -> ClientRec]
          /\ \A d \in Clients : d # c => client'[d] = client[d]
      BY <1>7, <2>1, ClientTyped DEF BasicInv
    <2>3. /\ r.call = call /\ r.pc \in {"send", "ret"}
          /\ r.pc = "send" => r.sent = n + 1 /\ n + 1 < Len(m)
          /\ r.pc = "ret" => ~ Refused(call)
      BY <1>7
    <2>4. CallOf(c)' BY <1>1, <2>2, <2>3 DEF CallOf, m
    <2> QED BY <2>1, <2>2, <2>4
  <1>8. /\ client' \in [Clients -> ClientRec] /\ CallOf(c)'
        /\ client'[c].pc # "new"
        /\ \A d \in Clients : d # c => client'[d] = client[d]
    BY <1>1, <1>6, <1>7 DEF SendCases
  <1>9. OnlyMoves(c) BY <1>1, <1>8 DEF OnlyMoves, SockMoves
  <1>10. DeviceTypes' BY <1>1, <1>4, <1>5, <1>8 DEF BasicInv, DeviceTypes, ClientRec
  <1> QED BY <1>8, <1>9, <1>10, ShimFrame

LEMMA OpenActs ==
    ASSUME BasicInv, NEW c \in Clients, NEW open64 \in BOOLEAN, Open(c, open64)
    PROVE  /\ client[c].pc = "new" /\ server.pc # "killed"
           /\ client' \in [Clients -> ClientRec]
           /\ client'[c].pc \in {"idle", "adrift"}
           /\ \A d \in Clients : d # c => client'[d] = client[d]
           /\ sock' = [sock EXCEPT ![c] = "open"]
           /\ backlog' = Append(backlog, c)
           /\ UNCHANGED <<up, down, spoiled, conns, server>>
  <1>1. /\ client[c].pc = "new" /\ server.pc # "killed"
        /\ sock' = [sock EXCEPT ![c] = "open"]
        /\ backlog' = Append(backlog, c)
        /\ UNCHANGED <<up, down, spoiled, conns, server>>
    BY DEF Open, serverVars
  <1>2. PICK pc \in {"idle", "adrift"} : client' = [client EXCEPT ![c].pc = pc]
    BY DEF Open
  <1> DEFINE r == [client[c] EXCEPT !.pc = pc]
  <1>3. client' = [client EXCEPT ![c] = r] BY <1>2
  <1>4. client[c] \in ClientRec BY ClientTyped DEF BasicInv
  <1>5. r \in ClientRec /\ r.pc = pc BY <1>4 DEF ClientRec, ClientPc
  <1> HIDE DEF r
  <1>6. /\ client'[c] = r /\ client' \in [Clients -> ClientRec]
        /\ \A d \in Clients : d # c => client'[d] = client[d]
    BY <1>3, <1>5, ClientTyped DEF BasicInv
  <1> QED BY <1>1, <1>5, <1>6

LEMMA OpenKeeps ==
    ASSUME BasicInv, NEW c \in Clients, NEW open64 \in BOOLEAN, Open(c, open64)
    PROVE  BasicInv'
  <1>1. /\ client[c].pc = "new" /\ server.pc # "killed"
        /\ client' \in [Clients -> ClientRec]
        /\ client'[c].pc \in {"idle", "adrift"}
        /\ \A d \in Clients : d # c => client'[d] = client[d]
        /\ sock' = [sock EXCEPT ![c] = "open"]
        /\ backlog' = Append(backlog, c)
        /\ UNCHANGED <<up, down, spoiled, conns, server>>
    BY OpenActs
  <1>2. /\ conns \in Seq(Clients) /\ backlog \in Seq(Clients)
        /\ Len(conns) \in Nat /\ Len(backlog) \in Nat
        /\ \A k \in 1 .. Len(conns) : conns[k] \in Clients
        /\ \A k \in 1 .. Len(backlog) : backlog[k] \in Clients
    BY TableTyped DEF BasicInv
  <1>3. /\ backlog' \in Seq(Clients) /\ Len(backlog') = Len(backlog) + 1
        /\ backlog'[Len(backlog) + 1] = c
        /\ \A k \in 1 .. Len(backlog) : backlog'[k] = backlog[k]
    BY <1>1, <1>2
  <1>4. sock[c] = "none" BY <1>1 DEF BasicInv, SockInv
  <1>5. /\ \A k \in 1 .. Len(conns) : conns[k] # c
        /\ \A k \in 1 .. Len(backlog) : backlog[k] # c
    BY <1>1, <1>4 DEF BasicInv, SockInv, Alive
  <1>6. /\ sock' \in [Clients -> SockState] /\ sock'[c] = "open"
        /\ \A d \in Clients : d # c => sock'[d] = sock[d]
    BY <1>1 DEF BasicInv, DeviceTypes, SockState
  <1>7. DeviceTypes' BY <1>1, <1>3, <1>6 DEF BasicInv, DeviceTypes, ClientRec
  <1>8. \A k \in 1 .. Len(backlog') : \/ k = Len(backlog) + 1 /\ backlog'[k] = c
                                      \/ k \in 1 .. Len(backlog) /\ backlog'[k] = backlog[k]
    BY <1>2, <1>3
  <1>9. TableInv'
    <2>1. /\ \A j, k \in 1 .. Len(conns) : conns[j] = conns[k] => j = k
          /\ \A j, k \in 1 .. Len(backlog) : backlog[j] = backlog[k] => j = k
          /\ \A j \in 1 .. Len(conns), k \in 1 .. Len(backlog) : conns[j] # backlog[k]
          /\ \A d \in server.todo : \E k \in 1 .. Len(conns) : conns[k] = d
          /\ server.pc \in {"read", "writes", "spins"} => server.todo # {}
          /\ server.pc = "poll" => server.todo = {} /\ server.got = <<>>
          /\ server.pc = "killed" => server.todo = {}
      BY DEF BasicInv, TableInv
    <2>2. \A j, k \in 1 .. Len(backlog') : backlog'[j] = backlog'[k] => j = k
      BY <1>5, <1>8, <2>1
    <2>3. \A j \in 1 .. Len(conns), k \in 1 .. Len(backlog') : conns[j] # backlog'[k]
      BY <1>5, <1>8, <2>1
    <2> QED BY <1>1, <2>1, <2>2, <2>3 DEF TableInv
  <1>10. \A d \in Clients : CallOf(d)'
    <2>1. ASSUME NEW d \in Clients PROVE CallOf(d)'
      <3>1. CASE d = c BY <1>1, <3>1 DEF CallOf
      <3>2. CASE d # c
        <4>1. client'[d] = client[d] BY <1>1, <3>2
        <4> QED BY <4>1 DEF BasicInv, CallOf
      <3> QED BY <3>1, <3>2
    <2> QED BY <2>1
  <1>11. SockInv'
    <2>1. SockInv BY DEF BasicInv
    <2>2. \A d \in Clients : (client'[d].pc = "new") <=> (sock'[d] = "none")
      BY <1>1, <1>6, <2>1 DEF SockInv
    <2>3. \A k \in 1 .. Len(conns) : server.pc # "killed" => sock'[conns[k]] \in Alive
      BY <1>2, <1>5, <1>6, <2>1 DEF SockInv
    <2>4. \A k \in 1 .. Len(backlog') : server.pc # "killed" => sock'[backlog'[k]] \in Alive
      BY <1>2, <1>5, <1>6, <1>8, <2>1 DEF SockInv, Alive
    <2>5. server.pc = "spins" => sock'[Current] # "open"
      <3> SUFFICES ASSUME server.pc = "spins" PROVE sock'[Current] # "open"
        OBVIOUS
      <3>1. \E k \in 1 .. Len(conns) : conns[k] = Current
        BY CurrentServed DEF BasicInv, TableInv
      <3>2. Current # c /\ Current \in Clients BY <1>2, <1>5, <3>1
      <3> QED BY <1>6, <2>1, <3>2 DEF SockInv
    <2>6. StopsOnlyAfterEnd'
      BY <1>1, <1>4, <1>6, <2>1 DEF SockInv, StopsOnlyAfterEnd, Stopped, Oversized
    <2>7. Current' = Current BY <1>1, CurrentKept
    <2>8. Alive' = Alive BY DEF Alive
    <2> QED BY <1>1, <2>2, <2>3, <2>4, <2>5, <2>6, <2>7, <2>8 DEF SockInv
  <1> QED BY <1>7, <1>9, <1>10, <1>11 DEF BasicInv

-----------------------------------------------------------------------------
\* The server's own state.
ServerRec ==
    [pc : {"poll", "read", "writes", "spins", "killed"}, todo : SUBSET Clients,
     got : Seq(Chunk)]

LEMMA ServerTyped ==
    ASSUME DeviceTypes
    PROVE  /\ server \in ServerRec
           /\ server.todo \subseteq Clients /\ server.got \in Seq(Chunk)
           /\ Len(server.got) \in Nat
  <1>1. server \in ServerRec BY DEF DeviceTypes, ServerRec
  <1>2. server.todo \subseteq Clients /\ server.got \in Seq(Chunk) BY <1>1 DEF ServerRec
  <1> QED BY <1>1, <1>2

\* What poll leaves: the ready connections are to be served, and the table may
\* have taken over the first of the backlog.
Accepted ==
    \/ UNCHANGED <<conns, backlog>>
    \/ /\ backlog # <<>>
       /\ conns' = Append(conns, Head(backlog)) /\ backlog' = Tail(backlog)

LEMMA PollActs ==
    ASSUME BasicInv, nfp_cpp_dev_poll
    PROVE  /\ server.pc = "poll" /\ server.got = <<>>
           /\ server' \in ServerRec /\ server'.got = <<>>
           /\ server'.pc = IF server'.todo = {} THEN "poll" ELSE "read"
           /\ \A c \in server'.todo : /\ up[c] # <<>> \/ sock[c] # "open"
                                      /\ \E k \in 1 .. Len(conns) : conns[k] = c
           /\ Accepted
           /\ UNCHANGED <<client, sock, up, down, spoiled>>
  <1> DEFINE ready == {c \in ToSet(conns) : Ready(c)}
  <1>1. /\ server.pc = "poll" /\ UNCHANGED <<client, sock, up, down, spoiled>>
        /\ server' = [server EXCEPT !.pc = IF ready = {} THEN "poll" ELSE "read",
                                    !.todo = ready]
    BY DEF nfp_cpp_dev_poll
  <1>2. Accepted BY DEF nfp_cpp_dev_poll, Accepted
  <1>3. server.got = <<>> BY <1>1 DEF BasicInv, TableInv
  <1>4. conns \in Seq(Clients) BY TableTyped DEF BasicInv
  <1>5. \A c \in ready : /\ up[c] # <<>> \/ sock[c] # "open"
                         /\ \E k \in 1 .. Len(conns) : conns[k] = c
    BY <1>4 DEF ToSet, Ready
  <1>6. ready \subseteq Clients BY <1>4 DEF ToSet
  <1> HIDE DEF ready
  <1>7. server \in ServerRec BY ServerTyped DEF BasicInv
  <1>8. /\ server' \in ServerRec /\ server'.got = server.got /\ server'.todo = ready
        /\ server'.pc = IF ready = {} THEN "poll" ELSE "read"
    <2> DEFINE pc == IF ready = {} THEN "poll" ELSE "read"
    <2>1. pc \in {"poll", "read"} OBVIOUS
    <2>2. server' = [server EXCEPT !.pc = pc, !.todo = ready] BY <1>1
    <2> HIDE DEF pc
    <2>3. /\ server' \in ServerRec /\ server'.got = server.got
          /\ server'.todo = ready /\ server'.pc = pc
      BY <1>6, <1>7, <2>1, <2>2 DEF ServerRec
    <2> QED BY <2>3 DEF pc
  <1> QED BY <1>1, <1>2, <1>3, <1>5, <1>8

LEMMA PollKeeps ==
    ASSUME BasicInv, nfp_cpp_dev_poll
    PROVE  BasicInv'
  <1>1. /\ server.pc = "poll"
        /\ server' \in ServerRec /\ server'.got = <<>>
        /\ server'.pc = IF server'.todo = {} THEN "poll" ELSE "read"
        /\ \A c \in server'.todo : \E k \in 1 .. Len(conns) : conns[k] = c
        /\ Accepted
        /\ UNCHANGED <<client, sock, up, down, spoiled>>
    BY PollActs
  <1>2. /\ conns \in Seq(Clients) /\ backlog \in Seq(Clients)
        /\ Len(conns) \in Nat /\ Len(backlog) \in Nat
        /\ \A k \in 1 .. Len(conns) : conns[k] \in Clients
        /\ \A k \in 1 .. Len(backlog) : backlog[k] \in Clients
    BY TableTyped DEF BasicInv
  <1>3. TableInv /\ SockInv BY DEF BasicInv
  <1>4. /\ conns' \in Seq(Clients) /\ backlog' \in Seq(Clients)
        /\ \A j, k \in 1 .. Len(conns') : conns'[j] = conns'[k] => j = k
        /\ \A j, k \in 1 .. Len(backlog') : backlog'[j] = backlog'[k] => j = k
        /\ \A j \in 1 .. Len(conns'), k \in 1 .. Len(backlog') : conns'[j] # backlog'[k]
        /\ \A k \in 1 .. Len(conns) : \E j \in 1 .. Len(conns') : conns'[j] = conns[k]
        /\ \A k \in 1 .. Len(conns') : sock[conns'[k]] \in Alive
        /\ \A k \in 1 .. Len(backlog') : sock[backlog'[k]] \in Alive
    <2>1. CASE UNCHANGED <<conns, backlog>>
      BY <1>1, <1>2, <1>3, <2>1 DEF TableInv, SockInv
    <2>2. CASE /\ backlog # <<>>
               /\ conns' = Append(conns, Head(backlog)) /\ backlog' = Tail(backlog)
      <3>1. Len(backlog) > 0 /\ Head(backlog) = backlog[1] /\ backlog[1] \in Clients
        BY <1>2, <2>2
      <3>2. /\ conns' \in Seq(Clients) /\ Len(conns') = Len(conns) + 1
            /\ conns'[Len(conns) + 1] = backlog[1]
            /\ \A k \in 1 .. Len(conns) : conns'[k] = conns[k]
        BY <1>2, <2>2, <3>1
      <3>3. /\ backlog' \in Seq(Clients) /\ Len(backlog') = Len(backlog) - 1
            /\ \A k \in 1 .. (Len(backlog) - 1) : backlog'[k] = backlog[k + 1]
        BY <1>2, <2>2, <3>1
      <3>4. \A k \in 1 .. Len(conns') :
               \/ k = Len(conns) + 1 /\ conns'[k] = backlog[1]
               \/ k \in 1 .. Len(conns) /\ conns'[k] = conns[k]
        BY <1>2, <3>2
      <3>5. \A k \in 1 .. Len(backlog') :
               k + 1 \in 1 .. Len(backlog) /\ k + 1 # 1 /\ backlog'[k] = backlog[k + 1]
        BY <1>2, <3>3
      <3>6. 1 \in 1 .. Len(backlog) BY <1>2, <3>1
      <3>7. /\ \A j, k \in 1 .. Len(conns) : conns[j] = conns[k] => j = k
            /\ \A j, k \in 1 .. Len(backlog) : backlog[j] = backlog[k] => j = k
            /\ \A j \in 1 .. Len(conns), k \in 1 .. Len(backlog) : conns[j] # backlog[k]
            /\ \A k \in 1 .. Len(conns) : sock[conns[k]] \in Alive
            /\ \A k \in 1 .. Len(backlog) : sock[backlog[k]] \in Alive
        BY <1>1, <1>3 DEF TableInv, SockInv
      <3>8. \A j, k \in 1 .. Len(conns') : conns'[j] = conns'[k] => j = k
        <4>1. ASSUME NEW j \in 1 .. Len(conns'), NEW k \in 1 .. Len(conns'),
                     conns'[j] = conns'[k]
              PROVE  j = k
          <5>1. CASE j \in 1 .. Len(conns) /\ k \in 1 .. Len(conns)
            BY <3>2, <3>7, <4>1, <5>1
          <5>2. CASE j = Len(conns) + 1 /\ k \in 1 .. Len(conns)
            BY <3>2, <3>6, <3>7, <4>1, <5>2
          <5>3. CASE k = Len(conns) + 1 /\ j \in 1 .. Len(conns)
            BY <3>2, <3>6, <3>7, <4>1, <5>3
          <5>4. CASE j = Len(conns) + 1 /\ k = Len(conns) + 1 BY <5>4
          <5> QED BY <3>4, <5>1, <5>2, <5>3, <5>4
        <4> QED BY <4>1
      <3>9. \A j, k \in 1 .. Len(backlog') : backlog'[j] = backlog'[k] => j = k
        <4>1. ASSUME NEW j \in 1 .. Len(backlog'), NEW k \in 1 .. Len(backlog'),
                     backlog'[j] = backlog'[k]
              PROVE  j = k
          <5>1. j + 1 = k + 1 BY <3>5, <3>7, <4>1
          <5> QED BY <1>2, <3>3, <5>1
        <4> QED BY <4>1
      <3>10. \A j \in 1 .. Len(conns'), k \in 1 .. Len(backlog') : conns'[j] # backlog'[k]
        <4>1. ASSUME NEW j \in 1 .. Len(conns'), NEW k \in 1 .. Len(backlog')
              PROVE  conns'[j] # backlog'[k]
          <5>1. /\ k + 1 \in 1 .. Len(backlog) /\ k + 1 # 1
                /\ backlog'[k] = backlog[k + 1]
            BY <3>5
          <5>2. CASE j \in 1 .. Len(conns) BY <3>2, <3>7, <5>1, <5>2
          <5>3. CASE j = Len(conns) + 1 BY <3>2, <3>6, <3>7, <5>1, <5>3
          <5> QED BY <3>4, <5>2, <5>3
        <4> QED BY <4>1
      <3>11. \A k \in 1 .. Len(conns) : \E j \in 1 .. Len(conns') : conns'[j] = conns[k]
        <4>1. \A k \in 1 .. Len(conns) : k \in 1 .. Len(conns') BY <1>2, <3>2
        <4> QED BY <3>2, <4>1
      <3>12. \A k \in 1 .. Len(conns') : sock[conns'[k]] \in Alive BY <3>4, <3>6, <3>7
      <3>13. \A k \in 1 .. Len(backlog') : sock[backlog'[k]] \in Alive BY <3>5, <3>7
      <3> QED BY <3>2, <3>3, <3>8, <3>9, <3>10, <3>11, <3>12, <3>13
    <2> QED BY <1>1, <2>1, <2>2 DEF Accepted
  <1>5. server'.pc \in {"poll", "read"} BY <1>1
  <1>6. TableInv'
    <2>1. ASSUME NEW c \in server'.todo
          PROVE  \E k \in 1 .. Len(conns') : conns'[k] = c
      <3>1. PICK k \in 1 .. Len(conns) : conns[k] = c BY <1>1
      <3>2. \E j \in 1 .. Len(conns') : conns'[j] = conns[k] BY <1>4
      <3> QED BY <3>1, <3>2
    <2> QED BY <1>1, <1>4, <2>1 DEF TableInv
  <1>7. SockInv'
    <2>1. \A c \in Clients : (client[c].pc = "new") <=> (sock[c] = "none")
      BY <1>3 DEF SockInv
    <2> QED BY <1>1, <1>4, <1>5, <2>1 DEF SockInv, StopsOnlyAfterEnd, Stopped, Oversized, Alive
  <1>8. DeviceTypes' BY <1>1, <1>4 DEF BasicInv, DeviceTypes, ServerRec
  <1>9. \A c \in Clients : CallOf(c)' BY <1>1 DEF BasicInv, CallOf
  <1> QED BY <1>6, <1>7, <1>8, <1>9 DEF BasicInv

\* A connection that is served is in the table, so the server has not closed it.
LEMMA ServingIs ==
    ASSUME BasicInv, NEW c \in Clients, Serving(c)
    PROVE  /\ server.pc = "read" /\ c = Current /\ c \in server.todo
           /\ \E k \in 1 .. Len(conns) : conns[k] = c
           /\ sock[c] \in Alive
  <1>1. server.pc = "read" /\ c = Current BY DEF Serving
  <1>2. server.todo # {} BY <1>1 DEF BasicInv, TableInv
  <1>3. c \in server.todo /\ \E k \in 1 .. Len(conns) : conns[k] = c
    BY <1>1, <1>2, CurrentServed DEF BasicInv
  <1>4. sock[c] \in Alive BY <1>1, <1>3 DEF BasicInv, SockInv
  <1> QED BY <1>1, <1>3, <1>4

\* Reading changes nothing of this.
LEMMA ReadFrame ==
    ASSUME BasicInv, NEW c \in Clients, Serving(c), DeviceTypes',
           UNCHANGED <<client, backlog, sock, conns>>,
           server'.todo = server.todo,
           server'.pc = "read" \/ (server'.pc = "spins" /\ sock[c] = "ended")
    PROVE  BasicInv'
  <1>1. server.pc = "read" /\ c = Current /\ c \in server.todo BY ServingIs
  <1>2. TableInv /\ SockInv BY DEF BasicInv
  <1>3. TableInv' BY <1>1, <1>2 DEF TableInv
  <1>4. \A d \in Clients : CallOf(d)' BY DEF BasicInv, CallOf
  <1>5. Current' = Current BY CurrentKept
  <1>6. SockInv'
    <2>1. server'.pc = "spins" => sock[Current] # "open" BY <1>1
    <2>2. StopsOnlyAfterEnd' BY DEF StopsOnlyAfterEnd, Stopped
    <2>3. /\ \A d \in Clients : (client[d].pc = "new") <=> (sock[d] = "none")
          /\ \A k \in 1 .. Len(conns) : sock[conns[k]] \in Alive
          /\ \A k \in 1 .. Len(backlog) : sock[backlog[k]] \in Alive
      BY <1>1, <1>2 DEF SockInv
    <2>4. Alive' = Alive BY DEF Alive
    <2> QED BY <1>5, <2>1, <2>2, <2>3, <2>4 DEF SockInv
  <1> QED BY <1>3, <1>4, <1>6 DEF BasicInv

LEMMA ReadNextKeeps ==
    ASSUME BasicInv, NEW c \in Clients, ReadNext(c)
    PROVE  /\ Serving(c) /\ Expected(server.got) # "nothing" /\ up[c] # <<>>
           /\ up' = [up EXCEPT ![c] = Tail(@)]
           /\ server'.pc = "read" /\ server'.todo = server.todo
           /\ server'.got = Append(server.got, Head(up[c]))
           /\ UNCHANGED <<client, backlog, sock, down, conns, spoiled>>
           /\ BasicInv'
  <1>1. /\ Serving(c) /\ Expected(server.got) # "nothing" /\ up[c] # <<>>
        /\ server' = [server EXCEPT !.got = Append(server.got, Head(up[c]))]
        /\ up' = [up EXCEPT ![c] = Tail(@)]
        /\ UNCHANGED <<client, backlog, sock, down, conns, spoiled>>
    BY DEF ReadNext, Reading, Serving, shimVars
  <1>2. server \in ServerRec /\ server.got \in Seq(Chunk) BY ServerTyped DEF BasicInv
  <1>3. up \in [Clients -> Seq(Chunk)] BY DEF BasicInv, DeviceTypes
  <1>4. up[c] \in Seq(Chunk) BY <1>3
  <1>5. Head(up[c]) \in Chunk /\ Tail(up[c]) \in Seq(Chunk) BY <1>1, <1>4
  <1>6. up' \in [Clients -> Seq(Chunk)] BY <1>1, <1>3, <1>5
  <1> DEFINE g == Append(server.got, Head(up[c]))
  <1>7. g \in Seq(Chunk) BY <1>2, <1>5
  <1>8. server' = [server EXCEPT !.got = g] BY <1>1
  <1> HIDE DEF g
  <1>9. /\ server' \in ServerRec /\ server'.got = g /\ server'.todo = server.todo
        /\ server'.pc = server.pc
    BY <1>2, <1>7, <1>8 DEF ServerRec
  <1>10. DeviceTypes' BY <1>1, <1>6, <1>9 DEF BasicInv, DeviceTypes, ServerRec
  <1>11. server'.pc = "read" BY <1>1, <1>9 DEF Serving
  <1>12. BasicInv' BY <1>1, <1>9, <1>10, <1>11, ReadFrame
  <1> QED BY <1>1, <1>9, <1>11, <1>12 DEF g

LEMMA ReadsPastEndKeeps ==
    ASSUME BasicInv, NEW c \in Clients, ReadsPastEnd(c)
    PROVE  /\ Serving(c) /\ sock[c] = "ended" /\ server'.todo = server.todo
           /\ UNCHANGED <<client, backlog, sock, up, down, conns, spoiled>>
           /\ BasicInv'
  <1>1. /\ Serving(c) /\ sock[c] = "ended"
        /\ \/ \E word \in Chunk : server' = [server EXCEPT !.got = Append(server.got, word)]
           \/ server' = [server EXCEPT !.pc = "spins"]
        /\ UNCHANGED <<client, backlog, sock, up, down, conns, spoiled>>
    BY DEF ReadsPastEnd
  <1>2. server \in ServerRec /\ server.got \in Seq(Chunk) BY ServerTyped DEF BasicInv
  <1>3. /\ server' \in ServerRec /\ server'.todo = server.todo
        /\ server'.pc = server.pc \/ server'.pc = "spins"
    <2>1. ASSUME NEW word \in Chunk, server' = [server EXCEPT !.got = Append(server.got, word)]
          PROVE  /\ server' \in ServerRec /\ server'.todo = server.todo
                 /\ server'.pc = server.pc
      <3>1. Append(server.got, word) \in Seq(Chunk) BY <1>2
      <3> QED BY <1>2, <2>1, <3>1 DEF ServerRec
    <2>2. ASSUME server' = [server EXCEPT !.pc = "spins"]
          PROVE  /\ server' \in ServerRec /\ server'.todo = server.todo
                 /\ server'.pc = "spins"
      BY <1>2, <2>2 DEF ServerRec
    <2> QED BY <1>1, <2>1, <2>2
  <1>4. DeviceTypes' BY <1>1, <1>3 DEF BasicInv, DeviceTypes, ServerRec
  <1>5. server.pc = "read" BY <1>1 DEF Serving
  <1>6. BasicInv' BY <1>1, <1>3, <1>4, <1>5, ReadFrame
  <1> QED BY <1>1, <1>3, <1>6

\* After a request the round goes on.
LEMMA ProceedIs ==
    ASSUME BasicInv, NEW c \in Clients, Serving(c), Proceed
    PROVE  /\ server' \in ServerRec /\ server'.got = <<>>
           /\ server'.todo = server.todo \ {c}
           /\ server'.pc = IF server'.todo = {} THEN "poll" ELSE "read"
  <1>1. server \in ServerRec /\ server.todo \subseteq Clients BY ServerTyped DEF BasicInv
  <1>2. c = Current /\ c \in server.todo BY ServingIs
  <1>3. server' = [pc |-> IF server.todo = {c} THEN "poll" ELSE "read",
                   todo |-> server.todo \ {c}, got |-> <<>>]
    BY <1>2 DEF Proceed
  <1>4. /\ server'.got = <<>> /\ server'.todo = server.todo \ {c}
        /\ server'.pc = IF server.todo = {c} THEN "poll" ELSE "read"
    BY <1>3
  <1>5. (server.todo = {c}) <=> (server.todo \ {c} = {}) BY <1>2
  <1>6. <<>> \in Seq(Chunk) OBVIOUS
  <1>7. server' \in ServerRec BY <1>1, <1>3, <1>6 DEF ServerRec
  <1> QED BY <1>4, <1>5, <1>7

LEMMA DiesKeeps ==
    ASSUME BasicInv, Reason, Killed
    PROVE  /\ UNCHANGED <<client, backlog, up, down, conns, spoiled>>
           /\ server'.pc = "killed" /\ server'.todo = {}
           /\ \A d \in Clients : sock'[d] # "open"
           /\ BasicInv'
  <1>1. /\ server' = [server EXCEPT !.pc = "killed", !.todo = {}]
        /\ sock' = [d \in Clients |-> Shut(d)]
        /\ UNCHANGED <<client, backlog, up, down, conns, spoiled>>
    BY DEF Killed, shimVars
  <1>2. sock \in [Clients -> SockState] BY DEF BasicInv, DeviceTypes
  <1>3. ASSUME NEW d \in Clients
        PROVE  /\ sock'[d] \in SockState /\ sock'[d] # "open"
               /\ sock[d] # "open" => sock'[d] = sock[d]
               /\ sock[d] = "open" => sock'[d] # "none"
    BY <1>1, <1>2 DEF Shut, SockState
  <1>4. server \in ServerRec BY ServerTyped DEF BasicInv
  <1>5. server' \in ServerRec /\ server'.pc = "killed" /\ server'.todo = {}
           /\ server'.got = server.got
    BY <1>1, <1>4 DEF ServerRec
  <1>6. sock' \in [Clients -> SockState] BY <1>1, <1>3
  <1>7. DeviceTypes' BY <1>1, <1>5, <1>6 DEF BasicInv, DeviceTypes, ServerRec
  <1>8. TableInv' BY <1>1, <1>5 DEF BasicInv, TableInv
  <1>9. \A d \in Clients : CallOf(d)' BY <1>1 DEF BasicInv, CallOf
  <1>10. SockInv'
    <2>1. \A d \in Clients : (client[d].pc = "new") <=> (sock[d] = "none")
      BY DEF BasicInv, SockInv
    <2>2. \A d \in Clients : (client'[d].pc = "new") <=> (sock'[d] = "none")
      <3>1. ASSUME NEW d \in Clients PROVE (sock'[d] = "none") <=> (sock[d] = "none")
        <4>1. CASE sock[d] = "open" BY <1>3, <4>1
        <4>2. CASE sock[d] # "open" BY <1>3, <4>2
        <4> QED BY <4>1, <4>2
      <3> QED BY <1>1, <2>1, <3>1
    <2>3. \/ \E d \in Clients : sock'[d] \in {"ended", "ended_unread"}
          \/ Oversized(server'.got)
      BY <1>3, <1>5 DEF Reason
    <2>4. StopsOnlyAfterEnd' BY <2>3 DEF StopsOnlyAfterEnd, Oversized
    <2> QED BY <1>3, <1>5, <2>2, <2>4 DEF SockInv
  <1> QED BY <1>1, <1>3, <1>5, <1>7, <1>8, <1>9, <1>10 DEF BasicInv

\* What a reply adds to the stream of the client.
Said(ret, body) ==
    IF body THEN <<[part |-> "ret", v |-> ret], [part |-> "body", v |-> 0]>>
            ELSE <<[part |-> "ret", v |-> ret]>>

LEMMA SaidTyped ==
    ASSUME NEW ret \in Int \cup Value, NEW body
    PROVE  /\ Said(ret, body) \in Seq(ReplyPart)
           /\ Said(ret, body)[1] = [part |-> "ret", v |-> ret]
           /\ Len(Said(ret, body)) = IF body THEN 2 ELSE 1
           /\ body => Said(ret, body)[2] = [part |-> "body", v |-> 0]
  <1>1. [part |-> "ret", v |-> ret] \in ReplyPart /\ [part |-> "body", v |-> 0] \in ReplyPart
    BY DEF ReplyPart
  <1> QED BY <1>1 DEF Said

\* The reply is written to an open socket, and only then is the process alive.
Writes(c, ret, body, extra) ==
    /\ sock[c] = "open"
    /\ IF extra /\ ret > 0 THEN server' = [server EXCEPT !.pc = "writes"] ELSE Proceed
    /\ down' = [down EXCEPT ![c] = down[c] \o Said(ret, body)]
    /\ spoiled' = [spoiled EXCEPT ![c] = IF extra THEN @ \cup {"down"} ELSE @]
    /\ UNCHANGED <<client, backlog, sock, up, conns>>

LEMMA ReplyActs ==
    ASSUME BasicInv, NEW c \in Clients, NEW ret \in Int \cup Value, NEW body, NEW extra,
           Reply(c, ret, body, extra)
    PROVE  \/ sock[c] # "open" /\ Killed
           \/ Writes(c, ret, body, extra)
  <1> DEFINE a == [part |-> "ret", v |-> ret]
             b == [part |-> "body", v |-> 0]
  <1>1. down \in [Clients -> Seq(ReplyPart)] BY DEF BasicInv, DeviceTypes
  <1>2. down[c] \in Seq(ReplyPart) BY <1>1
  <1>3. a \in ReplyPart /\ b \in ReplyPart BY DEF ReplyPart
  <1>4. Append(down[c], a) \o (IF body THEN <<b>> ELSE <<>>) = down[c] \o Said(ret, body)
    <2> HIDE DEF a, b
    <2>1. CASE body
      <3> DEFINE p == Append(down[c], a) \o <<b>>
                 q == down[c] \o <<a, b>>
                 n == Len(down[c])
      <3>1. Append(down[c], a) \in Seq(ReplyPart) /\ <<b>> \in Seq(ReplyPart)
               /\ <<a, b>> \in Seq(ReplyPart) /\ n \in Nat
        BY <1>2, <1>3
      <3>2. /\ p \in Seq(ReplyPart) /\ Len(p) = n + 2
        BY <1>2, <1>3, <3>1
      <3>3. /\ q \in Seq(ReplyPart) /\ Len(q) = n + 2
        BY <1>2, <1>3, <3>1
      <3>4. ASSUME NEW k \in 1 .. (n + 2) PROVE p[k] = q[k]
        <4>1. CASE k \in 1 .. n BY <1>2, <1>3, <3>1, <4>1
        <4>2. CASE k = n + 1 BY <1>2, <1>3, <3>1, <4>2
        <4>3. CASE k = n + 2 BY <1>2, <1>3, <3>1, <4>3
        <4> QED BY <3>1, <4>1, <4>2, <4>3
      <3> HIDE DEF p, q, n
      <3>5. p \in [1 .. (n + 2) -> ReplyPart] /\ q \in [1 .. (n + 2) -> ReplyPart]
        BY <3>1, <3>2, <3>3
      <3>6. p = q
        <4>1. /\ p = [k \in 1 .. (n + 2) |-> p[k]]
              /\ q = [k \in 1 .. (n + 2) |-> q[k]]
          BY <3>5
        <4>2. \A k \in 1 .. (n + 2) : p[k] = q[k] BY <3>4
        <4> QED BY <4>1, <4>2, Zenon
      <3>7. (IF body THEN <<b>> ELSE <<>>) = <<b>> /\ Said(ret, body) = <<a, b>>
        BY <2>1 DEF Said, a, b
      <3> QED BY <3>6, <3>7 DEF p, q
    <2>2. CASE ~ body
      <3>1. Append(down[c], a) = down[c] \o <<a>> BY <1>2, <1>3, SMTT(30)
      <3>2. Append(down[c], a) \in Seq(ReplyPart) BY <1>2, <1>3
      <3>3. Append(down[c], a) \o <<>> = Append(down[c], a) BY <3>2
      <3>4. (IF body THEN <<b>> ELSE <<>>) = <<>> /\ Said(ret, body) = <<a>>
        BY <2>2 DEF Said, a
      <3> QED BY <3>1, <3>3, <3>4
    <2> QED BY <2>1, <2>2
  <1> QED BY <1>4 DEF Reply, Writes, shimVars

\* After the reply the round goes on, unless the server is still writing it.
LEMMA WritesServer ==
    ASSUME BasicInv, NEW c \in Clients, Serving(c), NEW ret, NEW body, NEW extra,
           Answer(server.got, ret, body, extra), Writes(c, ret, body, extra)
    PROVE  /\ server' \in ServerRec
           /\ \/ /\ server'.got = <<>> /\ server'.todo = server.todo \ {c}
                 /\ server'.pc = IF server'.todo = {} THEN "poll" ELSE "read"
              \/ /\ server'.got = server.got /\ server'.todo = server.todo
                 /\ server'.pc = "writes" /\ Oversized(server'.got)
  <1>1. CASE ~ (extra /\ ret > 0) BY <1>1, ProceedIs DEF Writes
  <1>2. CASE extra /\ ret > 0
    <2>1. server' = [server EXCEPT !.pc = "writes"] BY <1>2 DEF Writes
    <2>2. server \in ServerRec BY ServerTyped DEF BasicInv
    <2>3. /\ server' \in ServerRec /\ server'.got = server.got
          /\ server'.todo = server.todo /\ server'.pc = "writes"
      BY <2>1, <2>2 DEF ServerRec
    <2>4. server.got[1].v = 1 /\ ret = server.got[2].v /\ AsInt(ret) < 0
      <3>1. ~ (-26 > 0) /\ ~ (-22 > 0) OBVIOUS
      <3>2. ret \notin {-26, -22} BY <1>2, <3>1, Zenon
      <3> QED BY <1>2, <3>2, Zenon DEF Answer
    <2>5. Len(server.got) > 2
      <3>1. server.got \in Seq(Chunk) BY <2>2 DEF ServerRec
      <3> QED BY <2>4, <3>1, ThreeRead DEF Answer
    <2>6. Oversized(server.got) BY <2>4, <2>5 DEF Oversized, OP_PREAD
    <2> QED BY <2>3, <2>6
  <1> QED BY <1>1, <1>2

LEMMA AnswersKeeps ==
    ASSUME BasicInv, NEW c \in Clients, Serving(c), NEW ret \in Int \cup Value,
           NEW body, NEW extra, Answer(server.got, ret, body, extra),
           Writes(c, ret, body, extra)
    PROVE  BasicInv'
  <1>1. /\ server' \in ServerRec
        /\ \/ /\ server'.got = <<>> /\ server'.todo = server.todo \ {c}
              /\ server'.pc = IF server'.todo = {} THEN "poll" ELSE "read"
           \/ /\ server'.got = server.got /\ server'.todo = server.todo
              /\ server'.pc = "writes" /\ Oversized(server'.got)
    BY WritesServer
  <1>2. UNCHANGED <<client, backlog, sock, up, conns>> BY DEF Writes
  <1>3. down' \in [Clients -> Seq(ReplyPart)]
    <2>1. down \in [Clients -> Seq(ReplyPart)] BY DEF BasicInv, DeviceTypes
    <2>2. down[c] \in Seq(ReplyPart) /\ Said(ret, body) \in Seq(ReplyPart)
      BY <2>1, SaidTyped
    <2>3. down[c] \o Said(ret, body) \in Seq(ReplyPart) BY <2>2
    <2> QED BY <2>1, <2>3 DEF Writes
  <1>4. spoiled' \in [Clients -> SUBSET {"up", "down"}]
    <2>1. spoiled \in [Clients -> SUBSET {"up", "down"}] BY DEF BasicInv, DeviceTypes
    <2>2. \/ spoiled' = [spoiled EXCEPT ![c] = @ \cup {"down"}]
          \/ spoiled' = [spoiled EXCEPT ![c] = @]
      BY DEF Writes
    <2> QED BY <2>1, <2>2
  <1>5. DeviceTypes' BY <1>1, <1>2, <1>3, <1>4 DEF BasicInv, DeviceTypes, ServerRec
  <1>6. TableInv'
    <2>1. server.pc = "read" BY DEF Serving
    <2> QED BY <1>1, <1>2, <2>1 DEF BasicInv, TableInv
  <1>7. \A d \in Clients : CallOf(d)' BY <1>2 DEF BasicInv, CallOf
  <1>8. SockInv'
    <2>1. server.pc = "read" BY DEF Serving
    <2>2. server'.pc \in {"poll", "read", "writes"} BY <1>1, Zenon
    <2>3. server'.pc = "writes" => Oversized(server'.got) BY <1>1
    <2>4. StopsOnlyAfterEnd' BY <2>2, <2>3 DEF StopsOnlyAfterEnd, Stopped, Oversized
    <2> QED BY <1>2, <2>1, <2>2, <2>4 DEF BasicInv, SockInv, Alive
  <1> QED BY <1>5, <1>6, <1>7, <1>8 DEF BasicInv

LEMMA ClosesKeeps ==
    ASSUME BasicInv, NEW c \in Clients, Serving(c), Fail(c)
    PROVE  /\ server'.got = <<>> /\ server'.todo = server.todo \ {c}
           /\ sock'[c] # "open" /\ (sock[c] # "open" => sock'[c] = sock[c])
           /\ \A d \in Clients : d # c => sock'[d] = sock[d] /\ up'[d] = up[d]
           /\ UNCHANGED <<client, backlog, down, spoiled>>
           /\ BasicInv'
  <1>1. /\ Proceed
        /\ conns' = RemoveFirst(conns, c)
        /\ sock' = [sock EXCEPT ![c] = Shut(c)]
        /\ up' = [up EXCEPT ![c] = <<>>]
        /\ UNCHANGED <<client, backlog, down, spoiled>>
    BY DEF Fail, shimVars
  <1>2. /\ server' \in ServerRec /\ server'.got = <<>>
        /\ server'.todo = server.todo \ {c}
        /\ server'.pc = IF server'.todo = {} THEN "poll" ELSE "read"
    BY <1>1, ProceedIs
  <1>3. /\ server.pc = "read" /\ c \in server.todo /\ sock[c] \in Alive
        /\ \E k \in 1 .. Len(conns) : conns[k] = c
    BY ServingIs
  <1>4. sock \in [Clients -> SockState] BY DEF BasicInv, DeviceTypes
  <1>5. /\ sock' \in [Clients -> SockState] /\ sock'[c] # "open" /\ sock'[c] # "none"
        /\ \A d \in Clients : d # c => sock'[d] = sock[d]
        /\ sock[c] # "open" => sock'[c] = sock[c]
    BY <1>1, <1>3, <1>4 DEF Shut, SockState, Alive
  <1>6. up' \in [Clients -> Seq(Chunk)] /\ \A d \in Clients : d # c => up'[d] = up[d]
    <2>1. up \in [Clients -> Seq(Chunk)] BY DEF BasicInv, DeviceTypes
    <2>2. <<>> \in Seq(Chunk) OBVIOUS
    <2> QED BY <1>1, <2>1, <2>2
  <1>7. /\ conns' \in Seq(Clients)
        /\ \A j, k \in 1 .. Len(conns') : conns'[j] = conns'[k] => j = k
        /\ \A j \in 1 .. Len(conns') :
              conns'[j] # c /\ \E k \in 1 .. Len(conns) : conns'[j] = conns[k]
        /\ \A k \in 1 .. Len(conns) :
              conns[k] # c => \E j \in 1 .. Len(conns') : conns'[j] = conns[k]
    BY <1>1, <1>3, ConnectionRemoved DEF BasicInv
  <1>8. DeviceTypes' BY <1>1, <1>2, <1>5, <1>6, <1>7 DEF BasicInv, DeviceTypes, ServerRec
  <1>9. TableInv'
    <2>1. TableInv BY DEF BasicInv
    <2>2. ASSUME NEW d \in server'.todo PROVE \E k \in 1 .. Len(conns') : conns'[k] = d
      <3>1. d \in server.todo /\ d # c BY <1>2
      <3>2. PICK k \in 1 .. Len(conns) : conns[k] = d BY <2>1, <3>1 DEF TableInv
      <3> QED BY <1>7, <3>1, <3>2
    <2>3. \A j \in 1 .. Len(conns'), k \in 1 .. Len(backlog) : conns'[j] # backlog[k]
      BY <1>7, <2>1 DEF TableInv
    <2> QED BY <1>1, <1>2, <1>7, <2>1, <2>2, <2>3 DEF TableInv
  <1>10. \A d \in Clients : CallOf(d)' BY <1>1 DEF BasicInv, CallOf
  <1>11. SockInv'
    <2>1. SockInv /\ TableInv BY DEF BasicInv
    <2>2. server'.pc \in {"poll", "read"} BY <1>2
    <2>3. ASSUME NEW d \in Clients PROVE (client'[d].pc = "new") <=> (sock'[d] = "none")
      <3>1. (client[d].pc = "new") <=> (sock[d] = "none") BY <2>1 DEF SockInv
      <3>2. sock[c] # "none" BY <1>3 DEF Alive
      <3>3. CASE d = c BY <1>1, <1>5, <3>1, <3>2, <3>3
      <3>4. CASE d # c BY <1>1, <1>5, <3>1, <3>4
      <3> QED BY <3>3, <3>4
    <2>4. ASSUME NEW j \in 1 .. Len(conns') PROVE sock'[conns'[j]] \in Alive
      <3>1. PICK k \in 1 .. Len(conns) : conns'[j] = conns[k] BY <1>7
      <3>2. conns[k] \in Clients BY TableTyped DEF BasicInv
      <3>3. sock[conns[k]] \in Alive BY <1>3, <2>1 DEF SockInv
      <3> QED BY <1>5, <1>7, <3>1, <3>2, <3>3
    <2>5. ASSUME NEW j \in 1 .. Len(backlog') PROVE sock'[backlog'[j]] \in Alive
      <3>1. backlog[j] \in Clients /\ j \in 1 .. Len(backlog)
        BY <1>1, TableTyped DEF BasicInv
      <3>2. sock[backlog[j]] \in Alive BY <1>3, <2>1, <3>1 DEF SockInv
      <3>3. backlog[j] # c BY <1>3, <2>1, <3>1 DEF TableInv
      <3> QED BY <1>1, <1>5, <3>1, <3>2, <3>3
    <2>6. StopsOnlyAfterEnd' BY <2>2 DEF StopsOnlyAfterEnd, Stopped
    <2>7. Alive' = Alive BY DEF Alive
    <2> QED BY <2>2, <2>3, <2>4, <2>5, <2>6, <2>7 DEF SockInv
  <1> QED BY <1>1, <1>2, <1>5, <1>6, <1>8, <1>9, <1>10, <1>11 DEF BasicInv

-----------------------------------------------------------------------------
LEMMA BasicInit == DeviceInit => BasicInv
  <1> SUFFICES ASSUME DeviceInit PROVE BasicInv
    OBVIOUS
  <1>1. /\ conns = <<>> /\ backlog = <<>>
        /\ server = [pc |-> "poll", todo |-> {}, got |-> <<>>]
        /\ client = [c \in Clients |-> [pc |-> "new", call |-> NoCall, sent |-> 0]]
        /\ sock = [c \in Clients |-> "none"]
        /\ up = [c \in Clients |-> <<>>]
        /\ down = [c \in Clients |-> <<>>]
        /\ spoiled = [c \in Clients |-> {}]
    BY DEF DeviceInit
  <1>2. /\ server.pc = "poll" /\ server.todo = {} /\ server.got = <<>> BY <1>1
  <1>3. /\ <<>> \in Seq(Chunk) /\ <<>> \in Seq(ReplyPart) /\ <<>> \in Seq(Clients)
        /\ Len(conns) = 0 /\ Len(backlog) = 0
    BY <1>1
  <1>4. \A c \in Clients : client[c].pc = "new" BY <1>1
  <1>5. DeviceTypes
    <2>1. client \in [Clients -> ClientRec] BY <1>1 DEF ClientRec, ClientPc
    <2>2. server \in ServerRec BY <1>1, <1>3 DEF ServerRec
    <2>3. sock \in [Clients -> SockState] BY <1>1 DEF SockState
    <2> QED BY <1>1, <1>3, <2>1, <2>2, <2>3 DEF DeviceTypes, ClientRec, ServerRec
  <1>6. TableInv BY <1>2, <1>3 DEF TableInv
  <1>7. SockInv BY <1>1, <1>2, <1>3, <1>4 DEF SockInv, StopsOnlyAfterEnd, Stopped
  <1>8. \A c \in Clients : CallOf(c) BY <1>4 DEF CallOf
  <1> QED BY <1>5, <1>6, <1>7, <1>8 DEF BasicInv

LEMMA BasicUnchanged == ASSUME BasicInv, UNCHANGED deviceVars PROVE BasicInv'
  <1>1. UNCHANGED <<client, sock, up, down, backlog, conns, server, spoiled>>
    BY DEF deviceVars
  <1>2. Current' = Current BY <1>1, CurrentKept
  <1>3. DeviceTypes' BY <1>1 DEF BasicInv, DeviceTypes
  <1>4. TableInv' BY <1>1 DEF BasicInv, TableInv
  <1>5. SockInv' BY <1>1, <1>2 DEF BasicInv, SockInv, StopsOnlyAfterEnd, Stopped, Oversized, Alive
  <1>6. \A c \in Clients : CallOf(c)' BY <1>1 DEF BasicInv, CallOf
  <1> QED BY <1>3, <1>4, <1>5, <1>6 DEF BasicInv

LEMMA BasicKeeps == BasicInv /\ [DeviceNext]_deviceVars => BasicInv'
  <1> SUFFICES ASSUME BasicInv, [DeviceNext]_deviceVars PROVE BasicInv'
    OBVIOUS
  <1>1. CASE ServerStep
    <2>1. nfp_cpp_dev_poll \/ \E c \in Clients : StepOf(c)
      BY <1>1, ServerActs
    <2>2. ASSUME NEW c \in Clients, StepOf(c) PROVE BasicInv'
      <3>1. CASE ReadNext(c) BY <3>1, ReadNextKeeps
      <3>2. CASE ReadsPastEnd(c) BY <3>2, ReadsPastEndKeeps
      <3>3. CASE Closes(c) BY <3>3, ClosesKeeps DEF Closes
      <3>4. CASE Dies BY <3>4, DiesKeeps DEF Dies
      <3>5. CASE Answers(c)
        <4>1. Serving(c) BY <3>5 DEF Answers
        <4>2. PICK ret \in Int \cup Value : \E body, extra :
                 Answer(server.got, ret, body, extra) /\ Reply(c, ret, body, extra)
          BY <3>5 DEF Answers
        <4>3. PICK body, extra :
                 Answer(server.got, ret, body, extra) /\ Reply(c, ret, body, extra)
          BY <4>2
        <4>4. (sock[c] # "open" /\ Killed) \/ Writes(c, ret, body, extra)
          BY <4>3, ReplyActs
        <4>5. sock[c] # "open" => Reason BY <4>1, ServingIs DEF Alive, Reason
        <4> QED BY <4>1, <4>3, <4>4, <4>5, DiesKeeps, AnswersKeeps
      <3> QED BY <2>2, <3>1, <3>2, <3>3, <3>4, <3>5 DEF StepOf
    <2> QED BY <2>1, <2>2, PollKeeps
  <1>2. ASSUME NEW c \in Clients,
               \/ \E open64 \in BOOLEAN : Open(c, open64)
               \/ \E call \in Calls : Call(c, call)
               \/ ShimStep(c)
               \/ Exit(c)
        PROVE  BasicInv'
    BY <1>2, OpenKeeps, CallKeeps, SendKeeps, ReceiveKeeps, ReceiveNothingKeeps, ExitKeeps
       DEF ShimStep
  <1>3. CASE UNCHANGED deviceVars BY <1>3, BasicUnchanged
  <1> QED BY <1>1, <1>2, <1>3 DEF DeviceNext

(***************************************************************************)
(* The loop that serves all tools (nfp_cpp_dev_poll) is brought to spin, to   *)
(* hang in a write, or its process is ended by a signal, only after a client  *)
(* has closed its end, or on a read that malloc has no memory for or whose    *)
(* length is negative as an int: no other calls of any number of clients stop *)
(* it.                                                                        *)
(***************************************************************************)
THEOREM ServerStopsAfterEnd == DeviceSpec => []StopsOnlyAfterEnd
  <1>1. BasicInv => StopsOnlyAfterEnd BY DEF BasicInv, SockInv
  <1> QED BY <1>1, BasicInit, BasicKeeps, PTL DEF DeviceSpec

-----------------------------------------------------------------------------
\* What the handler expects after the beginning of a message: the next part of
\* it; and after the whole message, unless ioctl stopped after one word, nothing.
LEMMA ExpectedValues ==
    ASSUME NEW op, NEW arg
    PROVE  /\ ExpectedBy(0, op, arg) = "word"
           /\ op \in {1, 2, 3} => ExpectedBy(1, op, arg) = "word"
           /\ op \in {1, 2} => ExpectedBy(2, op, arg) = "word"
           /\ op = 1 => ExpectedBy(3, op, arg) = "nothing"
           /\ op = 2 /\ arg = 0 => ExpectedBy(3, op, arg) = "nothing"
           /\ op = 2 /\ arg \in Nat /\ arg > 0 => ExpectedBy(3, op, arg) = "payload"
           /\ op = 3 /\ arg \in Served => ExpectedBy(2, op, arg) = "struct"
           /\ op = 3 /\ arg \notin Served => ExpectedBy(2, op, arg) = "nothing"
           /\ op = 3 => ExpectedBy(3, op, arg) = "nothing"
           /\ ExpectedBy(4, op, arg) = "nothing"
  <1>1. ExpectedBy(0, op, arg) = "word" BY DEF ExpectedBy
  <1>2. op \in {1, 2, 3} => ExpectedBy(1, op, arg) = "word" BY DEF ExpectedBy
  <1>3. op \in {1, 2} => ExpectedBy(2, op, arg) = "word" BY DEF ExpectedBy
  <1>4. op = 1 => ExpectedBy(3, op, arg) = "nothing" BY DEF ExpectedBy
  <1>5. op = 2 /\ arg = 0 => ExpectedBy(3, op, arg) = "nothing" BY DEF ExpectedBy
  <1>6. op = 2 /\ arg \in Nat /\ arg > 0 => ExpectedBy(3, op, arg) = "payload"
    BY DEF ExpectedBy
  <1>7. op = 3 /\ arg \in Served => ExpectedBy(2, op, arg) = "struct" BY DEF ExpectedBy
  <1>8. op = 3 /\ arg \notin Served => ExpectedBy(2, op, arg) = "nothing" BY DEF ExpectedBy
  <1>9. op = 3 => ExpectedBy(3, op, arg) = "nothing" BY DEF ExpectedBy
  <1>10. ExpectedBy(4, op, arg) = "nothing" BY DEF ExpectedBy
  <1> QED BY <1>1, <1>2, <1>3, <1>4, <1>5, <1>6, <1>7, <1>8, <1>9, <1>10

\* g is the beginning of m, and what is expected after it is e.
Follows(g, m, whole) ==
    LET e == Expected(g) IN
    /\ e # "nothing" /\ Len(g) < Len(m) => m[Len(g) + 1].kind = e
    /\ e = "nothing" => \/ Len(g) = Len(m)
                        \/ Len(g) = 2 /\ g[1].v = 3 /\ g[2].v \notin Served
    /\ Len(g) = Len(m) /\ whole => e = "nothing"

LEMMA PartsAre ==
    /\ \A n : Word(n).kind = "word" /\ Word(n).v = n
    /\ \A s : Struct(s).kind = "struct"
    /\ Payload.kind = "payload"
  BY DEF Word, Struct, Payload

LEMMA PrefixExpects ==
    ASSUME NEW call \in Calls, NEW g, g \in Seq(Chunk),
           Len(g) <= Len(Message(call)),
           \A k \in 1 .. Len(g) : g[k] = Message(call)[k]
    PROVE  Follows(g, Message(call), ~ Incomplete(call))
  <1> DEFINE m == Message(call)
             n == Len(g)
             e == Expected(g)
  <1>1. n \in Nat /\ Len(m) \in 1 .. 4 /\ n <= Len(m) BY MessageTyped
  <1>2. e = ExpectedBy(n, g[1].v, g[2].v) BY ExpectedForms
  <1>3. \A k \in 1 .. n : g[k] = m[k] OBVIOUS
  <1>4. Refused(call) => Incomplete(call) BY DEF Incomplete
  <1>5. Follows(g, m, ~ Incomplete(call)) <=>
           /\ e # "nothing" /\ n < Len(m) => m[n + 1].kind = e
           /\ e = "nothing" => n = Len(m) \/ (n = 2 /\ g[1].v = 3 /\ g[2].v \notin Served)
           /\ n = Len(m) /\ ~ Incomplete(call) => e = "nothing"
    BY DEF Follows
  <1> HIDE DEF m, n, e
  <1>6. ASSUME NEW x, NEW y, NEW z, m = <<x, y, z>>
        PROVE  Len(m) = 3 /\ m[1] = x /\ m[2] = y /\ m[3] = z
    BY <1>6
  <1>7. CASE call.fn = "pread"
    <2>1. /\ m = <<Word(1), Word(call.count), Word(call.offset)>>
      BY <1>7, MessageForms DEF m
    <2>2. /\ Len(m) = 3 /\ m[1] = Word(1) /\ m[2] = Word(call.count)
          /\ m[3] = Word(call.offset)
      BY <1>6, <2>1
    <2>3. CASE n = 0 BY <1>2, <1>5, <2>2, <2>3, PartsAre, ExpectedValues DEF m
    <2>4. CASE n = 1
      <3>1. g[1].v = 1 BY <1>3, <2>2, <2>4, PartsAre
      <3> QED BY <1>2, <1>5, <2>2, <2>4, <3>1, PartsAre, ExpectedValues DEF m
    <2>5. CASE n = 2
      <3>1. g[1].v = 1 BY <1>3, <2>2, <2>5, PartsAre
      <3> QED BY <1>2, <1>5, <2>2, <2>5, <3>1, PartsAre, ExpectedValues DEF m
    <2>6. CASE n = 3
      <3>1. g[1].v = 1 BY <1>3, <2>2, <2>6, PartsAre
      <3>2. e = "nothing" BY <1>2, <2>6, <3>1, ExpectedValues
      <3> QED BY <1>5, <2>2, <2>6, <3>2 DEF m
    <2> QED BY <1>1, <2>2, <2>3, <2>4, <2>5, <2>6
  <1>8. CASE call.fn = "pwrite"
    <2>1. /\ call.count \in Nat
          /\ Len(m) \in {3, 4} /\ m[1] = Word(2) /\ m[2] = Word(call.count)
          /\ m[3] = Word(call.offset)
          /\ Len(m) = 3 => call.count = 0
          /\ Len(m) = 4 => call.count > 0 /\ m[4] = Payload
      <3>1. \/ call.count = 0 /\ m = <<Word(2), Word(call.count), Word(call.offset)>>
            \/ /\ call.count > 0
               /\ m = <<Word(2), Word(call.count), Word(call.offset), Payload>>
        BY <1>8, MessageForms DEF m
      <3>2. call.count \in Nat BY <1>8, DeviceAssumption
      <3>3. CASE call.count = 0 /\ m = <<Word(2), Word(call.count), Word(call.offset)>>
        BY <1>6, <3>2, <3>3
      <3>4. CASE /\ call.count > 0
                 /\ m = <<Word(2), Word(call.count), Word(call.offset), Payload>>
        BY <3>2, <3>4
      <3> QED BY <3>1, <3>3, <3>4
    <2>2. CASE n = 0 BY <1>2, <1>5, <2>1, <2>2, PartsAre, ExpectedValues DEF m
    <2>3. CASE n = 1
      <3>1. g[1].v = 2 BY <1>3, <2>1, <2>3, PartsAre
      <3> QED BY <1>2, <1>5, <2>1, <2>3, <3>1, PartsAre, ExpectedValues DEF m
    <2>4. CASE n = 2
      <3>1. g[1].v = 2 BY <1>3, <2>1, <2>4, PartsAre
      <3> QED BY <1>2, <1>5, <2>1, <2>4, <3>1, PartsAre, ExpectedValues DEF m
    <2>5. CASE n = 3
      <3>1. g[1].v = 2 /\ g[2].v = call.count BY <1>3, <2>1, <2>5, PartsAre
      <3>2. CASE Len(m) = 3
        <4>1. e = "nothing" BY <1>2, <2>1, <2>5, <3>1, <3>2, ExpectedValues
        <4> QED BY <1>5, <2>5, <3>2, <4>1 DEF m
      <3>3. CASE Len(m) = 4
        <4>1. call.count \in Nat /\ call.count > 0 BY <2>1, <3>3
        <4>2. ExpectedBy(3, 2, call.count) = "payload" BY <4>1, ExpectedValues
        <4>3. e = "payload" BY <1>2, <2>5, <3>1, <4>2
        <4>4. m[n + 1].kind = "payload" BY <2>1, <2>5, <3>3, PartsAre
        <4> QED BY <1>5, <2>5, <3>3, <4>3, <4>4 DEF m
      <3> QED BY <2>1, <3>2, <3>3
    <2>6. CASE n = 4
      <3>1. e = "nothing" BY <1>2, <2>6, ExpectedValues
      <3>2. \A b \in {3, 4} : 4 <= b => b = 4 OBVIOUS
      <3>3. Len(m) = 4 BY <1>1, <2>1, <2>6, <3>2, Zenon
      <3> QED BY <1>5, <2>6, <3>1, <3>3 DEF m
    <2>7. \A a \in Nat, b \in {3, 4} : a <= b => a \in {0, 1, 2, 3, 4} OBVIOUS
    <2> QED BY <1>1, <2>1, <2>2, <2>3, <2>4, <2>5, <2>6, <2>7
  <1>9. CASE call.fn = "ioctl" /\ Refused(call)
    <2>1. Len(m) = 1 /\ m[1] = Word(3) BY <1>9, MessageTyped DEF m
    <2>2. CASE n = 0 BY <1>2, <1>4, <1>5, <1>9, <2>1, <2>2, PartsAre, ExpectedValues DEF m
    <2>3. CASE n = 1
      <3>1. g[1].v = 3 BY <1>3, <2>1, <2>3, PartsAre
      <3> QED BY <1>2, <1>4, <1>5, <1>9, <2>1, <2>3, <3>1, ExpectedValues DEF m
    <2> QED BY <1>1, <2>1, <2>2, <2>3
  <1>10. CASE call.fn = "ioctl" /\ ~ Refused(call)
    <2>1. /\ Len(m) \in {2, 3} /\ m[1] = Word(3) /\ m[2] = Word(call.request)
          /\ Len(m) = 2 => call.request = 142 \/ ~ call.mapped
          /\ Len(m) = 3 => m[3] = Struct(call.arg)
      <3>1. \/ /\ call.request = 142 \/ ~ call.mapped
               /\ m = <<Word(3), Word(call.request)>>
            \/ m = <<Word(3), Word(call.request), Struct(call.arg)>>
        BY <1>10, MessageForms DEF m
      <3>2. CASE /\ call.request = 142 \/ ~ call.mapped
                 /\ m = <<Word(3), Word(call.request)>>
        BY <3>2
      <3>3. CASE m = <<Word(3), Word(call.request), Struct(call.arg)>> BY <1>6, <3>3
      <3> QED BY <3>1, <3>2, <3>3
    <2>2. 142 \notin Served
      BY DEF Served, NFP_IOCTL_CPP_AREA_REQUEST, NFP_IOCTL_CPP_AREA_RELEASE,
             NFP_IOCTL_CPP_EXPL_REQUEST, NFP_IOCTL_CPP_IDENTIFICATION
    <2>3. CASE n = 0 BY <1>2, <1>5, <2>1, <2>3, PartsAre, ExpectedValues DEF m
    <2>4. CASE n = 1
      <3>1. g[1].v = 3 BY <1>3, <2>1, <2>4, PartsAre
      <3> QED BY <1>2, <1>5, <2>1, <2>4, <3>1, PartsAre, ExpectedValues DEF m
    <2>5. CASE n = 2
      <3>1. g[1].v = 3 /\ g[2].v = call.request BY <1>3, <2>1, <2>5, PartsAre
      <3>2. CASE call.request \in Served
        <4>1. e = "struct" BY <1>2, <2>5, <3>1, <3>2, ExpectedValues
        <4>2. CASE Len(m) = 3 BY <1>5, <2>1, <2>5, <4>1, <4>2, PartsAre DEF m
        <4>3. CASE Len(m) = 2
          <5>1. Incomplete(call) BY <1>10, <2>1, <2>2, <3>2, <4>3 DEF Incomplete
          <5> QED BY <1>5, <2>5, <4>1, <4>3, <5>1 DEF m
        <4> QED BY <2>1, <4>2, <4>3
      <3>3. CASE call.request \notin Served
        <4>1. e = "nothing" BY <1>2, <2>5, <3>1, <3>3, ExpectedValues
        <4> QED BY <1>5, <2>5, <3>1, <3>3, <4>1 DEF m
      <3> QED BY <3>2, <3>3
    <2>6. CASE n = 3
      <3>1. g[1].v = 3 BY <1>3, <2>1, <2>6, PartsAre
      <3>2. e = "nothing" BY <1>2, <2>6, <3>1, ExpectedValues
      <3>3. \A b \in {2, 3} : 3 <= b => b = 3 OBVIOUS
      <3>4. Len(m) = 3 BY <1>1, <2>1, <2>6, <3>3, Zenon
      <3> QED BY <1>5, <2>6, <3>2, <3>4 DEF m
    <2>7. \A a \in Nat, b \in {2, 3} : a <= b => a \in {0, 1, 2, 3} OBVIOUS
    <2> QED BY <1>1, <2>1, <2>3, <2>4, <2>5, <2>6, <2>7
  <1> QED BY <1>7, <1>8, <1>9, <1>10, DeviceAssumption

\* A number that fits into an int is the same as one.
LEMMA AsIntIs == \A n \in Nat : AsInt(n) \in Int /\ (n < IntLimit => AsInt(n) = n)
  <1> SUFFICES ASSUME NEW n \in Nat
               PROVE  AsInt(n) \in Int /\ (n < IntLimit => AsInt(n) = n)
    OBVIOUS
  <1>1. IntLimit \in Nat /\ IntLimit > 26 BY DeviceAssumption
  <1> DEFINE k == n + IntLimit
             N == 2 * IntLimit
  <1>2. k \in Nat /\ N \in Nat /\ N >= 1 BY <1>1
  <1>3. AsInt(n) = (k % N) - IntLimit BY DEF AsInt
  <1> HIDE DEF k, N
  <1>4. k % N \in Int BY <1>2
  <1>5. ASSUME n < IntLimit PROVE AsInt(n) = n
    <2>1. k \in 0 .. (N - 1) BY <1>1, <1>5 DEF k, N
    <2>2. \A M \in Nat : \A j \in 0 .. (M - 1) : j % M = j OBVIOUS
    <2>3. k % N = k BY <1>2, <2>1, <2>2, Zenon
    <2> QED BY <1>1, <1>3, <2>3 DEF k
  <1> QED BY <1>1, <1>3, <1>4, <1>5

\* The answer to a whole message has the parts that its call reads.
LEMMA AnswerFits ==
    ASSUME NEW call \in Calls, ~ Refused(call), NEW g, g \in Seq(Chunk),
           Len(g) = Len(Message(call)),
           \A k \in 1 .. Len(g) : g[k] = Message(call)[k],
           NEW ret, NEW body, Answer(g, ret, body, FALSE)
    PROVE  Len(Said(ret, body)) = ReplyLen(call, ret)
  <1> DEFINE m == Message(call)
  <1>1. /\ g[1].v = m[1].v
        /\ Len(m) > 1 => g[2].v = m[2].v
    <2>1. Len(m) \in 1 .. 4 BY MessageTyped
    <2>2. 1 \in 1 .. Len(g) BY <2>1
    <2>3. Len(m) > 1 => 2 \in 1 .. Len(g) BY <2>1
    <2> QED BY <2>2, <2>3
  <1>2. Len(Said(ret, body)) = IF body THEN 2 ELSE 1 BY DEF Said
  <1> HIDE DEF m
  <1>3. ASSUME NEW x, NEW y, NEW z, m = <<x, y, z>>
        PROVE  Len(m) = 3 /\ m[1] = x /\ m[2] = y
    BY <1>3
  <1>4. CASE call.fn = "pread"
    <2>1. m = <<Word(1), Word(call.count), Word(call.offset)>> /\ call.count \in Nat
      BY <1>4, MessageForms DEF m
    <2>2. Len(m) = 3 /\ m[1] = Word(1) /\ m[2] = Word(call.count) BY <1>3, <2>1
    <2>3. g[1].v = 1 /\ g[2].v = call.count BY <1>1, <2>2, PartsAre
    <2>4. \/ /\ ret = call.count /\ body = (ret > 0)
             /\ FALSE = (ret > 0 /\ AsInt(ret) < 0)
          \/ ret = -5 /\ body = FALSE
      BY <2>3 DEF Answer
    <2>5. HasBody(call, ret) <=> ret > 0 BY <1>4 DEF HasBody
    <2>6. CASE /\ ret = call.count /\ body = (ret > 0)
               /\ FALSE = (ret > 0 /\ AsInt(ret) < 0)
      <3>1. AsInt(ret) \in Int BY <2>1, <2>6, AsIntIs
      <3>2. CASE ret > 0
        <4>1. Len(Said(ret, body)) = 2 BY <1>2, <2>6, <3>2
        <4>2. AsInt(ret) >= 0 BY <2>6, <3>1, <3>2
        <4> QED BY <2>5, <3>2, <4>1, <4>2 DEF ReplyLen
      <3>3. CASE ~ (ret > 0)
        <4>1. Len(Said(ret, body)) = 1 BY <1>2, <2>6, <3>3
        <4> QED BY <2>5, <3>3, <4>1 DEF ReplyLen
      <3> QED BY <3>2, <3>3
    <2>7. CASE ret = -5 /\ body = FALSE BY <1>2, <2>5, <2>7 DEF ReplyLen
    <2> QED BY <2>4, <2>6, <2>7
  <1>5. CASE call.fn = "pwrite"
    <2>1. Len(m) \in {3, 4} /\ m[1] = Word(2)
      <3>1. \/ m = <<Word(2), Word(call.count), Word(call.offset)>>
            \/ m = <<Word(2), Word(call.count), Word(call.offset), Payload>>
        BY <1>5, MessageForms DEF m
      <3>2. CASE m = <<Word(2), Word(call.count), Word(call.offset)>> BY <1>3, <3>2
      <3>3. CASE m = <<Word(2), Word(call.count), Word(call.offset), Payload>> BY <3>3
      <3> QED BY <3>1, <3>2, <3>3
    <2>2. g[1].v = 2 BY <1>1, <2>1, PartsAre
    <2>3. body = FALSE BY <2>2 DEF Answer
    <2>4. ~ HasBody(call, ret) BY <1>5 DEF HasBody
    <2> QED BY <1>2, <2>3, <2>4 DEF ReplyLen
  <1>6. CASE call.fn = "ioctl"
    <2>1. Len(m) \in {2, 3} /\ m[1] = Word(3) /\ m[2] = Word(call.request)
      <3>1. \/ m = <<Word(3), Word(call.request)>>
            \/ m = <<Word(3), Word(call.request), Struct(call.arg)>>
        BY <1>6, MessageForms DEF m
      <3>2. CASE m = <<Word(3), Word(call.request)>> BY <3>2
      <3>3. CASE m = <<Word(3), Word(call.request), Struct(call.arg)>> BY <1>3, <3>3
      <3> QED BY <3>1, <3>2, <3>3
    <2>2. g[1].v = 3 /\ g[2].v = call.request BY <1>1, <2>1, PartsAre
    <2>3. \/ call.request = 128 /\ ret = 0 /\ body = TRUE
          \/ call.request = 129 /\ body = FALSE
          \/ call.request = 143 /\ ret = 20 /\ body = TRUE
      BY <2>2 DEF Answer
    <2>4. HasBody(call, ret) <=> call.request \in {128, 130, 142, 143}
      BY <1>6 DEF HasBody, Served, NFP_IOCTL_CPP_AREA_REQUEST, NFP_IOCTL_CPP_AREA_RELEASE,
             NFP_IOCTL_CPP_EXPL_REQUEST, NFP_IOCTL_CPP_IDENTIFICATION,
             NFP_IOCTL_FIRMWARE_LAST
    <2>5. AsInt(0) = 0 /\ AsInt(20) = 20 BY AsIntIs, DeviceAssumption
    <2> QED BY <1>2, <2>3, <2>4, <2>5 DEF ReplyLen
  <1> QED BY <1>4, <1>5, <1>6, DeviceAssumption

\* Which of the words read make an answer.
LEMMA AnswerIs ==
    ASSUME NEW g, NEW ret, NEW body, NEW extra, Answer(g, ret, body, extra)
    PROVE  /\ Expected(g) = "nothing" /\ g[1].v \in {1, 2, 3}
           /\ g[1].v = 3 => g[2].v \in Served
           /\ extra \in BOOLEAN
  <1>1. Expected(g) = "nothing" BY DEF Answer
  <1>2. g[1].v \in {1, 2, 3} BY DEF Answer
  <1>3. g[1].v = 3 => g[2].v \in {128, 129, 130, 143} BY DEF Answer
  <1>4. Served = {128, 129, 130, 143}
    BY DEF Served, NFP_IOCTL_CPP_AREA_REQUEST, NFP_IOCTL_CPP_AREA_RELEASE,
           NFP_IOCTL_CPP_EXPL_REQUEST, NFP_IOCTL_CPP_IDENTIFICATION
  <1>5. extra \in BOOLEAN
    <2>1. \/ extra = TRUE \/ extra = FALSE
          \/ extra = (ret > 0 /\ AsInt(ret) < 0)
      BY Zenon DEF Answer
    <2> QED BY <2>1
  <1> QED BY <1>1, <1>2, <1>3, <1>4, <1>5

-----------------------------------------------------------------------------
\* The streams as sequences: one part is sent, one is read.
LEMMA AlongSent ==
    ASSUME NEW g, g \in Seq(Chunk), NEW u, u \in Seq(Chunk), NEW m, m \in Seq(Chunk),
           NEW n, n \in Nat, n < Len(m), Along(g, u, m, n),
           NEW v, v = Append(u, m[n + 1])
    PROVE  Along(g, v, m, n + 1)
  <1>1. Len(g) \in Nat /\ Len(u) \in Nat /\ Len(m) \in Nat OBVIOUS
  <1>2. /\ Len(g) + Len(u) = n /\ \A k \in 1 .. Len(g) : g[k] = m[k]
        /\ \A k \in 1 .. Len(u) : u[k] = m[Len(g) + k]
    BY DEF Along
  <1>3. m[n + 1] \in Chunk
    <2>1. n + 1 \in 1 .. Len(m) BY <1>1
    <2> QED BY <2>1
  <1>4. /\ Len(v) = Len(u) + 1 /\ v[Len(u) + 1] = m[n + 1]
        /\ \A k \in 1 .. Len(u) : v[k] = u[k]
    BY <1>1, <1>3
  <1>5. ASSUME NEW k \in 1 .. Len(v) PROVE v[k] = m[Len(g) + k]
    <2>1. CASE k \in 1 .. Len(u) BY <1>2, <1>4, <2>1
    <2>2. CASE k = Len(u) + 1
      <3>1. \A i, j \in Nat : i + (j + 1) = (i + j) + 1 OBVIOUS
      <3>2. Len(g) + Len(u) = n BY <1>2
      <3>3. Len(g) + k = n + 1 BY <1>1, <2>2, <3>1, <3>2, Zenon
      <3> QED BY <1>4, <2>2, <3>3
    <2> QED BY <1>1, <1>4, <2>1, <2>2
  <1>6. Len(g) + Len(v) = n + 1 /\ n + 1 <= Len(m) BY <1>1, <1>2, <1>4
  <1> QED BY <1>2, <1>5, <1>6 DEF Along

\* What reading one part makes of the two sequences.
Moved(g, u, h, v) ==
    /\ Len(h) = Len(g) + 1 /\ Len(v) = Len(u) - 1
    /\ h[Len(g) + 1] = u[1]
    /\ \A k \in 1 .. Len(g) : h[k] = g[k]
    /\ \A k \in 1 .. (Len(u) - 1) : v[k] = u[k + 1]

LEMMA MovedIs ==
    ASSUME NEW g, g \in Seq(Chunk), NEW u, u \in Seq(Chunk), u # <<>>,
           NEW h, h = Append(g, Head(u)), NEW v, v = Tail(u)
    PROVE  Moved(g, u, h, v) /\ h \in Seq(Chunk) /\ v \in Seq(Chunk)
  <1>1. Len(u) > 0 /\ Head(u) = u[1] /\ u[1] \in Chunk
    <2>1. Len(u) \in Nat /\ Len(u) # 0 OBVIOUS
    <2>2. Len(u) > 0 /\ 1 \in 1 .. Len(u) BY <2>1
    <2>3. u[1] \in Chunk BY <2>2
    <2>4. Head(u) = u[1] OBVIOUS
    <2> QED BY <2>2, <2>3, <2>4
  <1>2. /\ h \in Seq(Chunk) /\ Len(h) = Len(g) + 1 /\ h[Len(g) + 1] = u[1]
        /\ \A k \in 1 .. Len(g) : h[k] = g[k]
    BY <1>1
  <1>3. /\ v \in Seq(Chunk) /\ Len(v) = Len(u) - 1
        /\ \A k \in 1 .. (Len(u) - 1) : v[k] = u[k + 1]
    BY <1>1
  <1> QED BY <1>2, <1>3 DEF Moved

LEMMA AlongRead ==
    ASSUME NEW g, g \in Seq(Chunk), NEW u, u \in Seq(Chunk), u # <<>>,
           NEW h, NEW v, Moved(g, u, h, v), NEW m, NEW n, Along(g, u, m, n)
    PROVE  Along(h, v, m, n)
  <1>1. Len(g) \in Nat /\ Len(u) \in Nat /\ Len(u) > 0 OBVIOUS
  <1>2. /\ Len(g) + Len(u) = n /\ \A k \in 1 .. Len(g) : g[k] = m[k]
        /\ \A k \in 1 .. Len(u) : u[k] = m[Len(g) + k]
        /\ n <= Len(m)
    BY DEF Along
  <1>3. /\ Len(h) = Len(g) + 1 /\ Len(v) = Len(u) - 1
        /\ h[Len(g) + 1] = u[1]
        /\ \A k \in 1 .. Len(g) : h[k] = g[k]
        /\ \A k \in 1 .. (Len(u) - 1) : v[k] = u[k + 1]
    BY DEF Moved
  <1>4. ASSUME NEW k \in 1 .. Len(h) PROVE h[k] = m[k]
    <2>1. CASE k \in 1 .. Len(g) BY <1>2, <1>3, <2>1
    <2>2. CASE k = Len(g) + 1
      <3>1. 1 \in 1 .. Len(u) BY <1>1
      <3>2. u[1] = m[Len(g) + 1] BY <1>2, <3>1
      <3> QED BY <1>3, <2>2, <3>2
    <2> QED BY <1>1, <1>3, <2>1, <2>2
  <1>5. ASSUME NEW k \in 1 .. Len(v) PROVE v[k] = m[Len(h) + k]
    <2>1. k + 1 \in 1 .. Len(u) /\ k \in 1 .. (Len(u) - 1) BY <1>1, <1>3
    <2>2. u[k + 1] = m[Len(g) + (k + 1)] BY <1>2, <2>1
    <2>3. Len(g) + (k + 1) = Len(h) + k BY <1>1, <1>3
    <2> QED BY <1>3, <2>1, <2>2, <2>3
  <1>6. Len(h) + Len(v) = n BY <1>1, <1>2, <1>3
  <1> QED BY <1>2, <1>4, <1>5, <1>6 DEF Along

LEMMA SomethingLeft ==
    ASSUME NEW g, g \in Seq(Chunk), NEW u, u \in Seq(Chunk)
    PROVE  Nothing(g, u) <=> Len(g) + Len(u) = 0
  <1>1. Len(g) \in Nat /\ Len(u) \in Nat OBVIOUS
  <1>2. (g = <<>> <=> Len(g) = 0) /\ (u = <<>> <=> Len(u) = 0) OBVIOUS
  <1>3. \A i, j \in Nat : i + j = 0 <=> i = 0 /\ j = 0 OBVIOUS
  <1> QED BY <1>1, <1>2, <1>3 DEF Nothing

\* A read leaves either kind of stream as it is.
LEMMA InStepRead ==
    ASSUME NEW r, NEW g, g \in Seq(Chunk), NEW u, u \in Seq(Chunk), u # <<>>,
           NEW h, NEW v, Moved(g, u, h, v), InStep(r, g, u)
    PROVE  InStep(r, h, v)
  <1>1. ~ Nothing(g, u) BY DEF Nothing
  <1>2. r.pc = "send" => Along(h, v, Message(r.call), r.sent)
    BY AlongRead DEF InStep
  <1>3. ASSUME NEW call, WholeOrNone(g, u, call) PROVE WholeOrNone(h, v, call)
    BY <1>1, <1>3, AlongRead DEF WholeOrNone
  <1> QED BY <1>1, <1>2, <1>3 DEF InStep

LEMMA OutOfStepRead ==
    ASSUME NEW r, NEW g, g \in Seq(Chunk), NEW u, u \in Seq(Chunk), u # <<>>,
           NEW h, NEW v, Moved(g, u, h, v), OutOfStep(r, g, u),
           Expected(g) # "nothing"
    PROVE  OutOfStep(r, h, v)
  <1>1. Len(g) \in Nat /\ Len(u) \in Nat /\ Len(u) > 0 OBVIOUS
  <1>2. Len(g) # 2
    <2> SUFFICES ASSUME Len(g) = 2 PROVE FALSE
      OBVIOUS
    <2>1. g[1] = Word(3) /\ g[2] \in FirstWord BY DEF OutOfStep, OP_IOCTL
    <2>2. PICK n \in 1 .. 3 : g[2] = Word(n) BY <2>1 DEF FirstWord
    <2>3. g[1].v = 3 /\ g[2].v = n BY <2>1, <2>2, PartsAre
    <2>4. n \notin Served
      BY DEF Served, NFP_IOCTL_CPP_AREA_REQUEST, NFP_IOCTL_CPP_AREA_RELEASE,
             NFP_IOCTL_CPP_EXPL_REQUEST, NFP_IOCTL_CPP_IDENTIFICATION
    <2>5. Expected(g) = "nothing" BY <2>3, <2>4, ExpectedForms, ExpectedValues
    <2> QED BY <2>5
  <1>3. /\ Len(h) = Len(g) + 1 /\ Len(v) = Len(u) - 1
        /\ h[Len(g) + 1] = u[1]
        /\ \A k \in 1 .. Len(g) : h[k] = g[k]
        /\ \A k \in 1 .. (Len(u) - 1) : v[k] = u[k + 1]
    BY DEF Moved
  <1>4. Len(h) + Len(v) = Len(g) + Len(u) BY <1>1, <1>3
  <1>5. CASE Len(g) = 0
    <2>1. Len(h) = 1 /\ h[1] = Word(OP_IOCTL) BY <1>3, <1>5 DEF OutOfStep
    <2>2. Len(v) > 0 => v[1] \in FirstWord
      <3> SUFFICES ASSUME Len(v) > 0 PROVE v[1] \in FirstWord
        OBVIOUS
      <3>1. 1 \in 1 .. (Len(u) - 1) /\ Len(u) > 1 BY <1>1, <1>3
      <3>2. v[1] = u[2] BY <1>3, <3>1
      <3> QED BY <1>5, <3>1, <3>2 DEF OutOfStep
    <2>3. Len(g) + Len(u) > 0 BY <1>1
    <2> QED BY <1>4, <2>1, <2>2, <2>3 DEF OutOfStep
  <1>6. CASE Len(g) = 1
    <2>1. Len(h) = 2 BY <1>3, <1>6
    <2>2. h[1] = Word(OP_IOCTL)
      <3>1. 1 \in 1 .. Len(g) BY <1>6
      <3>2. h[1] = g[1] BY <1>3, <3>1
      <3> QED BY <1>6, <3>2 DEF OutOfStep
    <2>3. h[2] \in FirstWord BY <1>1, <1>3, <1>6 DEF OutOfStep
    <2>4. Len(g) + Len(u) > 0 BY <1>1
    <2> QED BY <1>4, <2>1, <2>2, <2>3, <2>4 DEF OutOfStep
  <1>7. Len(g) \in {0, 1}
    <2>1. \A n \in Nat : n <= 2 /\ n # 2 => n \in {0, 1} OBVIOUS
    <2> QED BY <1>1, <1>2, <2>1 DEF OutOfStep
  <1> QED BY <1>5, <1>6, <1>7

LEMMA CutShortRead ==
    ASSUME NEW r, NEW g, g \in Seq(Chunk), NEW u, u \in Seq(Chunk), u # <<>>,
           NEW h, NEW v, Moved(g, u, h, v), CutShort(r, g, u)
    PROVE  CutShort(r, h, v)
  <1>1. PICK call \in Calls : /\ Incomplete(call) /\ ~ Refused(call)
                              /\ Along(g, u, Message(call), Len(Message(call)))
    BY DEF CutShort
  <1>2. Along(h, v, Message(call), Len(Message(call))) BY <1>1, AlongRead
  <1> QED BY <1>1, <1>2 DEF CutShort

LEMMA OutOfStepSent ==
    ASSUME NEW r, NEW q, NEW g, g \in Seq(Chunk), NEW u, u \in Seq(Chunk),
           NEW m, m \in Seq(Chunk), m[1] \in FirstWord,
           r.pc = "send", r.sent \in Nat, r.sent < Len(m), OutOfStep(r, g, u),
           NEW v, v = Append(u, m[r.sent + 1])
    PROVE  OutOfStep(q, g, v)
  <1>1. Len(g) \in Nat /\ Len(u) \in Nat /\ Len(m) \in Nat OBVIOUS
  <1>2. m[r.sent + 1] \in Chunk
    <2>1. r.sent + 1 \in 1 .. Len(m) BY <1>1, SMTT(30)
    <2> QED BY <2>1
  <1>3. /\ Len(v) = Len(u) + 1 /\ v[Len(u) + 1] = m[r.sent + 1]
        /\ \A k \in 1 .. Len(u) : v[k] = u[k]
    BY <1>1, <1>2
  <1>4. Len(g) + Len(u) > 0 BY DEF OutOfStep
  <1>5. Len(g) + Len(v) > 1 BY <1>1, <1>3, <1>4
  <1>6. Len(g) + Len(u) = 1 => m[r.sent + 1] \in FirstWord
    <2> SUFFICES ASSUME Len(g) + Len(u) = 1 PROVE m[r.sent + 1] \in FirstWord
      OBVIOUS
    <2>1. ~ (r.sent > 0) BY DEF OutOfStep
    <2>2. r.sent + 1 = 1 BY <2>1
    <2> QED BY <2>2
  <1>7. Len(u) > 0 => v[1] = u[1]
    <2>1. Len(u) > 0 => 1 \in 1 .. Len(u) BY <1>1
    <2> QED BY <1>3, <2>1
  <1>8. Len(u) > 1 => v[2] = u[2]
    <2>1. Len(u) > 1 => 2 \in 1 .. Len(u) BY <1>1
    <2> QED BY <1>3, <2>1
  <1>9. Len(g) = 0 => v[1] = Word(OP_IOCTL)
    <2>1. Len(g) = 0 => Len(u) > 0 BY <1>1, <1>4
    <2> QED BY <1>7, <2>1 DEF OutOfStep
  <1>10. Len(g) = 0 => v[2] \in FirstWord
    <2> SUFFICES ASSUME Len(g) = 0 PROVE v[2] \in FirstWord
      OBVIOUS
    <2>1. Len(u) > 0 BY <1>1, <1>4
    <2>2. CASE Len(u) = 1
      <3>1. m[r.sent + 1] \in FirstWord BY <1>6, <2>2
      <3> QED BY <1>3, <2>2, <3>1
    <2>3. CASE Len(u) > 1 BY <1>8, <2>3 DEF OutOfStep
    <2>4. \A n \in Nat : n > 0 => n = 1 \/ n > 1 OBVIOUS
    <2> QED BY <1>1, <2>1, <2>2, <2>3, <2>4
  <1>11. Len(g) = 1 => v[1] \in FirstWord
    <2> SUFFICES ASSUME Len(g) = 1 PROVE v[1] \in FirstWord
      OBVIOUS
    <2>1. CASE Len(u) = 0
      <3>1. m[r.sent + 1] \in FirstWord BY <1>6, <2>1
      <3> QED BY <1>3, <2>1, <3>1
    <2>2. CASE Len(u) > 0 BY <1>7, <2>2 DEF OutOfStep
    <2> QED BY <1>1, <2>1, <2>2
  <1>12. /\ Len(g) <= 2 /\ (Len(g) > 0 => g[1] = Word(OP_IOCTL))
         /\ Len(g) > 1 => g[2] \in FirstWord
    BY DEF OutOfStep
  <1>13. Len(g) + Len(v) > 0 BY <1>1, <1>3, <1>5
  <1> QED BY <1>5, <1>9, <1>10, <1>11, <1>12, <1>13 DEF OutOfStep

\* What is read next is what the handler expects.
LEMMA AlongExpects ==
    ASSUME NEW g, g \in Seq(Chunk), NEW u, u \in Seq(Chunk), NEW call \in Calls,
           NEW n, Along(g, u, Message(call), n), Expected(g) # "nothing"
    PROVE  /\ u # <<>> => Head(u).kind = Expected(g)
           /\ n = Len(Message(call)) /\ ~ Incomplete(call) => u # <<>>
  <1> DEFINE m == Message(call)
  <1>1. Len(g) \in Nat /\ Len(u) \in Nat /\ Len(m) \in Nat BY MessageTyped
  <1>2. /\ Len(g) + Len(u) = n /\ n <= Len(m)
        /\ \A k \in 1 .. Len(g) : g[k] = m[k]
        /\ \A k \in 1 .. Len(u) : u[k] = m[Len(g) + k]
    BY DEF Along
  <1>3. Len(g) <= Len(m) BY <1>1, <1>2
  <1>4. Follows(g, m, ~ Incomplete(call)) BY <1>2, <1>3, PrefixExpects
  <1> HIDE DEF m
  <1>5. ASSUME u # <<>> PROVE Head(u).kind = Expected(g)
    <2>1. Len(u) # 0 /\ Head(u) = u[1] BY <1>5
    <2>2. 1 \in 1 .. Len(u) BY <1>1, <2>1
    <2>3. Head(u) = m[Len(g) + 1] BY <1>2, <2>1, <2>2
    <2>4. \A i, j, k \in Nat : i + j <= k /\ j # 0 => i < k OBVIOUS
    <2>5. Len(g) < Len(m) BY <1>1, <1>2, <2>1, <2>4
    <2> QED BY <1>4, <2>3, <2>5 DEF Follows
  <1>6. ASSUME n = Len(m), ~ Incomplete(call) PROVE u # <<>>
    <2>1. Len(g) # Len(m) BY <1>4, <1>6 DEF Follows
    <2> QED BY <1>1, <1>2, <1>6, <2>1
  <1> QED BY <1>5, <1>6 DEF m

\* The server waits for the argument that could not be sent.
LEMMA CutShortExpects ==
    ASSUME NEW r, NEW g, g \in Seq(Chunk), NEW u, u \in Seq(Chunk), CutShort(r, g, u)
    PROVE  /\ r.pc \in {"ret", "astray"}
           /\ Expected(g) # "nothing"
           /\ u # <<>> => Head(u).kind = Expected(g)
  <1>1. PICK call \in Calls : /\ Incomplete(call) /\ ~ Refused(call)
                              /\ Along(g, u, Message(call), Len(Message(call)))
    BY DEF CutShort
  <1>2. call.fn = "ioctl" /\ ~ call.mapped /\ call.request \in Served
    BY <1>1 DEF Incomplete
  <1> DEFINE m == Message(call)
  <1>3. m = <<Word(3), Word(call.request)>> BY <1>1, <1>2, MessageForms
  <1>4. Len(m) = 2 /\ m[1] = Word(3) /\ m[2] = Word(call.request) BY <1>3
  <1>5. Len(g) \in Nat /\ Len(u) \in Nat OBVIOUS
  <1>6. /\ Len(g) + Len(u) = 2 /\ \A k \in 1 .. Len(g) : g[k] = m[k]
    BY <1>1, <1>4 DEF Along
  <1> HIDE DEF m
  <1>7. Expected(g) # "nothing"
    <2>5. Expected(g) = ExpectedBy(Len(g), g[1].v, g[2].v) BY ExpectedForms
    <2>1. CASE Len(g) = 0
      <3>1. Expected(g) = "word" BY <2>1, <2>5, ExpectedValues
      <3> QED BY <3>1
    <2>2. CASE Len(g) = 1
      <3>1. g[1].v = 3 BY <1>4, <1>6, <2>2, PartsAre
      <3> QED BY <2>2, <3>1, ExpectedForms, ExpectedValues
    <2>3. CASE Len(g) = 2
      <3>1. g[1].v = 3 /\ g[2].v = call.request BY <1>4, <1>6, <2>3, PartsAre
      <3>2. ExpectedBy(2, 3, call.request) = "struct" BY <1>2, ExpectedValues
      <3> QED BY <2>3, <2>5, <3>1, <3>2
    <2>4. \A i, j \in Nat : i + j = 2 => i \in {0, 1, 2} OBVIOUS
    <2> QED BY <1>5, <1>6, <2>1, <2>2, <2>3, <2>4
  <1>8. u # <<>> => Head(u).kind = Expected(g) BY <1>1, <1>7, AlongExpects
  <1> QED BY <1>7, <1>8 DEF CutShort

\* What the server has read of a request.
LEMMA GotTyped ==
    ASSUME DeviceTypes, NEW c
    PROVE  Got(c) \in Seq(Chunk)
  <1>1. server.got \in Seq(Chunk) /\ <<>> \in Seq(Chunk) BY ServerTyped
  <1> QED BY <1>1 DEF Got

LEMMA GotKept ==
    ASSUME UNCHANGED <<conns, server>>, NEW c
    PROVE  Got(c)' = Got(c)
  <1>1. Current' = Current BY CurrentKept
  <1> QED BY <1>1 DEF Got

\* The streams of a client that a step does not touch, or whose socket is not
\* open after it.
LEMMA StreamFrame ==
    ASSUME NEW d \in Clients, StreamOf(d),
           client'[d] = client[d], sock'[d] = sock[d], up'[d] = up[d],
           down'[d] = down[d], spoiled'[d] = spoiled[d], Got(d)' = Got(d),
           Due(d)' => Due(d) \/ ~ Nothing(Got(d), up[d]) \/ sock[d] # "open"
    PROVE  StreamOf(d)'
  <1>1. UpOf(d)' BY DEF StreamOf, UpOf
  <1>2. DownOf(d)' BY DEF StreamOf, DownOf
  <1>3. FreshOf(d)' BY DEF StreamOf, FreshOf
  <1> QED BY <1>1, <1>2, <1>3 DEF StreamOf

LEMMA StreamClosed ==
    ASSUME NEW d \in Clients, StreamOf(d),
           client'[d] = client[d], down'[d] = down[d], spoiled'[d] = spoiled[d],
           sock'[d] # "open", client[d].pc = "new" => up'[d] = up[d]
    PROVE  StreamOf(d)'
  <1>1. UpOf(d)' BY DEF UpOf
  <1>2. DownOf(d)' BY DEF StreamOf, DownOf
  <1>3. FreshOf(d)' BY DEF StreamOf, FreshOf
  <1> QED BY <1>1, <1>2, <1>3 DEF StreamOf

-----------------------------------------------------------------------------
\* The server's steps keep the streams.
LEMMA PollStreams ==
    ASSUME StreamsInv, nfp_cpp_dev_poll
    PROVE  StreamsInv'
  <1>1. BasicInv BY DEF StreamsInv
  <1>2. BasicInv' BY <1>1, PollKeeps
  <1>3. /\ server.pc = "poll" /\ server.got = <<>> /\ server'.got = <<>>
        /\ \A c \in server'.todo : up[c] # <<>> \/ sock[c] # "open"
        /\ UNCHANGED <<client, sock, up, down, spoiled>>
    BY <1>1, PollActs
  <1>4. ASSUME NEW d \in Clients PROVE StreamOf(d)'
    <2>1. StreamOf(d) BY DEF StreamsInv
    <2>2. Got(d)' = Got(d) BY <1>3 DEF Got
    <2>3. Due(d)' => ~ Nothing(Got(d), up[d]) \/ sock[d] # "open"
      BY <1>3 DEF Nothing, Due
    <2> QED BY <1>3, <2>1, <2>2, <2>3, StreamFrame
  <1> QED BY <1>2, <1>4 DEF StreamsInv

LEMMA ReadNextStreams ==
    ASSUME StreamsInv, NEW c \in Clients, ReadNext(c)
    PROVE  StreamsInv'
  <1>1. BasicInv /\ DeviceTypes BY DEF StreamsInv, BasicInv
  <1>2. /\ Serving(c) /\ Expected(server.got) # "nothing" /\ up[c] # <<>>
        /\ up' = [up EXCEPT ![c] = Tail(@)]
        /\ server'.pc = "read" /\ server'.todo = server.todo
        /\ server'.got = Append(server.got, Head(up[c]))
        /\ UNCHANGED <<client, backlog, sock, down, conns, spoiled>>
        /\ BasicInv'
    BY <1>1, ReadNextKeeps
  <1>3. Current' = Current /\ server.pc = "read" /\ c = Current
    BY <1>2, CurrentKept DEF Serving
  <1>4. up \in [Clients -> Seq(Chunk)] BY <1>1 DEF DeviceTypes
  <1>5. up'[c] = Tail(up[c]) /\ \A d \in Clients : d # c => up'[d] = up[d]
    BY <1>2, <1>4
  <1>6. ASSUME NEW d \in Clients, d # c PROVE StreamOf(d)'
    <2>1. StreamOf(d) BY DEF StreamsInv
    <2>2. Got(d)' = Got(d) BY <1>3, <1>6 DEF Got
    <2>3. Due(d)' => Due(d) BY <1>2, <1>3 DEF Due
    <2> QED BY <1>2, <1>5, <1>6, <2>1, <2>2, <2>3, StreamFrame
  <1>7. StreamOf(c)'
    <2> DEFINE g == server.got
               u == up[c]
               h == Append(g, Head(u))
               v == Tail(u)
    <2>1. StreamOf(c) BY DEF StreamsInv
    <2>2. Got(c) = g /\ Got(c)' = h /\ up'[c] = v BY <1>2, <1>3, <1>5 DEF Got
    <2>3. g \in Seq(Chunk) /\ u \in Seq(Chunk) /\ u # <<>>
      BY <1>1, <1>2, <1>4, ServerTyped
    <2> HIDE DEF g, u
    <2>4. Moved(g, u, h, v) /\ h \in Seq(Chunk) /\ v \in Seq(Chunk) BY <2>3, MovedIs
    <2> HIDE DEF h, v
    <2>5. Expected(g) # "nothing" BY <1>2 DEF g
    <2>6. UpOf(c)'
      <3> SUFFICES ASSUME sock[c] = "open"
                   PROVE  /\ ~ Nothing(h, v)
                          /\ UpIs(client[c], h, v, spoiled[c])
        BY <1>2, <2>2 DEF UpOf
      <3>1. UpIs(client[c], g, u, spoiled[c]) BY <2>1, <2>2 DEF StreamOf, UpOf, u
      <3>2. UpIs(client[c], h, v, spoiled[c])
        BY <2>3, <2>4, <2>5, <3>1, InStepRead, OutOfStepRead, CutShortRead DEF UpIs
      <3>3. h # <<>>
        <4>1. Len(h) = Len(g) + 1 /\ Len(g) \in Nat BY <2>3, <2>4 DEF Moved
        <4> QED BY <2>4, <4>1
      <3> QED BY <3>2, <3>3 DEF Nothing
    <2>7. ~ Nothing(Got(c), up[c]) BY <1>2 DEF Nothing
    <2>8. DownOf(c)' BY <1>2, <2>1, <2>7 DEF StreamOf, DownOf
    <2>9. FreshOf(c)' BY <1>2, <2>1 DEF StreamOf, FreshOf
    <2> QED BY <2>6, <2>8, <2>9 DEF StreamOf
  <1> QED BY <1>2, <1>6, <1>7 DEF StreamsInv

LEMMA ReadsPastEndStreams ==
    ASSUME StreamsInv, NEW c \in Clients, ReadsPastEnd(c)
    PROVE  StreamsInv'
  <1>1. BasicInv BY DEF StreamsInv
  <1>2. /\ Serving(c) /\ sock[c] = "ended" /\ server'.todo = server.todo
        /\ UNCHANGED <<client, backlog, sock, up, down, conns, spoiled>>
        /\ BasicInv'
    BY <1>1, ReadsPastEndKeeps
  <1>3. Current' = Current /\ c = Current BY <1>2, CurrentKept DEF Serving
  <1>4. ASSUME NEW d \in Clients PROVE StreamOf(d)'
    <2>1. StreamOf(d) BY DEF StreamsInv
    <2>2. CASE d = c BY <1>2, <2>1, <2>2, StreamClosed
    <2>3. CASE d # c
      <3>1. Got(d)' = Got(d) BY <1>3, <2>3 DEF Got
      <3>2. Due(d)' => Due(d) BY <1>2 DEF Due, Serving
      <3> QED BY <1>2, <2>1, <3>1, <3>2, StreamFrame
    <2> QED BY <2>2, <2>3
  <1> QED BY <1>2, <1>4 DEF StreamsInv

LEMMA DiesStreams ==
    ASSUME StreamsInv, Reason, Killed
    PROVE  StreamsInv'
  <1>1. /\ UNCHANGED <<client, up, down, spoiled>>
        /\ \A d \in Clients : sock'[d] # "open"
        /\ BasicInv'
    BY DiesKeeps DEF StreamsInv
  <1>2. \A d \in Clients : StreamOf(d)' BY <1>1, StreamClosed DEF StreamsInv
  <1> QED BY <1>1, <1>2 DEF StreamsInv

LEMMA ClosesStreams ==
    ASSUME StreamsInv, NEW c \in Clients, Serving(c), Fail(c)
    PROVE  StreamsInv'
  <1>1. BasicInv BY DEF StreamsInv
  <1>2. /\ server'.got = <<>> /\ server'.todo = server.todo \ {c}
        /\ sock'[c] # "open"
        /\ \A d \in Clients : d # c => sock'[d] = sock[d] /\ up'[d] = up[d]
        /\ UNCHANGED <<client, backlog, down, spoiled>>
        /\ BasicInv'
    BY <1>1, ClosesKeeps
  <1>3. ASSUME NEW d \in Clients PROVE StreamOf(d)'
    <2>1. StreamOf(d) BY DEF StreamsInv
    <2>2. CASE d = c
      <3>1. sock[c] \in Alive BY <1>1, ServingIs
      <3>2. client[c].pc # "new" BY <1>1, <3>1 DEF BasicInv, SockInv, Alive
      <3> QED BY <1>2, <2>1, <2>2, <3>2, StreamClosed
    <2>3. CASE d # c
      <3>1. Got(d) = <<>> BY <2>3 DEF Got, Serving
      <3>2. Got(d)' = <<>> BY <1>2 DEF Got
      <3>3. Due(d)' => Due(d) BY <1>2 DEF Due, Serving
      <3> QED BY <1>2, <2>1, <2>3, <3>1, <3>2, <3>3, StreamFrame
    <2> QED BY <2>2, <2>3
  <1> QED BY <1>2, <1>3 DEF StreamsInv

\* A request that is answered was in step: the client waits for the answer, and
\* the request was read to its end.
LEMMA AnsweredIsWhole ==
    ASSUME StreamsInv, NEW c \in Clients, Serving(c), sock[c] = "open",
           NEW ret, NEW body, NEW extra, Answer(server.got, ret, body, extra)
    PROVE  /\ "up" \notin spoiled[c] /\ up[c] = <<>> /\ server.got # <<>>
           /\ client[c].pc \in {"ret", "astray"}
           /\ client[c].pc = "ret" =>
                 Along(server.got, up[c], Message(client[c].call),
                       Len(Message(client[c].call)))
  <1> DEFINE g == server.got
             u == up[c]
             r == client[c]
  <1>1. BasicInv /\ DeviceTypes /\ StreamOf(c) BY DEF StreamsInv, BasicInv
  <1>2. Got(c) = g BY DEF Got, Serving
  <1>3. g \in Seq(Chunk) /\ u \in Seq(Chunk) BY <1>1, ServerTyped DEF DeviceTypes
  <1>4. UpIs(r, g, u, spoiled[c]) BY <1>1, <1>2 DEF StreamOf, UpOf
  <1>5. CallOf(c) BY <1>1 DEF BasicInv
  <1>6. /\ Expected(g) = "nothing" /\ g[1].v \in {1, 2, 3}
        /\ g[1].v = 3 => g[2].v \in Served
    BY AnswerIs
  <1> SUFFICES /\ "up" \notin spoiled[c] /\ u = <<>> /\ g # <<>>
               /\ r.pc \in {"ret", "astray"}
               /\ r.pc = "ret" => Along(g, u, Message(r.call), Len(Message(r.call)))
    OBVIOUS
  <1>7. r.pc \in {"send", "ret"} => r.call \in Calls BY <1>5 DEF CallOf
  <1>8. r.pc = "send" => r.sent < Len(Message(r.call)) BY <1>5 DEF CallOf
  <1>9. r.sent \in Nat
    <2>1. r \in ClientRec BY <1>1, ClientTyped
    <2> QED BY <2>1 DEF ClientRec
  <1> HIDE DEF g, u, r
  <1>10. Len(g) \in Nat /\ Len(u) \in Nat BY <1>3
  <1>11. g # <<>>
    <2> SUFFICES ASSUME g = <<>> PROVE FALSE
      OBVIOUS
    <2>1. Len(g) = 0 BY <1>3
    <2>2. Expected(g) = ExpectedBy(0, g[1].v, g[2].v) BY <1>3, <2>1, ExpectedForms
    <2>3. Expected(g) = "word" BY <2>2, ExpectedValues
    <2> QED BY <1>6, <2>3
  <1>12. "up" \notin spoiled[c]
    <2> SUFFICES ASSUME "up" \in spoiled[c] PROVE FALSE
      OBVIOUS
    <2>1. OutOfStep(r, g, u) BY <1>3, <1>4, <1>6, CutShortExpects DEF UpIs
    <2>2. Len(g) # 0 /\ Len(g) \in Nat /\ Len(g) <= 2
      BY <1>3, <1>10, <1>11, <2>1 DEF OutOfStep
    <2>3. Len(g) > 0 BY <2>2
    <2>4. g[1].v = 3 BY <2>1, <2>3, PartsAre DEF OutOfStep, OP_IOCTL
    <2>5. CASE Len(g) = 1
      <3>1. Expected(g) = "word" BY <1>3, <2>4, <2>5, ExpectedForms, ExpectedValues
      <3> QED BY <1>6, <3>1
    <2>6. CASE Len(g) = 2
      <3>1. g[2] \in FirstWord BY <2>1, <2>6 DEF OutOfStep
      <3>2. PICK n \in 1 .. 3 : g[2] = Word(n) BY <3>1 DEF FirstWord
      <3>3. g[2].v \notin Served
        BY <3>2, PartsAre DEF Served, NFP_IOCTL_CPP_AREA_REQUEST,
               NFP_IOCTL_CPP_AREA_RELEASE, NFP_IOCTL_CPP_EXPL_REQUEST,
               NFP_IOCTL_CPP_IDENTIFICATION
      <3> QED BY <1>6, <2>4, <3>3
    <2>7. \A n \in Nat : n # 0 /\ n <= 2 => n = 1 \/ n = 2 OBVIOUS
    <2> QED BY <2>2, <2>5, <2>6, <2>7
  <1>13. InStep(r, g, u) BY <1>4, <1>12 DEF UpIs
  <1>14. ASSUME NEW call \in Calls, NEW n, n \in Nat, Along(g, u, Message(call), n)
         PROVE  n = Len(Message(call)) /\ u = <<>>
    <2> DEFINE m == Message(call)
    <2>1. Len(m) \in Nat BY MessageTyped
    <2>2. /\ Len(g) + Len(u) = n /\ n <= Len(m)
          /\ \A k \in 1 .. Len(g) : g[k] = m[k]
      BY <1>14 DEF Along
    <2>3. Len(g) <= Len(m) BY <1>10, <1>14, <2>1, <2>2
    <2>4. Follows(g, m, ~ Incomplete(call)) BY <1>3, <2>2, <2>3, PrefixExpects
    <2> HIDE DEF m
    <2>5. Len(g) = Len(m) BY <1>6, <2>4 DEF Follows
    <2>6. \A i, j, k \in Nat : i + j = k /\ k <= i => j = 0 /\ k = i OBVIOUS
    <2>7. Len(u) = 0 /\ n = Len(m) BY <1>10, <1>14, <2>2, <2>5, <2>6
    <2>8. u = <<>> BY <1>3, <2>7
    <2> QED BY <2>7, <2>8 DEF m
  <1>15. ASSUME NEW call \in Calls, WholeOrNone(g, u, call)
         PROVE  u = <<>> /\ Along(g, u, Message(call), Len(Message(call)))
    <2>1. Along(g, u, Message(call), Len(Message(call)))
      BY <1>11, <1>15 DEF WholeOrNone, Nothing
    <2>2. Len(Message(call)) \in Nat BY MessageTyped
    <2> QED BY <1>14, <2>1, <2>2
  <1>16. r.pc # "send"
    <2> SUFFICES ASSUME r.pc = "send" PROVE FALSE
      OBVIOUS
    <2>1. r.call \in Calls /\ Along(g, u, Message(r.call), r.sent)
      BY <1>7, <1>13 DEF InStep
    <2>2. r.sent = Len(Message(r.call)) BY <1>9, <1>14, <2>1
    <2>3. r.sent < Len(Message(r.call)) BY <1>8
    <2> QED BY <1>9, <2>2, <2>3
  <1>17. r.pc \in {"ret", "astray"} BY <1>11, <1>13, <1>16 DEF InStep, Nothing
  <1>18. CASE r.pc = "ret"
    <2>1. r.call \in Calls /\ WholeOrNone(g, u, r.call) BY <1>7, <1>13, <1>18 DEF InStep
    <2> QED BY <1>11, <1>12, <1>15, <1>18, <2>1
  <1>19. CASE r.pc = "astray"
    <2>1. PICK call \in Calls : WholeOrNone(g, u, call) BY <1>13, <1>19 DEF InStep
    <2> QED BY <1>11, <1>12, <1>15, <1>19, <2>1
  <1> QED BY <1>17, <1>18, <1>19

LEMMA AnswersStreams ==
    ASSUME StreamsInv, NEW c \in Clients, Serving(c), NEW ret \in Int \cup Value,
           NEW body, NEW extra, Answer(server.got, ret, body, extra),
           Writes(c, ret, body, extra)
    PROVE  StreamsInv'
  <1>1. BasicInv /\ DeviceTypes BY DEF StreamsInv, BasicInv
  <1>2. BasicInv' BY <1>1, AnswersKeeps
  <1>3. \/ server'.got = <<>> /\ server'.todo = server.todo \ {c}
        \/ server'.pc = "writes"
    BY <1>1, WritesServer
  <1>4. sock[c] = "open" /\ UNCHANGED <<client, sock, up>> BY DEF Writes
  <1>5. down \in [Clients -> Seq(ReplyPart)]
           /\ spoiled \in [Clients -> SUBSET {"up", "down"}]
    BY <1>1 DEF DeviceTypes
  <1> DEFINE s == Said(ret, body)
  <1>6. /\ down'[c] = down[c] \o s
        /\ \A d \in Clients : d # c => down'[d] = down[d] /\ spoiled'[d] = spoiled[d]
    BY <1>5 DEF Writes
  <1>7. /\ extra => spoiled'[c] = spoiled[c] \cup {"down"}
        /\ ~ extra => spoiled'[c] = spoiled[c]
    BY <1>5 DEF Writes
  <1>8. ASSUME NEW d \in Clients, d # c PROVE StreamOf(d)'
    <2>1. StreamOf(d) BY DEF StreamsInv
    <2>2. Got(d) = <<>> BY <1>8 DEF Got, Serving
    <2>3. Got(d)' = <<>> BY <1>3 DEF Got
    <2>4. Due(d)' => Due(d) BY <1>3 DEF Due, Serving
    <2> QED BY <1>4, <1>6, <1>8, <2>1, <2>2, <2>3, <2>4, StreamFrame
  <1>9. StreamOf(c)'
    <2>1. StreamOf(c) BY DEF StreamsInv
    <2>2. /\ "up" \notin spoiled[c] /\ up[c] = <<>> /\ server.got # <<>>
          /\ client[c].pc \in {"ret", "astray"}
          /\ client[c].pc = "ret" =>
                Along(server.got, up[c], Message(client[c].call),
                      Len(Message(client[c].call)))
      BY <1>4, AnsweredIsWhole
    <2>3. Got(c) = server.got BY DEF Got, Serving
    <2>4. Got(c)' = <<>> BY <1>3 DEF Got
    <2>5. "up" \notin spoiled'[c] BY <1>7, <2>2
    <2>6. UpOf(c)'
      <3>1. Nothing(<<>>, up[c]) BY <2>2 DEF Nothing
      <3>2. InStep(client[c], <<>>, up[c])
        <4>1. /\ client[c].pc = "ret" => ~ Incomplete(client[c].call)
              /\ client[c].pc = "astray" => \E call \in Calls : ~ Incomplete(call)
          BY <1>4, <2>1, <2>2, <2>3 DEF StreamOf, UpOf, UpIs, InStep
        <4> QED BY <2>2, <3>1, <4>1 DEF InStep, WholeOrNone
      <3>3. UpIs(client[c], <<>>, up[c], spoiled'[c]) BY <2>5, <3>2 DEF UpIs
      <3>4. ~ Due(c)' BY <1>3 DEF Due
      <3> QED BY <1>4, <2>4, <3>3, <3>4 DEF UpOf
    <2>7. FreshOf(c)' BY <1>4, <2>2 DEF FreshOf
    <2>8. DownOf(c)'
      <3>1. ~ Nothing(Got(c), up[c]) BY <2>2, <2>3 DEF Nothing
      <3>2. client[c].pc = "ret" /\ down[c] # <<>> =>
               /\ Head(down[c]).part # "ret"
               /\ "down" \in spoiled[c]
        BY <1>4, <2>1, <3>1 DEF StreamOf, DownOf
      <3>3. /\ s \in Seq(ReplyPart) /\ s[1] = [part |-> "ret", v |-> ret]
            /\ Len(s) = IF body THEN 2 ELSE 1
            /\ body => s[2] = [part |-> "body", v |-> 0]
        BY SaidTyped
      <3> HIDE DEF s
      <3>4. down[c] \in Seq(ReplyPart) BY <1>5
      <3>5. CASE down[c] = <<>>
        <4>1. down'[c] = s BY <1>6, <3>3, <3>5
        <4>2. s # <<>> /\ Head(s) = [part |-> "ret", v |-> ret]
          BY <3>3
        <4>3. \A k \in 2 .. Len(s) : s[k].part = "body"
          <5>1. CASE body
            <6>1. Len(s) = 2 /\ s[2].part = "body" BY <3>3, <5>1
            <6> QED BY <6>1
          <5>2. CASE ~ body
            <6>1. Len(s) = 1 BY <3>3, <5>2
            <6> QED BY <6>1
          <5> QED BY <5>1, <5>2
        <4>4. Nothing(Got(c)', up'[c]) BY <1>4, <2>2, <2>4 DEF Nothing
        <4>5. "down" \notin spoiled'[c] =>
                 client[c].pc = "ret" /\ Len(s) = ReplyLen(client[c].call, ret)
          <5> SUFFICES ASSUME "down" \notin spoiled'[c]
                       PROVE  client[c].pc = "ret" /\ Len(s) = ReplyLen(client[c].call, ret)
            OBVIOUS
          <5>1. ~ extra /\ "down" \notin spoiled[c] BY <1>7
          <5>2. extra = FALSE BY <5>1, AnswerIs
          <5>3. client[c].pc = "ret" BY <2>1, <2>2, <5>1 DEF StreamOf, DownOf
          <5> DEFINE call == client[c].call
                     g == server.got
          <5>4. call \in Calls /\ ~ Refused(call) BY <1>1, <5>3 DEF BasicInv, CallOf
          <5>5. g \in Seq(Chunk) BY <1>1, ServerTyped
          <5>6. /\ Len(g) = Len(Message(call))
                /\ \A k \in 1 .. Len(g) : g[k] = Message(call)[k]
            <6>1. Along(g, <<>>, Message(call), Len(Message(call))) BY <2>2, <5>3
            <6>2. Len(g) + Len(<<>>) = Len(Message(call)) BY <6>1 DEF Along
            <6>3. Len(g) \in Nat /\ Len(<<>>) = 0 BY <5>5
            <6>4. Len(g) = Len(Message(call)) BY <6>2, <6>3
            <6> QED BY <6>1, <6>4 DEF Along
          <5>7. Answer(g, ret, body, FALSE) BY <5>2
          <5> HIDE DEF call, g
          <5>8. Len(Said(ret, body)) = ReplyLen(call, ret)
            BY <5>4, <5>5, <5>6, <5>7, AnswerFits
          <5> QED BY <5>3, <5>8 DEF s, call
        <4>6. Head(down'[c]).part = "ret" /\ Head(down'[c]).v = ret BY <4>1, <4>2
        <4>7. client'[c] = client[c] /\ sock'[c] = sock[c] BY <1>4
        <4>8. client[c].pc \notin {"idle", "send", "spins"} BY <2>2
        <4> QED BY <2>5, <4>1, <4>3, <4>4, <4>5, <4>6, <4>7, <4>8 DEF DownOf, ReplyLen
      <3>6. CASE down[c] # <<>>
        <4>1. down'[c] # <<>> /\ Head(down'[c]) = Head(down[c])
          <5>1. Len(down[c]) > 0 /\ Len(down[c]) \in Nat BY <3>4, <3>6
          <5>2. /\ down[c] \o s \in Seq(ReplyPart)
                /\ Len(down[c] \o s) = Len(down[c]) + Len(s) /\ Len(s) \in Nat
            <6>1. s \in Seq(ReplyPart) /\ down[c] \in Seq(ReplyPart) BY <3>3, <3>4
            <6>2. down[c] \o s \in Seq(ReplyPart) BY <6>1
            <6>3. Len(down[c] \o s) = Len(down[c]) + Len(s) BY <6>1
            <6>4. Len(s) \in Nat BY <6>1
            <6> QED BY <6>2, <6>3, <6>4
          <5>3. (down[c] \o s)[1] = down[c][1] BY <3>3, <3>4, <5>1
          <5> QED BY <1>6, <3>4, <3>6, <5>1, <5>2, <5>3
        <4>2. "down" \in spoiled[c]
          <5>1. client[c].pc = "astray" => "down" \in spoiled[c]
            BY <2>1 DEF StreamOf, DownOf
          <5> QED BY <2>2, <3>2, <3>6, <5>1
        <4>3. "down" \in spoiled'[c] BY <1>7, <4>2
        <4>4. client[c].pc = "ret" => Head(down'[c]).part # "ret" BY <3>2, <3>6, <4>1
        <4> QED BY <1>4, <2>2, <4>3, <4>4 DEF DownOf
      <3> QED BY <3>5, <3>6
    <2> QED BY <2>6, <2>7, <2>8 DEF StreamOf
  <1> QED BY <1>2, <1>8, <1>9 DEF StreamsInv

-----------------------------------------------------------------------------
\* The shim's steps keep the streams: those of other clients are not touched.
LEMMA OthersKept ==
    ASSUME StreamsInv, NEW c \in Clients, UNCHANGED <<conns, server>>,
           \A d \in Clients : d # c => /\ client'[d] = client[d] /\ sock'[d] = sock[d]
                                       /\ up'[d] = up[d] /\ down'[d] = down[d]
                                       /\ spoiled'[d] = spoiled[d],
           BasicInv', StreamOf(c)'
    PROVE  StreamsInv'
  <1>1. ASSUME NEW d \in Clients, d # c PROVE StreamOf(d)'
    <2>1. StreamOf(d) BY DEF StreamsInv
    <2>2. Got(d)' = Got(d) BY GotKept
    <2>3. Due(d)' => Due(d) BY DEF Due
    <2> QED BY <1>1, <2>1, <2>2, <2>3, StreamFrame
  <1> QED BY <1>1 DEF StreamsInv

LEMMA OpenStreams ==
    ASSUME StreamsInv, NEW c \in Clients, NEW open64 \in BOOLEAN, Open(c, open64)
    PROVE  StreamsInv'
  <1>1. BasicInv /\ DeviceTypes /\ StreamOf(c) BY DEF StreamsInv, BasicInv
  <1>2. BasicInv' BY <1>1, OpenKeeps
  <1>3. /\ client[c].pc = "new" /\ server.pc # "killed"
        /\ client'[c].pc \in {"idle", "adrift"}
        /\ \A d \in Clients : d # c => client'[d] = client[d]
        /\ sock' = [sock EXCEPT ![c] = "open"]
        /\ UNCHANGED <<up, down, spoiled, conns, server>>
    BY <1>1, OpenActs
  <1>4. \A d \in Clients : d # c => sock'[d] = sock[d] BY <1>1, <1>3 DEF DeviceTypes
  <1>5. up[c] = <<>> /\ down[c] = <<>> /\ spoiled[c] = {}
    BY <1>1, <1>3 DEF StreamOf, FreshOf
  <1>6. sock[c] = "none" BY <1>1, <1>3 DEF BasicInv, SockInv
  <1>7. \A k \in 1 .. Len(conns) : conns[k] # c
    BY <1>1, <1>3, <1>6 DEF BasicInv, SockInv, Alive
  <1>8. c \notin server.todo BY <1>1, <1>7 DEF BasicInv, TableInv
  <1>9. Got(c) = <<>>
    <2>1. ~ Serving(c) BY <1>1, <1>8, ServingIs
    <2> QED BY <2>1 DEF Serving, Got
  <1>10. Got(c)' = <<>> BY <1>3, <1>9, GotKept
  <1>11. StreamOf(c)'
    <2>1. UpOf(c)'
      <3>1. InStep(client'[c], <<>>, <<>>) BY <1>3 DEF InStep, Nothing
      <3>2. UpIs(client'[c], Got(c)', up'[c], spoiled'[c])
        BY <1>3, <1>5, <1>10, <3>1 DEF UpIs
      <3>3. ~ Due(c)' BY <1>3, <1>8 DEF Due
      <3> QED BY <3>2, <3>3 DEF UpOf
    <2>2. DownOf(c)' BY <1>3, <1>5 DEF DownOf
    <2>3. FreshOf(c)' BY <1>3 DEF FreshOf
    <2> QED BY <2>1, <2>2, <2>3 DEF StreamOf
  <1> QED BY <1>2, <1>3, <1>4, <1>11, OthersKept

LEMMA CallStreams ==
    ASSUME StreamsInv, NEW c \in Clients, NEW call \in Calls, Call(c, call)
    PROVE  StreamsInv'
  <1> DEFINE r == [pc |-> "send", call |-> call, sent |-> 0]
             g == Got(c)
             u == up[c]
  <1>1. BasicInv /\ DeviceTypes /\ StreamOf(c) BY DEF StreamsInv, BasicInv
  <1>2. BasicInv' BY <1>1, CallKeeps
  <1>3. /\ client' = [client EXCEPT ![c] = r] /\ client[c].pc = "idle"
        /\ UNCHANGED <<sock, up, down, spoiled, conns, server>>
    BY DEF Call, serverVars
  <1>4. /\ client'[c] = r /\ \A d \in Clients : d # c => client'[d] = client[d]
    BY <1>1, <1>3, ClientTyped
  <1>5. r.pc = "send" /\ r.call = call /\ r.sent = 0 OBVIOUS
  <1>6. g \in Seq(Chunk) /\ u \in Seq(Chunk) BY <1>1, GotTyped DEF DeviceTypes
  <1>7. Got(c)' = g BY <1>3, GotKept
  <1> HIDE DEF r, g, u
  <1>8. UpOf(c)'
    <2> SUFFICES ASSUME sock[c] = "open"
                 PROVE  /\ Due(c) => ~ Nothing(g, u)
                        /\ UpIs(r, g, u, spoiled[c])
      BY <1>3, <1>4, <1>7 DEF UpOf, Due, u
    <2>1. /\ Due(c) => ~ Nothing(g, u)
          /\ UpIs(client[c], g, u, spoiled[c])
      BY <1>1 DEF StreamOf, UpOf, g, u
    <2>2. CASE "up" \in spoiled[c]
      BY <1>3, <1>5, <2>1, <2>2 DEF UpIs, OutOfStep, CutShort
    <2>3. CASE "up" \notin spoiled[c]
      <3>1. Nothing(g, u) BY <1>3, <2>1, <2>3 DEF UpIs, InStep
      <3>2. Len(g) = 0 /\ Len(u) = 0 BY <1>6, <3>1 DEF Nothing
      <3>3. 0 <= Len(Message(call)) BY MessageTyped
      <3>4. Along(g, u, Message(call), 0) BY <3>2, <3>3 DEF Along
      <3> QED BY <1>5, <2>1, <2>3, <3>4 DEF UpIs, InStep
    <2> QED BY <2>1, <2>2, <2>3
  <1>9. DownOf(c)' BY <1>1, <1>3, <1>4, <1>5 DEF StreamOf, DownOf
  <1>10. FreshOf(c)' BY <1>4, <1>5 DEF FreshOf
  <1>11. StreamOf(c)' BY <1>8, <1>9, <1>10 DEF StreamOf
  <1> QED BY <1>2, <1>3, <1>4, <1>11, OthersKept

LEMMA ExitStreams ==
    ASSUME StreamsInv, NEW c \in Clients, Exit(c)
    PROVE  StreamsInv'
  <1>1. BasicInv /\ DeviceTypes BY DEF StreamsInv, BasicInv
  <1>2. BasicInv' BY <1>1, ExitKeeps
  <1>3. /\ CallEnds(c, "gone") /\ UNCHANGED <<up, down, spoiled, conns, server>>
    BY DEF Exit, serverVars, Gone
  <1>4. /\ client'[c].pc = "gone"
        /\ \A d \in Clients : d # c => client'[d] = client[d]
    BY <1>1, <1>3, CallEndsTyped DEF ClientPc
  <1>5. sock'[c] # "open" /\ \A d \in Clients : d # c => sock'[d] = sock[d]
    <2>1. sock \in [Clients -> SockState] BY <1>1 DEF DeviceTypes
    <2> QED BY <2>1 DEF Exit
  <1>6. StreamOf(c)' BY <1>4, <1>5 DEF StreamOf, UpOf, DownOf, FreshOf
  <1> QED BY <1>2, <1>3, <1>4, <1>5, <1>6, OthersKept

LEMMA ReceiveNothingStreams ==
    ASSUME StreamsInv, NEW c \in Clients, ReceiveNothing(c)
    PROVE  StreamsInv'
  <1>1. BasicInv /\ DeviceTypes BY DEF StreamsInv, BasicInv
  <1>2. BasicInv' BY <1>1, ReceiveNothingKeeps
  <1>3. /\ down[c] = <<>> /\ UNCHANGED <<up, down, spoiled, conns, server>>
        /\ \E pc \in {"idle", "gone", "spins"} : CallEnds(c, pc)
    BY DEF ReceiveNothing, serverVars, Gone
  <1>4. /\ client'[c].pc \in {"idle", "gone", "spins"}
        /\ \A d \in Clients : d # c => client'[d] = client[d]
    BY <1>1, <1>3, CallEndsTyped DEF ClientPc
  <1>5. sock'[c] # "open" /\ \A d \in Clients : d # c => sock'[d] = sock[d]
    <2>1. sock \in [Clients -> SockState] BY <1>1 DEF DeviceTypes
    <2> QED BY <2>1 DEF ReceiveNothing
  <1>6. UpOf(c)' BY <1>5 DEF UpOf
  <1>7. DownOf(c)' BY <1>3, <1>4, <1>5 DEF DownOf
  <1>8. FreshOf(c)' BY <1>4 DEF FreshOf
  <1>9. StreamOf(c)' BY <1>6, <1>7, <1>8 DEF StreamOf
  <1> QED BY <1>2, <1>3, <1>4, <1>5, <1>9, OthersKept

\* A part that is sent keeps the stream in step; or, if it was the last of a call
\* that ioctl refuses or cannot send the argument of, puts it out of step.
SentBy(r, sp, u, v, q, sq) ==
    /\ r.pc = "send" /\ r.call \in Calls /\ r.sent < Len(Message(r.call))
    /\ v = Append(u, Message(r.call)[r.sent + 1])
    /\ \/ q.pc = "send" /\ q.call = r.call /\ q.sent = r.sent + 1 /\ sq = sp
       \/ /\ q.pc = "idle" /\ Refused(r.call) /\ r.sent + 1 = Len(Message(r.call))
          /\ sq = sp \cup {"up"}
       \/ /\ q.pc = "ret" /\ q.call = r.call /\ r.sent + 1 = Len(Message(r.call))
          /\ \/ ~ Incomplete(r.call) /\ sq = sp
             \/ Incomplete(r.call) /\ ~ Refused(r.call) /\ sq = sp \cup {"up"}

LEMMA SentUp ==
    ASSUME NEW r, r \in ClientRec, NEW sp, NEW g, g \in Seq(Chunk),
           NEW u, u \in Seq(Chunk), UpIs(r, g, u, sp),
           NEW v, NEW q, NEW sq, SentBy(r, sp, u, v, q, sq)
    PROVE  UpIs(q, g, v, sq) /\ ~ Nothing(g, v)
  <1> USE DEF SentBy
  <1> DEFINE m == Message(r.call)
             n == r.sent
  <1>1. n \in Nat BY DEF ClientRec
  <1>2. m \in Seq(Chunk) /\ Len(m) \in Nat /\ m[1] \in FirstWord
    <2>1. FirstWord = {Word(1), Word(2), Word(3)}
      <3>1. 1 .. 3 = {1, 2, 3} OBVIOUS
      <3> QED BY <3>1 DEF FirstWord
    <2> QED BY <2>1, MessageTyped
  <1>3. ~ Nothing(g, v)
    <2>1. n + 1 \in 1 .. Len(m) BY <1>1, <1>2
    <2>2. m[n + 1] \in Chunk BY <1>2, <2>1
    <2>3. v # <<>> BY <2>2
    <2> QED BY <2>3 DEF Nothing
  <1>4. CASE "up" \in sp
    <2>1. OutOfStep(r, g, u) BY <1>4 DEF UpIs, CutShort
    <2>2. OutOfStep(q, g, v) BY <1>1, <1>2, <2>1, OutOfStepSent
    <2>3. "up" \in sq BY <1>4
    <2> QED BY <1>3, <2>2, <2>3 DEF UpIs
  <1>5. CASE "up" \notin sp
    <2>1. Along(g, u, m, n) BY <1>5 DEF UpIs, InStep
    <2> HIDE DEF m, n
    <2>2. Along(g, v, m, n + 1) BY <1>1, <1>2, <2>1, AlongSent DEF m, n
    <2>3. CASE q.pc = "send" /\ q.call = r.call /\ q.sent = n + 1 /\ sq = sp
      BY <1>3, <1>5, <2>2, <2>3 DEF UpIs, InStep, m
    <2>4. CASE /\ q.pc = "ret" /\ q.call = r.call /\ n + 1 = Len(m) /\ sq = sp
               /\ ~ Incomplete(r.call)
      BY <1>3, <1>5, <2>2, <2>4 DEF UpIs, InStep, WholeOrNone, m
    <2>6. CASE /\ q.pc = "ret" /\ n + 1 = Len(m)
               /\ Incomplete(r.call) /\ ~ Refused(r.call) /\ sq = sp \cup {"up"}
      <3>1. CutShort(q, g, v) BY <2>2, <2>6 DEF CutShort, m
      <3> QED BY <1>3, <2>6, <3>1 DEF UpIs
    <2>5. CASE q.pc = "idle" /\ Refused(r.call) /\ sq = sp \cup {"up"}
      <3>1. m = <<Word(3)>> /\ Len(m) = 1 BY <2>5, MessageTyped DEF m
      <3>2. n = 0
        <4>1. n < Len(m) BY DEF n, m
        <4> QED BY <1>1, <3>1, <4>1
      <3>3. Len(g) = 0 /\ Len(u) = 0
        <4>1. Len(g) + Len(u) = 0 BY <2>1, <3>2 DEF Along
        <4>2. Len(g) \in Nat /\ Len(u) \in Nat OBVIOUS
        <4>3. \A i, j \in Nat : i + j = 0 => i = 0 /\ j = 0 OBVIOUS
        <4> QED BY <4>1, <4>2, <4>3
      <3>4. Len(v) = 1 /\ v[1] = Word(3)
        <4>1. u = <<>> BY <3>3
        <4>2. m[n + 1] = Word(3) BY <3>1, <3>2
        <4>3. v = Append(<<>>, Word(3)) BY <4>1, <4>2 DEF m, n
        <4> QED BY <4>3
      <3>5. OutOfStep(q, g, v) BY <2>5, <3>3, <3>4 DEF OutOfStep, OP_IOCTL
      <3> QED BY <1>3, <2>5, <3>5 DEF UpIs
    <2> QED BY <2>3, <2>4, <2>5, <2>6 DEF m, n
  <1> QED BY <1>4, <1>5

LEMMA SendStreams ==
    ASSUME StreamsInv, NEW c \in Clients, Send(c)
    PROVE  StreamsInv'
  <1> DEFINE r == client[c]
             m == Message(r.call)
             g == Got(c)
             u == up[c]
             v == Append(u, m[r.sent + 1])
  <1>1. BasicInv /\ DeviceTypes /\ StreamOf(c) BY DEF StreamsInv, BasicInv
  <1>2. BasicInv' BY <1>1, SendKeeps
  <1>3. /\ r.pc = "send" /\ r.call \in Calls /\ r.sent \in Nat /\ r.sent < Len(m)
        /\ UNCHANGED <<sock, down, backlog, conns, server>>
        /\ SendCases(c)
    BY <1>1, SendActs
  <1>4. Got(c)' = g BY <1>3, GotKept
  <1>5. /\ up \in [Clients -> Seq(Chunk)] /\ r \in ClientRec /\ g \in Seq(Chunk)
        /\ spoiled \in [Clients -> SUBSET {"up", "down"}]
    BY <1>1, ClientTyped, GotTyped DEF DeviceTypes
  <1>6. /\ client[c].pc = "send" /\ down[c] # <<>> => Head(down[c]).part = "body"
        /\ "down" \notin spoiled[c] => down[c] = <<>>
    BY <1>1, <1>3 DEF StreamOf, DownOf
  <1>7. CASE sock[c] # "open"
    <2>1. CallEnds(c, "gone") /\ UNCHANGED <<up, spoiled>> BY <1>3, <1>7 DEF SendCases
    <2>2. /\ client'[c].pc = "gone"
          /\ \A d \in Clients : d # c => client'[d] = client[d]
      BY <1>1, <2>1, CallEndsTyped DEF ClientPc
    <2>3. StreamOf(c)' BY <1>3, <1>7, <2>2 DEF StreamOf, UpOf, DownOf, FreshOf
    <2> QED BY <1>2, <1>3, <2>1, <2>2, <2>3, OthersKept
  <1>8. CASE sock[c] = "open"
    <2>1. up' = [up EXCEPT ![c] = v] BY <1>3, <1>8 DEF SendCases
    <2>2. up'[c] = v /\ \A d \in Clients : d # c => up'[d] = up[d] BY <1>5, <2>1
    <2>3. /\ \A d \in Clients : d # c => client'[d] = client[d] /\ spoiled'[d] = spoiled[d]
          /\ \/ /\ client'[c].pc = "send" /\ client'[c].call = r.call
                /\ client'[c].sent = r.sent + 1 /\ spoiled'[c] = spoiled[c]
             \/ /\ client'[c].pc = "idle" /\ Refused(r.call) /\ r.sent + 1 = Len(m)
                /\ spoiled'[c] = spoiled[c] \cup {"up"}
             \/ /\ client'[c].pc = "ret" /\ client'[c].call = r.call
                /\ r.sent + 1 = Len(m)
                /\ \/ ~ Incomplete(r.call) /\ spoiled'[c] = spoiled[c]
                   \/ /\ Incomplete(r.call) /\ ~ Refused(r.call)
                      /\ spoiled'[c] = spoiled[c] \cup {"up"}
      <3>1. CASE /\ client' = [client EXCEPT ![c] =
                       [pc |-> "send", call |-> r.call, sent |-> r.sent + 1]]
                 /\ UNCHANGED spoiled
        <4>1. /\ client'[c] = [pc |-> "send", call |-> r.call, sent |-> r.sent + 1]
              /\ \A d \in Clients : d # c => client'[d] = client[d]
          BY <1>1, <3>1, ClientTyped
        <4> QED BY <3>1, <4>1
      <3>2. CASE /\ r.sent + 1 = Len(m) /\ Refused(r.call)
                 /\ CallEnds(c, "idle")
                 /\ spoiled' = [spoiled EXCEPT ![c] = @ \cup {"up"}]
        BY <1>1, <1>5, <3>2, CallEndsTyped DEF ClientPc
      <3>3. CASE /\ r.sent + 1 = Len(m) /\ ~ Refused(r.call)
                 /\ client' = [client EXCEPT ![c] =
                       [pc |-> "ret", call |-> r.call, sent |-> r.sent]]
                 /\ \/ ~ Incomplete(r.call) /\ UNCHANGED spoiled
                    \/ /\ Incomplete(r.call)
                       /\ spoiled' = [spoiled EXCEPT ![c] = @ \cup {"up"}]
        <4>1. /\ client'[c] = [pc |-> "ret", call |-> r.call, sent |-> r.sent]
              /\ \A d \in Clients : d # c => client'[d] = client[d]
          BY <1>1, <3>3, ClientTyped
        <4>2. CASE ~ Incomplete(r.call) BY <3>3, <4>1, <4>2
        <4>3. CASE Incomplete(r.call)
          <5>1. spoiled' = [spoiled EXCEPT ![c] = @ \cup {"up"}] BY <3>3, <4>3
          <5>2. /\ spoiled'[c] = spoiled[c] \cup {"up"}
                /\ \A d \in Clients : d # c => spoiled'[d] = spoiled[d]
            BY <1>5, <5>1
          <5> QED BY <3>3, <4>1, <4>3, <5>2
        <4> QED BY <4>2, <4>3
      <3> QED BY <1>3, <1>8, <3>1, <3>2, <3>3 DEF SendCases
    <2>4. UpIs(r, g, u, spoiled[c]) BY <1>1, <1>8 DEF StreamOf, UpOf
    <2>5. u \in Seq(Chunk) BY <1>5
    <2>6. UpIs(client'[c], g, v, spoiled'[c]) /\ ~ Nothing(g, v)
      <3> DEFINE q == client'[c]
                 sq == spoiled'[c]
      <3>1. \/ q.pc = "send" /\ q.call = r.call /\ q.sent = r.sent + 1 /\ sq = spoiled[c]
            \/ /\ q.pc = "idle" /\ Refused(r.call) /\ r.sent + 1 = Len(m)
               /\ sq = spoiled[c] \cup {"up"}
            \/ /\ q.pc = "ret" /\ q.call = r.call /\ r.sent + 1 = Len(m)
               /\ \/ ~ Incomplete(r.call) /\ sq = spoiled[c]
                  \/ /\ Incomplete(r.call) /\ ~ Refused(r.call)
                     /\ sq = spoiled[c] \cup {"up"}
        BY <2>3
      <3>2. r.pc = "send" /\ r.call \in Calls /\ r.sent < Len(Message(r.call))
        BY <1>3
      <3>3. SentBy(r, spoiled[c], u, v, q, sq) BY <3>1, <3>2 DEF SentBy
      <3> SUFFICES UpIs(q, g, v, sq) /\ ~ Nothing(g, v)
        OBVIOUS
      <3> HIDE DEF q, sq, r, g, u, v
      <3> QED BY <1>5, <2>4, <2>5, <3>3, SentUp
    <2>7. UpOf(c)' BY <1>4, <2>2, <2>6 DEF UpOf
    <2>8. ("down" \in spoiled'[c]) <=> ("down" \in spoiled[c]) BY <2>3
    <2>9. client'[c].pc \in {"send", "idle", "ret"} BY <2>3
    <2>10. DownOf(c)'
      <3>1. down[c] # <<>> => Head(down[c]).part # "ret" /\ Head(down[c]).part = "body"
        BY <1>3, <1>6
      <3> QED BY <1>3, <1>6, <2>8, <2>9, <3>1 DEF DownOf
    <2>11. FreshOf(c)' BY <2>9 DEF FreshOf
    <2>12. StreamOf(c)' BY <2>7, <2>10, <2>11 DEF StreamOf
    <2> QED BY <1>2, <1>3, <2>2, <2>3, <2>12, OthersKept
  <1> QED BY <1>7, <1>8

LEMMA ReceiveStreams ==
    ASSUME StreamsInv, NEW c \in Clients, Receive(c)
    PROVE  StreamsInv'
  <1> DEFINE call == client[c].call
             reply == Head(down[c])
             taken == IF HasBody(call, reply.v) /\ AsInt(reply.v) >= 0 THEN 2 ELSE 1
             g == Got(c)
             u == up[c]
             s == down[c]
  <1>1. BasicInv /\ DeviceTypes /\ StreamOf(c) BY DEF StreamsInv, BasicInv
  <1>2. BasicInv' BY <1>1, ReceiveKeeps
  <1>3. /\ client[c].pc = "ret" /\ s # <<>>
        /\ UNCHANGED <<sock, up, backlog, spoiled, conns, server>>
    BY DEF Receive, serverVars
  <1>4. s \in Seq(ReplyPart) /\ down \in [Clients -> Seq(ReplyPart)]
    BY <1>1 DEF DeviceTypes
  <1>5. Got(c)' = g BY <1>3, GotKept
  <1>6. call \in Calls /\ ~ Refused(call) BY <1>1, <1>3 DEF BasicInv, CallOf
  <1>7. CASE reply.part = "ret"
    <2>1. /\ CallEnds(c, "idle")
          /\ down' = [down EXCEPT ![c] = SubSeq(@, taken + 1, Len(@))]
      BY <1>7 DEF Receive, Returns
    <2>2. /\ client'[c].pc = "idle"
          /\ \A d \in Clients : d # c => client'[d] = client[d]
      BY <1>1, <2>1, CallEndsTyped DEF ClientPc
    <2>3. /\ down'[c] = SubSeq(s, taken + 1, Len(s))
          /\ \A d \in Clients : d # c => down'[d] = down[d]
      BY <1>4, <2>1
    <2>4. /\ sock[c] = "open" => Nothing(g, u) /\ "up" \notin spoiled[c]
          /\ \A k \in 2 .. Len(s) : s[k].part = "body"
          /\ "down" \notin spoiled[c] => Len(s) = ReplyLen(call, reply.v)
      BY <1>1, <1>3, <1>7 DEF StreamOf, DownOf
    <2>5. UpOf(c)'
      <3>1. sock[c] = "open" => InStep(client'[c], g, u) /\ "up" \notin spoiled[c]
        BY <2>2, <2>4 DEF InStep
      <3>2. sock[c] = "open" /\ Due(c) => ~ Nothing(g, u)
        BY <1>1 DEF StreamOf, UpOf
      <3> QED BY <1>3, <1>5, <3>1, <3>2 DEF UpOf, UpIs, Due
    <2>6. ReplyLen(call, reply.v) = taken BY DEF ReplyLen
    <2>7. taken \in {1, 2} OBVIOUS
    <2> HIDE DEF taken, s
    <2>8. Len(s) \in Nat BY <1>4
    <2>9. Len(s) = taken => down'[c] = <<>> BY <1>4, <2>3, <2>7, <2>8
    <2>10. down'[c] # <<>> => Head(down'[c]).part = "body"
      <3> SUFFICES ASSUME down'[c] # <<>> PROVE Head(down'[c]).part = "body"
        OBVIOUS
      <3>1. CASE taken + 1 > Len(s)
        <4>1. down'[c] = <<>> BY <1>4, <2>3, <2>7, <2>8, <3>1
        <4> QED BY <4>1
      <3>2. CASE ~ (taken + 1 > Len(s))
        <4>1. taken + 1 \in 2 .. Len(s) BY <2>7, <2>8, <3>2
        <4>2. Head(down'[c]) = s[taken + 1] BY <1>4, <2>3, <2>7, <2>8, <4>1
        <4> QED BY <2>4, <4>1, <4>2
      <3> QED BY <3>1, <3>2
    <2>11. DownOf(c)' BY <1>3, <2>2, <2>4, <2>6, <2>9, <2>10 DEF DownOf
    <2>12. FreshOf(c)' BY <2>2 DEF FreshOf
    <2>13. StreamOf(c)' BY <2>5, <2>11, <2>12 DEF StreamOf
    <2> QED BY <1>2, <1>3, <2>2, <2>3, <2>13, OthersKept
  <1>8. CASE reply.part # "ret"
    <2>1. CallEnds(c, "astray") /\ UNCHANGED down BY <1>8 DEF Receive
    <2>2. /\ client'[c].pc = "astray"
          /\ \A d \in Clients : d # c => client'[d] = client[d]
      BY <1>1, <2>1, CallEndsTyped DEF ClientPc
    <2>3. UpOf(c)'
      <3> SUFFICES ASSUME sock[c] = "open"
                   PROVE  /\ Due(c) => ~ Nothing(g, u)
                          /\ UpIs(client'[c], g, u, spoiled[c])
        BY <1>3, <1>5 DEF UpOf, Due
      <3>1. /\ Due(c) => ~ Nothing(g, u)
            /\ UpIs(client[c], g, u, spoiled[c])
        BY <1>1 DEF StreamOf, UpOf
      <3>2. CASE "up" \in spoiled[c]
        BY <1>3, <2>2, <3>1, <3>2 DEF UpIs, OutOfStep, CutShort
      <3>3. CASE "up" \notin spoiled[c]
        <4>1. ~ Incomplete(call) /\ WholeOrNone(g, u, call)
          BY <1>3, <3>1, <3>3 DEF UpIs, InStep
        <4> QED BY <1>6, <2>2, <3>1, <3>3, <4>1 DEF UpIs, InStep
      <3> QED BY <3>1, <3>2, <3>3
    <2>4. "down" \in spoiled[c] BY <1>1, <1>3, <1>8 DEF StreamOf, DownOf
    <2>5. DownOf(c)' BY <1>3, <2>2, <2>4 DEF DownOf
    <2>6. FreshOf(c)' BY <2>2 DEF FreshOf
    <2>7. StreamOf(c)' BY <2>3, <2>5, <2>6 DEF StreamOf
    <2> QED BY <1>2, <1>3, <2>1, <2>2, <2>7, OthersKept
  <1> QED BY <1>7, <1>8

-----------------------------------------------------------------------------
LEMMA StreamsInit == DeviceInit => StreamsInv
  <1> SUFFICES ASSUME DeviceInit PROVE StreamsInv
    OBVIOUS
  <1>1. ASSUME NEW c \in Clients PROVE StreamOf(c)
    <2>1. /\ client[c].pc = "new" /\ sock[c] = "none" /\ up[c] = <<>>
          /\ down[c] = <<>> /\ spoiled[c] = {}
      BY DEF DeviceInit
    <2> QED BY <2>1 DEF StreamOf, UpOf, DownOf, FreshOf
  <1> QED BY <1>1, BasicInit DEF StreamsInv

LEMMA StreamsKeep == StreamsInv /\ [DeviceNext]_deviceVars => StreamsInv'
  <1> SUFFICES ASSUME StreamsInv, [DeviceNext]_deviceVars PROVE StreamsInv'
    OBVIOUS
  <1>1. CASE ServerStep
    <2>1. nfp_cpp_dev_poll \/ \E c \in Clients : StepOf(c)
      BY <1>1, ServerActs DEF StreamsInv
    <2>2. ASSUME NEW c \in Clients, StepOf(c) PROVE StreamsInv'
      <3>1. CASE ReadNext(c) BY <3>1, ReadNextStreams
      <3>2. CASE ReadsPastEnd(c) BY <3>2, ReadsPastEndStreams
      <3>3. CASE Closes(c) BY <3>3, ClosesStreams DEF Closes
      <3>4. CASE Dies BY <3>4, DiesStreams DEF Dies
      <3>5. CASE Answers(c)
        <4>1. Serving(c) BY <3>5 DEF Answers
        <4>2. PICK ret \in Int \cup Value : \E body, extra :
                 Answer(server.got, ret, body, extra) /\ Reply(c, ret, body, extra)
          BY <3>5 DEF Answers
        <4>3. PICK body, extra :
                 Answer(server.got, ret, body, extra) /\ Reply(c, ret, body, extra)
          BY <4>2
        <4>4. (sock[c] # "open" /\ Killed) \/ Writes(c, ret, body, extra)
          BY <4>3, ReplyActs DEF StreamsInv
        <4>5. sock[c] # "open" => Reason BY <4>1, ServingIs DEF StreamsInv, Alive, Reason
        <4> QED BY <4>1, <4>3, <4>4, <4>5, DiesStreams, AnswersStreams
      <3> QED BY <2>2, <3>1, <3>2, <3>3, <3>4, <3>5 DEF StepOf
    <2> QED BY <2>1, <2>2, PollStreams
  <1>2. ASSUME NEW c \in Clients,
               \/ \E open64 \in BOOLEAN : Open(c, open64)
               \/ \E call \in Calls : Call(c, call)
               \/ ShimStep(c)
               \/ Exit(c)
        PROVE  StreamsInv'
    BY <1>2, OpenStreams, CallStreams, SendStreams, ReceiveStreams, ReceiveNothingStreams,
       ExitStreams DEF ShimStep
  <1>3. CASE UNCHANGED deviceVars
    <2>1. UNCHANGED <<client, sock, up, down, conns, server, spoiled>>
      BY <1>3 DEF deviceVars
    <2>2. BasicInv' BY <1>3, BasicUnchanged DEF StreamsInv
    <2>3. ASSUME NEW d \in Clients PROVE StreamOf(d)'
      <3>1. Got(d)' = Got(d) BY <2>1, GotKept
      <3>2. StreamOf(d) BY DEF StreamsInv
      <3>3. Due(d)' => Due(d) BY <2>1 DEF Due
      <3> QED BY <2>1, <3>1, <3>2, <3>3, StreamFrame
    <2> QED BY <2>2, <2>3 DEF StreamsInv
  <1> QED BY <1>1, <1>2, <1>3 DEF DeviceNext

\* What the invariant says of a request that is being read.
LEMMA ReadingIs ==
    ASSUME StreamsInv, NEW c \in Clients, Reading(c), sock[c] = "open"
    PROVE  /\ server.got \in Seq(Chunk) /\ up[c] \in Seq(Chunk)
           /\ Expected(server.got) # "nothing"
           /\ ~ Nothing(server.got, up[c])
           /\ UpIs(client[c], server.got, up[c], spoiled[c])
           /\ CallOf(c) /\ client[c].sent \in Nat
  <1>1. BasicInv /\ DeviceTypes /\ StreamOf(c) /\ CallOf(c) BY DEF StreamsInv, BasicInv
  <1>2. Serving(c) /\ Expected(server.got) # "nothing" BY DEF Reading, Serving
  <1>3. Got(c) = server.got BY <1>2 DEF Got, Serving
  <1>4. Due(c) BY <1>1, <1>2, ServingIs DEF Due
  <1>5. server.got \in Seq(Chunk) /\ up[c] \in Seq(Chunk) BY <1>1, ServerTyped DEF DeviceTypes
  <1>6. client[c] \in ClientRec BY <1>1, ClientTyped
  <1>7. client[c].sent \in Nat BY <1>6 DEF ClientRec
  <1> QED BY <1>1, <1>2, <1>3, <1>4, <1>5, <1>7 DEF StreamOf, UpOf

\* The parts joined are the beginning of the message.
LEMMA AlongIsPrefix ==
    ASSUME NEW g, g \in Seq(Chunk), NEW u, u \in Seq(Chunk), NEW m, m \in Seq(Chunk),
           NEW n, Along(g, u, m, n)
    PROVE  IsPrefix(g \o u, m)
  <1> DEFINE s == g \o u
  <1>1. Len(g) \in Nat /\ Len(u) \in Nat /\ Len(m) \in Nat OBVIOUS
  <1>2. /\ Len(g) + Len(u) = n /\ n <= Len(m)
        /\ \A k \in 1 .. Len(g) : g[k] = m[k]
        /\ \A k \in 1 .. Len(u) : u[k] = m[Len(g) + k]
    BY DEF Along
  <1>3. s \in Seq(Chunk) /\ Len(s) = Len(g) + Len(u) OBVIOUS
  <1>4. ASSUME NEW k \in 1 .. Len(s) PROVE s[k] = m[k]
    <2>1. CASE k \in 1 .. Len(g)
      <3>1. s[k] = g[k] BY <1>1, <2>1
      <3> QED BY <1>2, <2>1, <3>1
    <2>2. CASE k \notin 1 .. Len(g)
      <3>1. k - Len(g) \in 1 .. Len(u) /\ Len(g) + (k - Len(g)) = k
        BY <1>1, <1>3, <2>2
      <3>2. s[k] = u[k - Len(g)] BY <1>1, <1>3, <2>2, <3>1
      <3>3. u[k - Len(g)] = m[Len(g) + (k - Len(g))] BY <1>2, <3>1
      <3> QED BY <3>1, <3>2, <3>3
    <2> QED BY <2>1, <2>2
  <1> HIDE DEF s
  <1>5. Len(s) \in Nat /\ Len(s) <= Len(m) BY <1>1, <1>2, <1>3
  <1> DEFINE p == SubSeq(s, 1, Len(s))
             q == SubSeq(m, 1, Len(s))
  <1>6. p = [k \in 1 .. Len(s) |-> s[k]] BY <1>3, <1>5
  <1>7. q = [k \in 1 .. Len(s) |-> m[k]] BY <1>5
  <1>8. [k \in 1 .. Len(s) |-> s[k]] = [k \in 1 .. Len(s) |-> m[k]] BY <1>4
  <1>9. p = q BY <1>6, <1>7, <1>8
  <1>10. IsPrefix(s, m) BY <1>5, <1>9 DEF IsPrefix
  <1> QED BY <1>10 DEF s

\* The invariant says that the server waits for nobody but a sender,
LEMMA StreamsWait == StreamsInv => WaitsOnlyForSender
  <1> SUFFICES ASSUME StreamsInv, NEW c \in Clients, Reading(c), server.got # <<>>,
                      up[c] = <<>>, sock[c] = "open", "up" \notin spoiled[c]
               PROVE  client[c].pc = "send"
    BY DEF WaitsOnlyForSender
  <1> DEFINE g == server.got
             u == up[c]
             r == client[c]
  <1>1. /\ g \in Seq(Chunk) /\ u \in Seq(Chunk) /\ Expected(g) # "nothing"
        /\ ~ Nothing(g, u) /\ UpIs(r, g, u, spoiled[c]) /\ CallOf(c)
    BY ReadingIs
  <1>2. InStep(r, g, u) BY <1>1 DEF UpIs
  <1>3. u = <<>> OBVIOUS
  <1>4. r.pc = "ret" => r.call \in Calls BY <1>1 DEF CallOf
  <1> HIDE DEF g, u, r
  <1>5. ASSUME NEW call \in Calls, ~ Incomplete(call), WholeOrNone(g, u, call)
        PROVE  FALSE
    <2>1. Along(g, u, Message(call), Len(Message(call))) BY <1>1, <1>5 DEF WholeOrNone
    <2> QED BY <1>1, <1>3, <1>5, <2>1, AlongExpects
  <1>6. r.pc # "ret" /\ r.pc # "astray" BY <1>2, <1>4, <1>5 DEF InStep
  <1>7. r.pc = "send" BY <1>1, <1>2, <1>6 DEF InStep
  <1> QED BY <1>7 DEF r

\* that what it reads is the beginning of the call, of the size it expects, and
\* that a client finds the whole reply to its call.
LEMMA StreamsStep == StreamsInv => StreamsInStep
  <1> SUFFICES ASSUME StreamsInv, NEW c \in Clients
               PROVE  /\ Reading(c) /\ sock[c] = "open" =>
                         /\ "up" \notin spoiled[c] /\ client[c].pc # "astray" =>
                               /\ client[c].pc \in {"send", "ret"}
                               /\ IsPrefix(server.got \o up[c], Message(client[c].call))
                         /\ up[c] # <<>> => Head(up[c]).kind = Expected(server.got)
                      /\ "down" \notin spoiled[c] =>
                         IF client[c].pc = "ret" /\ down[c] # <<>>
                           THEN LET ret == Head(down[c]) IN
                                /\ ret.part = "ret"
                                /\ Len(down[c]) =
                                      (IF AsInt(ret.v) >= 0
                                             /\ HasBody(client[c].call, ret.v)
                                         THEN 2 ELSE 1)
                           ELSE client[c].pc \in {"idle", "send", "spins"} => down[c] = <<>>
    BY DEF StreamsInStep
  <1>1. "down" \notin spoiled[c] =>
           IF client[c].pc = "ret" /\ down[c] # <<>>
             THEN LET ret == Head(down[c]) IN
                  /\ ret.part = "ret"
                  /\ Len(down[c]) =
                        (IF AsInt(ret.v) >= 0 /\ HasBody(client[c].call, ret.v)
                           THEN 2 ELSE 1)
             ELSE client[c].pc \in {"idle", "send", "spins"} => down[c] = <<>>
    BY DEF StreamsInv, StreamOf, DownOf, ReplyLen
  <1>2. ASSUME Reading(c), sock[c] = "open"
        PROVE  /\ "up" \notin spoiled[c] /\ client[c].pc # "astray" =>
                     /\ client[c].pc \in {"send", "ret"}
                     /\ IsPrefix(server.got \o up[c], Message(client[c].call))
               /\ up[c] # <<>> => Head(up[c]).kind = Expected(server.got)
    <2> DEFINE g == server.got
               u == up[c]
               r == client[c]
               sp == spoiled[c]
    <2>1. /\ g \in Seq(Chunk) /\ u \in Seq(Chunk) /\ Expected(g) # "nothing"
          /\ ~ Nothing(g, u) /\ UpIs(r, g, u, sp) /\ CallOf(c)
      BY <1>2, ReadingIs
    <2>2. r.pc \in {"send", "ret"} => r.call \in Calls BY <2>1 DEF CallOf
    <2> SUFFICES /\ "up" \notin sp /\ r.pc # "astray" =>
                       r.pc \in {"send", "ret"} /\ IsPrefix(g \o u, Message(r.call))
                 /\ u # <<>> => Head(u).kind = Expected(g)
      OBVIOUS
    <2> HIDE DEF g, u, r, sp
    <2>5. CASE CutShort(r, g, u) /\ "up" \in sp BY <2>1, <2>5, CutShortExpects
    <2>3. CASE OutOfStep(r, g, u) /\ "up" \in sp
      <3>1. OutOfStep(r, g, u) BY <2>3
      <3>2. ASSUME u # <<>> PROVE Head(u).kind = Expected(g)
        <4>1. Len(u) \in Nat /\ Len(u) # 0 /\ Head(u) = u[1] BY <2>1, <3>2
        <4>2. Len(u) > 0 /\ Len(g) \in Nat BY <2>1, <4>1
        <4>3. CASE Len(g) = 0
          <5>1. Head(u).kind = "word" BY <3>1, <4>1, <4>3, PartsAre DEF OutOfStep
          <5>2. Expected(g) = ExpectedBy(0, g[1].v, g[2].v) BY <2>1, <4>3, ExpectedForms
          <5>3. Expected(g) = "word" BY <5>2, ExpectedValues
          <5> QED BY <5>1, <5>3
        <4>4. CASE Len(g) = 1
          <5>1. u[1] \in FirstWord BY <3>1, <4>2, <4>4 DEF OutOfStep
          <5>2. Head(u).kind = "word" BY <4>1, <5>1, PartsAre DEF FirstWord
          <5>3. g[1].v = 3 BY <3>1, <4>4, PartsAre DEF OutOfStep, OP_IOCTL
          <5>4. Expected(g) = ExpectedBy(1, 3, g[2].v) BY <2>1, <4>4, <5>3, ExpectedForms
          <5>5. Expected(g) = "word" BY <5>4, ExpectedValues
          <5> QED BY <5>2, <5>5
        <4>5. CASE Len(g) = 2
          <5>1. g[1] = Word(3) /\ g[2] \in FirstWord BY <3>1, <4>5 DEF OutOfStep, OP_IOCTL
          <5>2. PICK n \in 1 .. 3 : g[2] = Word(n) BY <5>1 DEF FirstWord
          <5>3. g[1].v = 3 /\ g[2].v = n BY <5>1, <5>2, PartsAre
          <5>4. n \notin Served
            BY DEF Served, NFP_IOCTL_CPP_AREA_REQUEST, NFP_IOCTL_CPP_AREA_RELEASE,
                   NFP_IOCTL_CPP_EXPL_REQUEST, NFP_IOCTL_CPP_IDENTIFICATION
          <5>5. Expected(g) = "nothing" BY <2>1, <4>5, <5>3, <5>4, ExpectedForms, ExpectedValues
          <5> QED BY <2>1, <5>5
        <4>6. \A n \in Nat : n <= 2 => n \in {0, 1, 2} OBVIOUS
        <4>7. Len(g) <= 2 BY <3>1 DEF OutOfStep
        <4> QED BY <4>2, <4>3, <4>4, <4>5, <4>6, <4>7
      <3> QED BY <2>3, <3>2
    <2>4. CASE "up" \notin sp
      <3>1. InStep(r, g, u) BY <2>1, <2>4 DEF UpIs
      <3>2. r.pc \in {"send", "ret", "astray"} BY <2>1, <3>1 DEF InStep
      <3>3. CASE r.pc \in {"send", "ret"}
        <4>1. r.call \in Calls BY <2>2, <3>3
        <4>2. PICK n : Along(g, u, Message(r.call), n)
          BY <2>1, <3>1, <3>3 DEF InStep, WholeOrNone
        <4>3. Message(r.call) \in Seq(Chunk) BY <4>1, MessageTyped
        <4>4. IsPrefix(g \o u, Message(r.call)) BY <2>1, <4>2, <4>3, AlongIsPrefix
        <4>5. u # <<>> => Head(u).kind = Expected(g) BY <2>1, <4>1, <4>2, AlongExpects
        <4> QED BY <3>3, <4>4, <4>5
      <3>4. CASE r.pc = "astray"
        <4>1. PICK call \in Calls : WholeOrNone(g, u, call) BY <3>1, <3>4 DEF InStep
        <4>2. Along(g, u, Message(call), Len(Message(call)))
          BY <2>1, <4>1 DEF WholeOrNone
        <4>3. u # <<>> => Head(u).kind = Expected(g) BY <2>1, <4>2, AlongExpects
        <4> QED BY <3>4, <4>3
      <3> QED BY <3>2, <3>3, <3>4
    <2> QED BY <2>1, <2>3, <2>4, <2>5 DEF UpIs
  <1> QED BY <1>1, <1>2

(***************************************************************************)
(* The server waits in the middle of a request only while its client sends    *)
(* the rest, or after ioctl has returned with its first word sent             *)
(* (interpose.c:443 and :491) or has failed to send its argument (:501), for  *)
(* any number of clients and calls.                                           *)
(***************************************************************************)
THEOREM ServerWaitsForSender == DeviceSpec => []WaitsOnlyForSender
  BY StreamsInit, StreamsKeep, StreamsWait, PTL DEF DeviceSpec

(***************************************************************************)
(* Client and server stay in step, until ioctl has returned with its first    *)
(* word sent or has failed to send its argument, or the server has sent a     *)
(* structure after an error or a read of 2 GiB, which the shim takes for one  *)
(* (interpose.c:206): no sequence of other calls, closed connections and      *)
(* failed accesses puts the words of the two sides (interpose.c and           *)
(* nfp_cpp_dev.c) out of step.                                                *)
(***************************************************************************)
THEOREM StreamsStayInStep == DeviceSpec => []StreamsInStep
  BY StreamsInit, StreamsKeep, StreamsStep, PTL DEF DeviceSpec
==============================================================================
