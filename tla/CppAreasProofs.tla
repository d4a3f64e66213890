---------------------------- MODULE CppAreasProofs ---------------------------
(***************************************************************************)
(* A caller that is alone in the library has each BAR for one area only,   *)
(* and loses a BAR in no way but the two that BarsAccounted names; its     *)
(* accesses reach what was asked for, and the translation of an address    *)
(* writes nothing but the island: for any set of requests, any IMB table   *)
(* and any number of kept areas.  With a second thread the first is false  *)
(* (the run areas_shared).                                                 *)
(***************************************************************************)
EXTENDS CppAreas, TLAPS

SingleThread == \A t, u \in Threads : t = u

\* As much of the types as the argument needs.
Shape ==
    /\ DOMAIN bar = Bars
    /\ \A x \in Bars : "lock" \in DOMAIN bar[x] /\ bar[x].lock \in BOOLEAN
    /\ DOMAIN call = Threads
    /\ \A t \in Threads :
          /\ {"pc", "area", "x"} \subseteq DOMAIN call[t]
          /\ call[t].x \in Bars
          /\ "bar" \in DOMAIN call[t].area
    /\ DOMAIN kept = Threads

\* Only an area that is being accessed, or kept, has a BAR.
AreaHasBar ==
    \A t \in Threads :
        /\ At(t, "access") => call[t].area.bar \in Bars
        /\ ~ At(t, "access") => call[t].area.bar = NoBar
        /\ \A a \in kept[t] : a.bar \in Bars

\* The flag that was read stays what it was until it is set.
TakesFree == \A t \in Threads : At(t, "take") => ~ bar[call[t].x].lock

\* A lost BAR is no area's.
LostIsLost == \A t \in Threads : \A a \in Live(t) : a.bar \notin leaked

\* A thread keeps no area that its call works on.
CallIsOwn == \A t \in Threads : At(t, "access") => call[t].area \notin kept[t]

IInv ==
    Shape /\ AreaHasBar /\ TakesFree /\ CallIsOwn /\ LostIsLost /\ OneAreaPerBar /\ BarsAccounted

-----------------------------------------------------------------------------
\* At first no area is there and no BAR is in use.
LEMMA InitInv == AreasInit => IInv
  <1> SUFFICES ASSUME AreasInit PROVE IInv
    OBVIOUS
  <1>0. Bars = {2, 3, 4} /\ FirstBar \in Bars BY DEF Bars, FirstBar, LastBar
  <1>1. Shape /\ AreaHasBar
    <2>1. DOMAIN bar = Bars /\ \A x \in Bars : "lock" \in DOMAIN bar[x] /\ bar[x].lock = FALSE
      BY DEF AreasInit, nfp_enable_bars
    <2>2. \A t \in Threads : call[t] = [pc |-> "idle", area |-> NoArea, x |-> FirstBar]
      BY DEF AreasInit
    <2> QED BY <1>0, <2>1, <2>2 DEF AreasInit, Shape, AreaHasBar, At, NoArea
  <1>2. \A t \in Threads : Live(t) = {}
    BY DEF AreasInit, Live, NoArea
  <1>3. \A x \in Bars : ~ bar[x].lock BY DEF AreasInit, nfp_enable_bars
  <1>4. TakesFree /\ CallIsOwn /\ leaked = {} BY DEF AreasInit, TakesFree, CallIsOwn, At
  <1> QED BY <1>1, <1>2, <1>3, <1>4 DEF IInv, OneAreaPerBar, BarsAccounted, LostIsLost

(***************************************************************************)
(* What the invariant says of the one thread there is.                        *)
(***************************************************************************)
Alone(t) ==
    /\ \A a, b \in Live(t) : a.bar = b.bar => a = b
    /\ \A a \in Live(t) : a.bar \notin leaked
    /\ \A x \in Bars : bar[x].lock <=> x \in leaked \/ \E a \in Live(t) : a.bar = x

\* It is enough to look at that thread.
LEMMA AloneSuffices ==
    ASSUME SingleThread, NEW t \in Threads
    PROVE  Alone(t) <=> LostIsLost /\ OneAreaPerBar /\ BarsAccounted
  BY DEF SingleThread, Alone, LostIsLost, OneAreaPerBar, BarsAccounted

-----------------------------------------------------------------------------
\* nfp_cpp_area_alloc, ScanBar: the areas and the BARs stay what they are.
LEMMA SearchInv ==
    ASSUME SingleThread, IInv, NEW t \in Threads, UNCHANGED <<bar, kept, leaked>>,
           ~ At(t, "access"),
           NEW next, call' = [call EXCEPT ![t] = next],
           {"pc", "area", "x"} \subseteq DOMAIN next, "bar" \in DOMAIN next.area, next.pc # "access",
           next.area.bar = NoBar, next.x \in Bars,
           next.pc = "take" => ~ bar[next.x].lock
    PROVE  IInv'
  <1>1. call'[t] = next /\ DOMAIN call' = Threads BY DEF IInv, Shape
  <1>2. \A u \in Threads : u = t BY DEF SingleThread
  <1>3. Shape' /\ AreaHasBar' /\ TakesFree' /\ CallIsOwn'
    BY <1>1, <1>2 DEF IInv, Shape, AreaHasBar, TakesFree, CallIsOwn, At
  <1>4. Live(t)' = Live(t) BY <1>1 DEF Live, IInv, AreaHasBar
  <1>5. Alone(t) => Alone(t)' BY <1>4 DEF Alone
  <1>6. (Alone(t) <=> LostIsLost /\ OneAreaPerBar /\ BarsAccounted)'
    BY <1>2 DEF Alone, LostIsLost, OneAreaPerBar, BarsAccounted
  <1> QED BY <1>3, <1>5, <1>6, AloneSuffices DEF IInv

\* An area gets a BAR that was free: TakeBar.
LEMMA Gain ==
    ASSUME NEW t \in Threads, Shape, Alone(t), NEW a, NEW x \in Bars, a.bar = x,
           ~ bar[x].lock, bar'[x].lock = TRUE,
           \A y \in Bars : y # x => bar'[y] = bar[y],
           Live(t)' = Live(t) \cup {a}, leaked' = leaked
    PROVE  Alone(t)'
  BY DEF Alone, Shape

\* A BAR that was free is lost: TakeBar, when nfp_reconfigure_bar refuses.
LEMMA Lose ==
    ASSUME NEW t \in Threads, Shape, Alone(t), NEW x \in Bars,
           ~ bar[x].lock, bar'[x].lock = TRUE,
           \A y \in Bars : y # x => bar'[y] = bar[y],
           Live(t)' = Live(t), leaked' = leaked \cup {x}
    PROVE  Alone(t)'
  BY DEF Alone, Shape

\* An area is released and freed.
LEMMA GiveBack ==
    ASSUME NEW t \in Threads, Shape, Alone(t), NEW a \in Live(t), a.bar \in Bars,
           nfp6000_area_release(a), Live(t)' = Live(t) \ {a}, leaked' = leaked
    PROVE  Alone(t)'
  <1>1. bar'[a.bar].lock = FALSE BY DEF nfp6000_area_release, Shape
  <1>2. \A y \in Bars : y # a.bar => bar'[y] = bar[y] BY DEF nfp6000_area_release, Shape
  <1> QED BY <1>1, <1>2 DEF Alone, Shape

\* An area is freed without being released.
LEMMA Forget ==
    ASSUME NEW t \in Threads, Shape, Alone(t), NEW a \in Live(t), a.bar \in Bars,
           UNCHANGED bar, Live(t)' = Live(t) \ {a}, leaked' = leaked \cup {a.bar}
    PROVE  Alone(t)'
  BY DEF Alone, Shape

-----------------------------------------------------------------------------
\* A call that has no area returns.
LEMMA ReturnInv ==
    ASSUME SingleThread, IInv, NEW t \in Threads, UNCHANGED <<bar, kept, leaked>>,
           ~ At(t, "access"), Return(t)
    PROVE  IInv'
  <1> DEFINE next == [pc |-> "idle", area |-> NoArea, x |-> FirstBar]
  <1>1. /\ {"pc", "area", "x"} \subseteq DOMAIN next
        /\ next.pc = "idle" /\ next.area = NoArea /\ next.x = FirstBar
    OBVIOUS
  <1>2. "bar" \in DOMAIN NoArea /\ NoArea.bar = NoBar BY DEF NoArea
  <1>3. FirstBar \in Bars BY DEF Bars, FirstBar, LastBar
  <1>4. call' = [call EXCEPT ![t] = next] BY DEF Return
  <1> HIDE DEF next
  <1> QED BY <1>1, <1>2, <1>3, <1>4, SearchInv

\* One lemma per action.  nfp_cpp_area_alloc refuses, or begins to search.
LEMMA AllocInv ==
    ASSUME SingleThread, IInv, NEW t \in Threads, NEW req, NEW use,
           nfp_cpp_area_alloc(t, req, use)
    PROVE  IInv'
  <1>1. ~ At(t, "access") /\ UNCHANGED <<bar, kept, leaked>>
    BY DEF nfp_cpp_area_alloc, At
  <1>2. CASE Return(t) BY <1>1, <1>2, ReturnInv
  <1>3. ASSUME NEW area, area.bar = NoBar, "bar" \in DOMAIN area,
               call' = [call EXCEPT ![t].pc = "scan", ![t].area = area]
        PROVE  IInv'
    <2> DEFINE next == [call[t] EXCEPT !.pc = "scan", !.area = area]
    <2>1. call' = [call EXCEPT ![t] = next] BY <1>3 DEF IInv, Shape
    <2>2. /\ {"pc", "area", "x"} \subseteq DOMAIN next
          /\ next.pc = "scan" /\ next.area = area /\ next.x \in Bars
      BY DEF IInv, Shape
    <2> HIDE DEF next
    <2> QED BY <1>1, <1>3, <2>1, <2>2, SearchInv
  <1>4. \/ Return(t)
        \/ \E area : /\ area.bar = NoBar /\ "bar" \in DOMAIN area
                     /\ call' = [call EXCEPT ![t].pc = "scan", ![t].area = area]
    <2> DEFINE cpp == nfp_target_cpp(req.hi, req.island, req.target, imb)
               pp == PushPullOf(req, cpp.hi)
               area == [bar |-> NoBar, req |-> req, use |-> use, hi |-> cpp.hi,
                        low |-> req.low, pp |-> pp, acquired |-> FALSE,
                        width |-> IF pp.push > 0 THEN pp.push ELSE pp.pull]
    <2>1. Return(t) \/ call' = [call EXCEPT ![t].pc = "scan", ![t].area = area]
      BY DEF nfp_cpp_area_alloc
    <2>2. area.bar = NoBar /\ "bar" \in DOMAIN area OBVIOUS
    <2> HIDE DEF area
    <2> QED BY <2>1, <2>2
  <1> QED BY <1>2, <1>3, <1>4

\* nfp_alloc_bar looks at one BAR.
LEMMA ScanInv ==
    ASSUME SingleThread, IInv, NEW t \in Threads, ScanBar(t) PROVE IInv'
  <1>1. /\ At(t, "scan") /\ ~ At(t, "access") /\ UNCHANGED <<bar, kept, leaked>>
        /\ call[t].area.bar = NoBar
    BY DEF ScanBar, At, IInv, AreaHasBar
  <1>2. CASE Return(t) BY <1>1, <1>2, ReturnInv
  <1>3. CASE ~ bar[call[t].x].lock /\ call' = [call EXCEPT ![t].pc = "take"]
    <2> DEFINE next == [call[t] EXCEPT !.pc = "take"]
    <2>1. call' = [call EXCEPT ![t] = next] BY <1>3 DEF IInv, Shape
    <2>2. /\ {"pc", "area", "x"} \subseteq DOMAIN next
          /\ next.pc = "take" /\ next.area = call[t].area /\ next.x = call[t].x
      BY DEF IInv, Shape
    <2> HIDE DEF next
    <2> QED BY <1>1, <1>3, <2>1, <2>2, SearchInv DEF IInv, Shape
  <1>4. CASE call[t].x > LastBar /\ call' = [call EXCEPT ![t].x = call[t].x - 1]
    <2> DEFINE next == [call[t] EXCEPT !.x = call[t].x - 1]
    <2>1. call' = [call EXCEPT ![t] = next] BY <1>4 DEF IInv, Shape
    <2>2. /\ {"pc", "area", "x"} \subseteq DOMAIN next
          /\ next.pc = "scan" /\ next.area = call[t].area /\ next.x = call[t].x - 1
      BY <1>1 DEF IInv, Shape, At
    <2>3. call[t].x \in Bars /\ "bar" \in DOMAIN call[t].area BY DEF IInv, Shape
    <2>4. call[t].x - 1 \in Bars BY <1>4, <2>3 DEF Bars, FirstBar, LastBar
    <2> HIDE DEF next
    <2> QED BY <1>1, <2>1, <2>2, <2>3, <2>4, SearchInv
  <1> QED BY <1>2, <1>3, <1>4 DEF ScanBar

\* The flag is set: the area has its BAR, or the BAR is lost.
LEMMA TakeInv ==
    ASSUME SingleThread, IInv, NEW t \in Threads, TakeBar(t) PROVE IInv'
  <1> DEFINE x == call[t].x
             area == [call[t].area EXCEPT !.bar = x, !.acquired = call[t].area.use # "serve"]
             idle == [pc |-> "idle", area |-> NoArea, x |-> FirstBar]
  <1>1. x \in Bars /\ area.bar = x /\ "bar" \in DOMAIN area BY DEF IInv, Shape
  <1>2. \A u \in Threads : u = t BY DEF SingleThread
  <1>3. At(t, "take") /\ ~ bar[x].lock /\ call[t].area.bar = NoBar
    BY DEF TakeBar, At, IInv, TakesFree, AreaHasBar
  <1>4. PICK w : bar' = [bar EXCEPT ![x] = [lock |-> TRUE, window |-> w]]
    BY DEF TakeBar
  <1>5. /\ bar'[x].lock = TRUE /\ "lock" \in DOMAIN bar'[x] /\ DOMAIN bar' = Bars
        /\ \A y \in Bars : y # x => bar'[y] = bar[y]
    BY <1>1, <1>4 DEF IInv, Shape
  <1>6. x # NoBar BY <1>1 DEF Bars, NoBar, FirstBar, LastBar
  <1>7. area \notin kept[t] /\ \A a \in kept[t] : a.bar \in Bars
    BY <1>1, <1>3, <1>6 DEF IInv, AreaHasBar, BarsAccounted, Live
  <1>8. idle.pc = "idle" /\ idle.area = NoArea /\ idle.x \in Bars
        /\ {"pc", "area", "x"} \subseteq DOMAIN idle
        /\ "bar" \in DOMAIN NoArea /\ NoArea.bar = NoBar
    BY DEF NoArea, Bars, FirstBar, LastBar
  <1>9. Alone(t) BY AloneSuffices DEF IInv
  <1>10. (Alone(t) <=> LostIsLost /\ OneAreaPerBar /\ BarsAccounted)'
    BY <1>2 DEF Alone, LostIsLost, OneAreaPerBar, BarsAccounted
  <1>11. \/ /\ leaked' = leaked /\ kept' = kept
            /\ call' = [call EXCEPT ![t].pc = "access", ![t].area = area]
         \/ /\ leaked' = leaked /\ kept' = [kept EXCEPT ![t] = @ \cup {area}]
            /\ call' = [call EXCEPT ![t] = idle]
         \/ /\ leaked' = leaked \cup {x} /\ kept' = kept
            /\ call' = [call EXCEPT ![t] = idle]
    BY DEF TakeBar, Return
  <1> HIDE DEF x, area, idle
  <1>12. CASE /\ leaked' = leaked /\ kept' = kept
              /\ call' = [call EXCEPT ![t].pc = "access", ![t].area = area]
    <2>1. /\ DOMAIN call' = Threads /\ {"pc", "area", "x"} \subseteq DOMAIN call'[t]
          /\ call'[t].pc = "access" /\ call'[t].area = area /\ call'[t].x \in Bars
      BY <1>12 DEF IInv, Shape
    <2>2. Live(t)' = Live(t) \cup {area} BY <1>1, <1>3, <1>6, <1>12, <2>1 DEF Live
    <2>3. Alone(t)' BY <1>1, <1>3, <1>5, <1>9, <1>12, <2>2, Gain DEF IInv
    <2>4. Shape' BY <1>1, <1>2, <1>5, <1>12, <2>1 DEF IInv, Shape
    <2>5. AreaHasBar' /\ TakesFree' /\ CallIsOwn'
      BY <1>1, <1>2, <1>7, <1>12, <2>1 DEF AreaHasBar, TakesFree, CallIsOwn, At
    <2> QED BY <1>10, <2>3, <2>4, <2>5 DEF IInv
  <1>13. CASE /\ leaked' = leaked /\ kept' = [kept EXCEPT ![t] = @ \cup {area}]
              /\ call' = [call EXCEPT ![t] = idle]
    <2>1. /\ DOMAIN call' = Threads /\ call'[t] = idle
          /\ DOMAIN kept' = Threads /\ kept'[t] = kept[t] \cup {area}
      BY <1>13 DEF IInv, Shape
    <2>2. Live(t)' = Live(t) \cup {area} BY <1>1, <1>3, <1>6, <1>8, <2>1 DEF Live
    <2>3. Alone(t)' BY <1>1, <1>3, <1>5, <1>9, <1>13, <2>2, Gain DEF IInv
    <2>4. Shape' BY <1>2, <1>5, <1>8, <2>1 DEF IInv, Shape
    <2>5. AreaHasBar' /\ TakesFree' /\ CallIsOwn'
      BY <1>1, <1>2, <1>7, <1>8, <2>1 DEF AreaHasBar, TakesFree, CallIsOwn, At
    <2> QED BY <1>10, <2>3, <2>4, <2>5 DEF IInv
  <1>14. CASE /\ leaked' = leaked \cup {x} /\ kept' = kept
              /\ call' = [call EXCEPT ![t] = idle]
    <2>1. DOMAIN call' = Threads /\ call'[t] = idle BY <1>14 DEF IInv, Shape
    <2>2. Live(t)' = Live(t) BY <1>3, <1>8, <1>14, <2>1 DEF Live
    <2>3. Alone(t)' BY <1>1, <1>3, <1>5, <1>9, <1>14, <2>2, Lose DEF IInv
    <2>4. Shape' BY <1>2, <1>5, <1>8, <1>14, <2>1 DEF IInv, Shape
    <2>5. AreaHasBar' /\ TakesFree' /\ CallIsOwn'
      BY <1>2, <1>7, <1>8, <1>14, <2>1 DEF AreaHasBar, TakesFree, CallIsOwn, At
    <2> QED BY <1>10, <2>3, <2>4, <2>5 DEF IInv
  <1> QED BY <1>11, <1>12, <1>13, <1>14

\* nfp_cpp_read and nfp_cpp_write give back what they have used.
LEMMA ReleaseFreeInv ==
    ASSUME SingleThread, IInv, NEW t \in Threads, nfp_cpp_area_release_free(t) PROVE IInv'
  <1> DEFINE area == call[t].area
             idle == [pc |-> "idle", area |-> NoArea, x |-> FirstBar]
  <1>1. \A u \in Threads : u = t BY DEF SingleThread
  <1>2. /\ At(t, "access") /\ nfp6000_area_release(area)
        /\ call' = [call EXCEPT ![t] = idle] /\ UNCHANGED <<kept, leaked>>
    BY DEF nfp_cpp_area_release_free, Return
  <1>3. area.bar \in Bars /\ area \notin kept[t]
    BY <1>2 DEF IInv, AreaHasBar, CallIsOwn
  <1>4. area.bar # NoBar BY <1>3 DEF Bars, NoBar, FirstBar, LastBar
  <1>5. idle.pc = "idle" /\ idle.area = NoArea /\ idle.x \in Bars
        /\ {"pc", "area", "x"} \subseteq DOMAIN idle
        /\ "bar" \in DOMAIN NoArea /\ NoArea.bar = NoBar
    BY DEF NoArea, Bars, FirstBar, LastBar
  <1> HIDE DEF idle
  <1>6. DOMAIN call' = Threads /\ call'[t] = idle BY <1>2 DEF IInv, Shape
  <1>7. area \in Live(t) /\ Live(t)' = Live(t) \ {area}
    BY <1>2, <1>3, <1>4, <1>5, <1>6 DEF Live
  <1>8. Alone(t)' BY <1>2, <1>3, <1>7, AloneSuffices, GiveBack DEF IInv
  <1>9. (Alone(t) <=> LostIsLost /\ OneAreaPerBar /\ BarsAccounted)'
    BY <1>1 DEF Alone, LostIsLost, OneAreaPerBar, BarsAccounted
  <1>10. Shape'
    BY <1>1, <1>2, <1>3, <1>5, <1>6 DEF IInv, Shape, nfp6000_area_release
  <1>11. AreaHasBar' /\ TakesFree' /\ CallIsOwn'
    BY <1>1, <1>2, <1>5, <1>6 DEF IInv, AreaHasBar, TakesFree, CallIsOwn, At
  <1> QED BY <1>8, <1>9, <1>10, <1>11 DEF IInv

\* A kept area goes, released or not.
LEMMA DropInv ==
    ASSUME SingleThread, IInv, NEW t \in Threads, NEW area \in kept[t],
           Unmap(t, area) \/ nfp_cpp_area_free(t, area)
    PROVE  IInv'
  <1>1. \A u \in Threads : u = t BY DEF SingleThread
  <1>2. At(t, "idle") /\ kept' = [kept EXCEPT ![t] = @ \ {area}] /\ UNCHANGED call
    BY DEF Unmap, nfp_cpp_area_free
  <1>3. area.bar \in Bars /\ call[t].area.bar = NoBar
    BY <1>2 DEF IInv, AreaHasBar, At
  <1>4. area.bar # NoBar BY <1>3 DEF Bars, NoBar, FirstBar, LastBar
  <1>5. DOMAIN kept' = Threads /\ kept'[t] = kept[t] \ {area} BY <1>2 DEF IInv, Shape
  <1>6. area \in Live(t) /\ Live(t)' = Live(t) \ {area}
    BY <1>2, <1>3, <1>4, <1>5 DEF Live
  <1>7. Alone(t) BY AloneSuffices DEF IInv
  <1>8. CASE Unmap(t, area)
    <2>1. nfp6000_area_release(area) /\ leaked' = leaked BY <1>8 DEF Unmap
    <2>2. Alone(t)' BY <1>3, <1>6, <1>7, <2>1, GiveBack DEF IInv
    <2>3. Shape' BY <1>2, <1>3, <1>5, <2>1 DEF IInv, Shape, nfp6000_area_release
    <2> QED BY <2>2, <2>3, <1>1, <1>2, <1>3, <1>5
            DEF IInv, Alone, LostIsLost, OneAreaPerBar, BarsAccounted, AreaHasBar,
                TakesFree, CallIsOwn, At
  <1>9. CASE nfp_cpp_area_free(t, area)
    <2>1. bar' = bar /\ leaked' = leaked \cup {area.bar} BY <1>9 DEF nfp_cpp_area_free
    <2>2. Alone(t)' BY <1>3, <1>6, <1>7, <2>1, Forget DEF IInv
    <2>3. Shape' BY <1>2, <1>5, <2>1 DEF IInv, Shape
    <2> QED BY <2>2, <2>3, <1>1, <1>2, <1>3, <1>5
            DEF IInv, Alone, LostIsLost, OneAreaPerBar, BarsAccounted, AreaHasBar,
                TakesFree, CallIsOwn, At
  <1> QED BY <1>8, <1>9

\* Every step of the one thread keeps the invariant.
LEMMA NextInv ==
    ASSUME SingleThread
    PROVE  IInv /\ [AreasNext]_areasVars => IInv'
  <1> SUFFICES ASSUME IInv, [AreasNext]_areasVars PROVE IInv'
    OBVIOUS
  <1>1. CASE AreasNext
    <2> PICK t \in Threads :
            \/ \E req \in Requests, use \in {"rw", "map", "serve"} :
                  nfp_cpp_area_alloc(t, req, use)
            \/ ScanBar(t)
            \/ TakeBar(t)
            \/ nfp_cpp_area_release_free(t)
            \/ \E area \in kept[t] : Unmap(t, area) \/ nfp_cpp_area_free(t, area)
      BY <1>1 DEF AreasNext
    <2> QED BY AllocInv, ScanInv, TakeInv, ReleaseFreeInv, DropInv
  <1>2. CASE UNCHANGED areasVars
    BY <1>2 DEF areasVars, IInv, Shape, AreaHasBar, TakesFree, CallIsOwn, LostIsLost,
                OneAreaPerBar, BarsAccounted, Live, At
  <1> QED BY <1>1, <1>2

-----------------------------------------------------------------------------
(***************************************************************************)
(* A thread that is alone in the library never has two areas behind one BAR:  *)
(* for it the test and the set of nfp_alloc_bar are one.                      *)
(***************************************************************************)
THEOREM SingleThreadBars ==
    ASSUME SingleThread
    PROVE  AreasSpec => []OneAreaPerBar
  <1>1. IInv => OneAreaPerBar BY DEF IInv
  <1> QED BY <1>1, InitInv, NextInv, PTL DEF AreasSpec

(***************************************************************************)
(* For such a thread no path through nfp_cpp_area_alloc, nfp_cpp_read,        *)
(* nfp_cpp_write and nfp_cpp_map_area costs a BAR, but for an area that       *)
(* nfp_reconfigure_bar refuses and one that is freed without release.         *)
(***************************************************************************)
THEOREM SingleThreadAccounts ==
    ASSUME SingleThread
    PROVE  AreasSpec => []BarsAccounted
  <1>1. IInv => BarsAccounted BY DEF IInv
  <1> QED BY <1>1, InitInv, NextInv, PTL DEF AreasSpec

-----------------------------------------------------------------------------
(***************************************************************************)
(* Addresses.  Translation writes numbers into fields of an address and reads *)
(* them back; the argument is about the digits of these numbers.              *)
(***************************************************************************)
\* The digit n of a number, as Bits looks at it.
Digit(v, n) == (v \div 2^n) % 2

LEMMA Digits ==
    ASSUME NEW v \in Nat
    PROVE  /\ Digit(v, 0) = v % 2 /\ Digit(v, 1) = (v \div 2) % 2
           /\ Digit(v, 2) = (v \div 4) % 2 /\ Digit(v, 3) = (v \div 8) % 2
           /\ Digit(v, 4) = (v \div 16) % 2 /\ Digit(v, 5) = (v \div 32) % 2
           /\ Digit(v, 6) = (v \div 64) % 2 /\ Digit(v, 7) = (v \div 128) % 2
  BY DEF Digit

\* Every digit is 0 or 1,
LEMMA DigitRange ==
    ASSUME NEW v \in Nat, NEW n \in 0 .. 7
    PROVE  Digit(v, n) \in {0, 1}
  <1>1. 2^n \in Nat \ {0}
    <2>1. n \in {0, 1, 2, 3, 4, 5, 6, 7} OBVIOUS
    <2>2. /\ 2^0 \in Nat \ {0} /\ 2^1 \in Nat \ {0} /\ 2^2 \in Nat \ {0} /\ 2^3 \in Nat \ {0}
          /\ 2^4 \in Nat \ {0} /\ 2^5 \in Nat \ {0} /\ 2^6 \in Nat \ {0} /\ 2^7 \in Nat \ {0}
      OBVIOUS
    <2> QED BY <2>1, <2>2, Zenon
  <1>2. \A d \in Nat \ {0} : (v \div d) % 2 \in {0, 1} OBVIOUS
  <1> QED BY <1>1, <1>2, Zenon DEF Digit

\* those beyond the length of a number are 0,
LEMMA ShortDigits ==
    ASSUME NEW v \in Nat
    PROVE  /\ v < 1 => Digit(v, 0) = 0
           /\ v < 2 => Digit(v, 1) = 0
           /\ v < 4 => /\ Digit(v, 2) = 0 /\ Digit(v, 3) = 0
                       /\ Digit(v, 4) = 0 /\ Digit(v, 5) = 0
           /\ v < 64 => Digit(v, 6) = 0 /\ Digit(v, 7) = 0
  <1>1. /\ v < 1 => v % 2 = 0
        /\ v < 2 => (v \div 2) % 2 = 0
        /\ v < 4 => (v \div 4) % 2 = 0
        /\ v < 4 => (v \div 8) % 2 = 0
        /\ v < 4 => (v \div 16) % 2 = 0
        /\ v < 4 => (v \div 32) % 2 = 0
        /\ v < 64 => (v \div 64) % 2 = 0
        /\ v < 64 => (v \div 128) % 2 = 0
    OBVIOUS
  <1> QED BY <1>1, Digits, Zenon

\* and a number of six digits is their sum.
SumOfDigits(v) ==
    Digit(v, 0) + 2 * Digit(v, 1) + 4 * Digit(v, 2) + 8 * Digit(v, 3)
        + 16 * Digit(v, 4) + 32 * Digit(v, 5)

LEMMA Sums ==
    ASSUME NEW v \in 0 .. 63
    PROVE  v = SumOfDigits(v)
  <1>1. v = (v % 2) + 2 * ((v \div 2) % 2) + 4 * ((v \div 4) % 2) + 8 * ((v \div 8) % 2)
                + 16 * ((v \div 16) % 2) + 32 * ((v \div 32) % 2)
    OBVIOUS
  <1>2. v \in Nat OBVIOUS
  <1>3. SumOfDigits(v)
          = (v % 2) + 2 * ((v \div 2) % 2) + 4 * ((v \div 4) % 2) + 8 * ((v \div 8) % 2)
                + 16 * ((v \div 16) % 2) + 32 * ((v \div 32) % 2)
    BY <1>2, Digits, Zenon DEF SumOfDigits
  <1> QED BY <1>1, <1>3, Zenon

\* The bits of a shifted number are its digits.
LEMMA BitsAre ==
    ASSUME NEW v, NEW lsb \in Nat
    PROVE  /\ Bits(v, lsb) \subseteq lsb .. lsb + 7
           /\ \A n \in 0 .. 7 : lsb + n \in Bits(v, lsb) <=> Digit(v, n) = 1
  <1>1. \A x : x \in Bits(v, lsb) <=> \E n \in 0 .. 7 : Digit(v, n) = 1 /\ x = lsb + n
    BY DEF Bits, Digit
  <1>2. ASSUME NEW n \in 0 .. 7, lsb + n \in Bits(v, lsb) PROVE Digit(v, n) = 1
    <2>1. PICK m \in 0 .. 7 : Digit(v, m) = 1 /\ lsb + n = lsb + m BY <1>1, <1>2
    <2>2. m = n BY <2>1
    <2> QED BY <2>1, <2>2
  <1>3. ASSUME NEW n \in 0 .. 7, Digit(v, n) = 1 PROVE lsb + n \in Bits(v, lsb)
    BY <1>1, <1>3
  <1>4. Bits(v, lsb) \subseteq lsb .. lsb + 7 BY <1>1
  <1> QED BY <1>2, <1>3, <1>4

\* The widths of the fields of an address.
Widths == {0, 1, 2, 6}

LEMMA ShortNumbers ==
    ASSUME NEW w \in Widths, NEW v \in 0 .. 2^w - 1
    PROVE  /\ v \in 0 .. 63
           /\ \A n \in 0 .. 7 : n >= w => Digit(v, n) # 1
  <1>1. v \in Int /\ 0 <= v /\ v <= 2^w - 1
    <2>1. 2^w \in Int BY DEF Widths
    <2> QED BY <2>1
  <1>2. ASSUME NEW n \in 0 .. 7, n >= w, v \in Nat
        PROVE  v < 64 /\ Digit(v, n) = 0
    <2>1. n \in {0, 1, 2, 3, 4, 5, 6, 7} OBVIOUS
    <2>2. CASE w = 0
      <3>1. v < 1 /\ v < 2 /\ v < 4 /\ v < 64 BY <1>1, <2>2
      <3> QED BY <1>2, <2>1, <3>1, ShortDigits
    <2>3. CASE w = 1
      <3>1. v < 2 /\ v < 4 /\ v < 64 /\ n # 0 BY <1>1, <1>2, <2>3
      <3> QED BY <1>2, <2>1, <3>1, ShortDigits
    <2>4. CASE w = 2
      <3>1. v < 4 /\ v < 64 /\ n \notin {0, 1} BY <1>1, <1>2, <2>4
      <3> QED BY <1>2, <2>1, <3>1, ShortDigits
    <2>5. CASE w = 6
      <3>1. v < 64 /\ n \notin {0, 1, 2, 3, 4, 5} BY <1>1, <1>2, <2>5
      <3> QED BY <1>2, <2>1, <3>1, ShortDigits
    <2> QED BY <2>2, <2>3, <2>4, <2>5 DEF Widths
  <1>3. v \in Nat /\ 7 >= w BY <1>1 DEF Widths
  <1>4. v < 64 BY <1>2, <1>3
  <1> QED BY <1>2, <1>3, <1>4

\* A number of six digits is what its digits say.
LEMMA DigitsTell ==
    ASSUME NEW v \in 0 .. 63, NEW u \in 0 .. 63,
           \A n \in 0 .. 7 : Digit(v, n) = 1 <=> Digit(u, n) = 1
    PROVE  v = u
  <1>1. v \in Nat /\ u \in Nat OBVIOUS
  <1>2. \A n \in 0 .. 7 : Digit(v, n) = Digit(u, n) BY <1>1, DigitRange, Zenon
  <1>3. 0 \in 0 .. 7 /\ 1 \in 0 .. 7 /\ 2 \in 0 .. 7 /\ 3 \in 0 .. 7 /\ 4 \in 0 .. 7 /\ 5 \in 0 .. 7
    OBVIOUS
  <1>4. SumOfDigits(v) = SumOfDigits(u) BY <1>2, <1>3, Zenon DEF SumOfDigits
  <1> QED BY <1>4, Sums, Zenon

\* What is read at a field is the number whose bits are there.
LEMMA ValueIs ==
    ASSUME NEW hi, NEW lsb \in Nat, NEW w \in Widths, NEW v \in 0 .. 2^w - 1,
           \A n \in 0 .. w - 1 : lsb + n \in hi <=> Digit(v, n) = 1
    PROVE  Value(hi, lsb, w) = v
  <1>1. Bits(v, lsb) = hi \cap _nic_mask64(lsb, w)
    <2>1. _nic_mask64(lsb, w) = lsb .. lsb + w - 1 /\ w \in 0 .. 6
      BY DEF _nic_mask64, Widths
    <2>2. ASSUME NEW x \in Bits(v, lsb) PROVE x \in hi \cap _nic_mask64(lsb, w)
      <3>1. x \in lsb .. lsb + 7 BY BitsAre
      <3>2. PICK n \in 0 .. 7 : x = lsb + n
        <4>1. x - lsb \in 0 .. 7 /\ x = lsb + (x - lsb) BY <3>1
        <4> QED BY <4>1
      <3>3. Digit(v, n) = 1 BY <3>2, BitsAre
      <3>4. n < w BY <2>1, <3>3, ShortNumbers
      <3> QED BY <2>1, <3>2, <3>3, <3>4
    <2>3. ASSUME NEW x \in hi, x \in _nic_mask64(lsb, w) PROVE x \in Bits(v, lsb)
      <3>0. x \in lsb .. lsb + w - 1 BY <2>1, <2>3
      <3>1. x - lsb \in 0 .. w - 1 /\ x - lsb \in 0 .. 7 /\ x = lsb + (x - lsb)
        BY <2>1, <3>0
      <3>2. Digit(v, x - lsb) = 1 BY <3>1
      <3> QED BY <3>1, <3>2, BitsAre
    <2> QED BY <2>2, <2>3
  <1>2. ASSUME NEW u \in 0 .. 2^w - 1, Bits(u, lsb) = hi \cap _nic_mask64(lsb, w)
        PROVE  u = v
    <2>1. \A n \in 0 .. 7 : Digit(v, n) = 1 <=> Digit(u, n) = 1
      BY <1>1, <1>2, BitsAre
    <2>2. u \in 0 .. 63 /\ v \in 0 .. 63 BY ShortNumbers
    <2> QED BY <2>1, <2>2, DigitsTell
  <1>3. \A u \in 0 .. 2^w - 1 : Bits(u, lsb) = hi \cap _nic_mask64(lsb, w) <=> u = v
    BY <1>1, <1>2
  <1> QED BY <1>3 DEF Value

-----------------------------------------------------------------------------
\* PutIsland writes six bits and no other.
LEMMA PutIs ==
    ASSUME NEW hi, NEW island, NEW lsb \in Nat
    PROVE  /\ \A n \in 0 .. 5 : lsb + n \in PutIsland(hi, island, lsb) <=> Digit(island, n) = 1
           /\ \A x : x \notin lsb .. lsb + 5 => (x \in PutIsland(hi, island, lsb) <=> x \in hi)
           /\ PutIsland(hi, island, lsb) \ _nic_mask64(lsb, 6) = hi \ _nic_mask64(lsb, 6)
  <1>1. _nic_mask64(lsb, 6) = lsb .. lsb + 5 BY DEF _nic_mask64
  <1>2. \A x : x \in PutIsland(hi, island, lsb) <=>
                  IF x \in lsb .. lsb + 5 THEN x \in Bits(island, lsb) ELSE x \in hi
    BY <1>1 DEF PutIsland
  <1>3. ASSUME NEW n \in 0 .. 5
        PROVE  lsb + n \in PutIsland(hi, island, lsb) <=> Digit(island, n) = 1
    <2>1. n \in 0 .. 7 /\ lsb + n \in lsb .. lsb + 5 OBVIOUS
    <2> QED BY <1>2, <2>1, BitsAre
  <1>4. PutIsland(hi, island, lsb) \ _nic_mask64(lsb, 6) = hi \ _nic_mask64(lsb, 6)
    BY <1>1, <1>2
  <1> QED BY <1>2, <1>3, <1>4

\* What it writes is read back.
LEMMA PutGet ==
    ASSUME NEW hi, NEW island \in Island, NEW lsb \in Nat
    PROVE  Value(PutIsland(hi, island, lsb), lsb, 6) = island
  <1>1. 6 \in Widths /\ island \in 0 .. 2^6 - 1 BY DEF Widths, Island
  <1>2. \A n \in 0 .. 6 - 1 : lsb + n \in PutIsland(hi, island, lsb) <=> Digit(island, n) = 1
    BY PutIs
  <1> QED BY <1>1, <1>2, ValueIs

-----------------------------------------------------------------------------
\* With k free bits the number of an island is cut in two.
LEMMA CutIsland ==
    ASSUME NEW entry \in ImbEntry, entry.mode \in 1 .. 3, NEW island \in Nat
    PROVE  LET k == FreeBits(entry) IN
           /\ k \in 0 .. 2 /\ k \in Widths
           /\ island % 2^k \in 0 .. 2^k - 1
           /\ island = (island \div 2^k) * 2^k + (island % 2^k)
  <1> DEFINE k == FreeBits(entry)
  <1>1. k \in {0, 1, 2} BY DEF FreeBits
  <1>2. 2^0 = 1 /\ 2^1 = 2 /\ 2^2 = 4 OBVIOUS
  <1>3. 2^k \in {1, 2, 4} BY <1>1, <1>2
  <1>4. \A d \in {1, 2, 4} :
            island % d \in 0 .. d - 1 /\ island = (island \div d) * d + (island % d)
    <2>1. island % 1 \in 0 .. 1 - 1 /\ island = (island \div 1) * 1 + (island % 1) OBVIOUS
    <2>2. island % 2 \in 0 .. 2 - 1 /\ island = (island \div 2) * 2 + (island % 2) OBVIOUS
    <2>3. island % 4 \in 0 .. 4 - 1 /\ island = (island \div 4) * 4 + (island % 4) OBVIOUS
    <2> QED BY <2>1, <2>2, <2>3, Zenon
  <1>5. k \in 0 .. 2 /\ k \in Widths BY <1>1 DEF Widths
  <1> HIDE DEF k
  <1>6. island % 2^k \in 0 .. 2^k - 1 /\ island = (island \div 2^k) * 2^k + (island % 2^k)
    BY <1>3, <1>4, Zenon
  <1> QED BY <1>5, <1>6 DEF k

\* What EncodeIndex writes: which of the two islands, and the free bits.
LEMMA IndexIs ==
    ASSUME NEW hi, NEW island \in Nat, NEW idx \in Nat, idx >= 2,
           NEW entry \in ImbEntry, entry.mode \in 1 .. 3,
           EncodeIndex(hi, island, idx, entry).err = "ok"
    PROVE  LET k == FreeBits(entry)
               e == EncodeIndex(hi, island, idx, entry).hi IN
           /\ entry.isld[IF idx \in e THEN 1 ELSE 0] \div 2^k = island \div 2^k
           /\ \A n \in 0 .. k - 1 : (idx - k) + n \in e <=> Digit(island % 2^k, n) = 1
           /\ \A x : x \notin idx - k .. idx => (x \in e <=> x \in hi)
           /\ e \ (idx - k .. idx) = hi \ (idx - k .. idx)
  <1> DEFINE k == FreeBits(entry)
             e == EncodeIndex(hi, island, idx, entry).hi
             r == island % 2^k
             fits == {i \in {0, 1} : entry.isld[i] \div 2^k = island \div 2^k}
             i == IF 0 \in fits THEN 0 ELSE 1
  <1>1. /\ fits # {}
        /\ e = (hi \ (idx - k .. idx)) \cup Bits(i, idx) \cup Bits(r, idx - k)
    BY DEF EncodeIndex, Refused, Encoded
  <1>2. i \in {0, 1} /\ entry.isld[i] \div 2^k = island \div 2^k
    BY <1>1
  <1>3. k \in 0 .. 2 /\ k \in Widths /\ r \in 0 .. 2^k - 1 BY CutIsland
  <1>4. idx - k \in Nat BY <1>3
  <1> HIDE DEF k, e, r, i, fits
  <1>5. \A x \in Bits(i, idx) : x = idx /\ i = 1
    <2>1. 1 \in Widths /\ i \in 0 .. 2^1 - 1 BY <1>2 DEF Widths
    <2>2. Digit(0, 0) # 1 BY ShortDigits
    <2> SUFFICES ASSUME NEW x \in Bits(i, idx) PROVE x = idx /\ i = 1 OBVIOUS
    <2>3. x - idx \in 0 .. 7 /\ x = idx + (x - idx) BY BitsAre
    <2>4. Digit(i, x - idx) = 1 BY <2>3, BitsAre
    <2>5. ~ (x - idx >= 1) BY <2>1, <2>3, <2>4, ShortNumbers
    <2>6. x - idx = 0 /\ x = idx BY <2>3, <2>5
    <2>7. i # 0 BY <2>2, <2>4, <2>6
    <2> QED BY <1>2, <2>6, <2>7
  <1>6. i = 1 => idx \in Bits(i, idx)
    <2>1. Digit(1, 0) = 1 BY Digits
    <2>2. 0 \in 0 .. 7 /\ idx + 0 = idx OBVIOUS
    <2> QED BY <2>1, <2>2, BitsAre
  <1>7. \A x \in Bits(r, idx - k) : x \in idx - k .. idx - 1
    <2> SUFFICES ASSUME NEW x \in Bits(r, idx - k) PROVE x \in idx - k .. idx - 1 OBVIOUS
    <2>1. x - (idx - k) \in 0 .. 7 /\ x = (idx - k) + (x - (idx - k)) BY <1>3, <1>4, BitsAre
    <2>2. Digit(r, x - (idx - k)) = 1 BY <1>4, <2>1, BitsAre
    <2>3. ~ (x - (idx - k) >= k) BY <1>3, <2>1, <2>2, ShortNumbers
    <2> QED BY <1>3, <2>1, <2>3
  <1>8. idx \in e <=> i = 1 BY <1>1, <1>3, <1>5, <1>6, <1>7
  <1>9. ASSUME NEW n \in 0 .. k - 1
        PROVE  (idx - k) + n \in e <=> Digit(r, n) = 1
    <2>1. n \in 0 .. 7 /\ (idx - k) + n \in idx - k .. idx /\ (idx - k) + n # idx BY <1>3
    <2>2. (idx - k) + n \in Bits(r, idx - k) <=> Digit(r, n) = 1 BY <1>4, <2>1, BitsAre
    <2> QED BY <1>1, <1>5, <2>1, <2>2
  <1>10. \A x : x \notin idx - k .. idx => (x \in e <=> x \in hi)
    BY <1>1, <1>3, <1>5, <1>7
  <1>11. e \ (idx - k .. idx) = hi \ (idx - k .. idx) BY <1>10
  <1>12. entry.isld[IF idx \in e THEN 1 ELSE 0] \div 2^k = island \div 2^k
    BY <1>2, <1>8
  <1> QED BY <1>9, <1>10, <1>11, <1>12 DEF k, e, r

\* What it writes is read back.
LEMMA IndexGet ==
    ASSUME NEW hi, NEW island \in Nat, NEW idx \in Nat, idx >= 2,
           NEW entry \in ImbEntry, entry.mode \in 1 .. 3,
           EncodeIndex(hi, island, idx, entry).err = "ok"
    PROVE  DecodeIndex(EncodeIndex(hi, island, idx, entry).hi, idx, entry) = island
  <1> DEFINE k == FreeBits(entry)
             e == EncodeIndex(hi, island, idx, entry).hi
             r == island % 2^k
             isld == entry.isld[IF idx \in e THEN 1 ELSE 0]
  <1>1. isld \div 2^k = island \div 2^k BY IndexIs
  <1>2. k \in 0 .. 2 /\ k \in Widths /\ r \in 0 .. 2^k - 1 BY CutIsland
  <1>3. island = (island \div 2^k) * 2^k + r BY CutIsland
  <1>4. \A n \in 0 .. k - 1 : (idx - k) + n \in e <=> Digit(r, n) = 1 BY IndexIs
  <1>5. idx - k \in Nat BY <1>2
  <1>6. DecodeIndex(e, idx, entry) = (isld \div 2^k) * 2^k + Value(e, idx - k, k)
    BY DEF DecodeIndex
  <1> HIDE DEF k, e, r, isld
  <1>7. Value(e, idx - k, k) = r BY <1>2, <1>4, <1>5, ValueIs
  <1>8. DecodeIndex(e, idx, entry) = island BY <1>1, <1>3, <1>6, <1>7, Zenon
  <1> QED BY <1>8 DEF e

-----------------------------------------------------------------------------
\* An address is of direct locality by two of its bits.
LEMMA DirectIs ==
    ASSUME NEW hi, NEW entry
    PROVE  LET lsb == _nfp6000_cppat_mu_locality_lsb(entry) IN
           Direct(hi, entry) <=> lsb + 1 \in hi /\ lsb \notin hi
  <1> DEFINE lsb == _nfp6000_cppat_mu_locality_lsb(entry)
             v == (IF lsb \in hi THEN 1 ELSE 0) + (IF lsb + 1 \in hi THEN 2 ELSE 0)
  <1>1. lsb \in Nat BY DEF _nfp6000_cppat_mu_locality_lsb
  <1>2. 2 \in Widths /\ v \in 0 .. 2^2 - 1 BY DEF Widths
  <1>3. v \in {0, 1, 2, 3} /\ (v = 2 <=> lsb + 1 \in hi /\ lsb \notin hi) OBVIOUS
  <1>4. /\ Digit(v, 0) = 1 <=> lsb \in hi
        /\ Digit(v, 1) = 1 <=> lsb + 1 \in hi
    <2>1. /\ Digit(0, 0) = 0 /\ Digit(0, 1) = 0 /\ Digit(1, 0) = 1 /\ Digit(1, 1) = 0
          /\ Digit(2, 0) = 0 /\ Digit(2, 1) = 1 /\ Digit(3, 0) = 1 /\ Digit(3, 1) = 1
      BY Digits
    <2> QED BY <2>1
  <1> HIDE DEF v, lsb
  <1>5. \A n \in 0 .. 2 - 1 : lsb + n \in hi <=> Digit(v, n) = 1
    <2> SUFFICES ASSUME NEW n \in 0 .. 1 PROVE lsb + n \in hi <=> Digit(v, n) = 1 OBVIOUS
    <2>1. n \in {0, 1} /\ lsb + 0 = lsb BY <1>1
    <2> QED BY <1>4, <2>1
  <1>6. Value(hi, lsb, 2) = v BY <1>1, <1>2, <1>5, ValueIs
  <1> QED BY <1>3, <1>6 DEF Direct, _NIC_NFP6000_MU_LOCALITY_DIRECT, lsb

\* Where the fields lie: the island below the locality, the index on top of it.
LEMMA Fields ==
    ASSUME NEW entry \in ImbEntry
    PROVE  /\ BasicIidLsb(entry) \in Nat
           /\ BasicIdxLsb(entry) \in Nat /\ BasicIdxLsb(entry) >= 2
           /\ MuIidLsb(entry) \in Nat
           /\ MuIdxLsb(entry) = MuIidLsb(entry) + 5
           /\ _nfp6000_cppat_mu_locality_lsb(entry) = MuIidLsb(entry) + 6
  BY DEF BasicIidLsb, BasicIdxLsb, MuIidLsb, MuIdxLsb, _nfp6000_cppat_mu_locality_lsb

LEMMA Targets ==
    /\ MU \notin BasicTargets /\ CTXPB \notin BasicTargets /\ MU # CTXPB
    /\ \A t : t \in BasicTargets => t # MU /\ t # CTXPB
  BY DEF BasicTargets, MU, CTXPB, NBI, VQDR, ILA, PCIE, ARM, CRYPTO, CLS

\* Writing below the locality of an address leaves it as it is.
LEMMA LocalityStays ==
    ASSUME NEW entry \in ImbEntry, NEW hi, NEW new,
           \A x : x \notin MuIidLsb(entry) .. MuIidLsb(entry) + 5 => (x \in new <=> x \in hi)
    PROVE  Direct(new, entry) <=> Direct(hi, entry)
  <1> DEFINE lsb == _nfp6000_cppat_mu_locality_lsb(entry)
  <1>1. /\ lsb \notin MuIidLsb(entry) .. MuIidLsb(entry) + 5
        /\ lsb + 1 \notin MuIidLsb(entry) .. MuIidLsb(entry) + 5
    BY Fields
  <1>2. (lsb \in new <=> lsb \in hi) /\ (lsb + 1 \in new <=> lsb + 1 \in hi) BY <1>1
  <1> HIDE DEF lsb
  <1> QED BY <1>2, DirectIs DEF lsb

(***************************************************************************)
(* The targets other than MU: the bus sends a translated address to its       *)
(* island, and what is not the island stays.                                  *)
(***************************************************************************)
LEMMA BasicReaches ==
    ASSUME NEW entry \in ImbEntry, NEW hi, NEW island \in Island, NEW target,
           _nfp6000_encode_basic(hi, island, target, entry).err = "ok"
    PROVE  _nfp6000_decode_basic(
               _nfp6000_encode_basic(hi, island, target, entry).hi, entry) = island
  <1> DEFINE e == _nfp6000_encode_basic(hi, island, target, entry)
  <1>0. entry.mode \in 0 .. 7 /\ island \in Nat BY DEF ImbEntry, Island
  <1>1. entry.mode \in 0 .. 3 BY <1>0 DEF _nfp6000_encode_basic, Refused
  <1>2. CASE target = VQDR /\ ~ entry.addr40
    BY <1>1, <1>2 DEF _nfp6000_encode_basic, Refused, Encoded
  <1>3. CASE ~ (target = VQDR /\ ~ entry.addr40) /\ entry.mode = 0
    <2>1. e.hi = PutIsland(hi, island, BasicIidLsb(entry))
      BY <1>1, <1>3 DEF _nfp6000_encode_basic, Encoded
    <2> HIDE DEF e
    <2>2. _nfp6000_decode_basic(e.hi, entry) = island
      BY <1>3, <2>1, Fields, PutGet DEF _nfp6000_decode_basic
    <2> QED BY <2>2 DEF e
  <1>4. CASE ~ (target = VQDR /\ ~ entry.addr40) /\ entry.mode # 0
    <2>1. e = EncodeIndex(hi, island, BasicIdxLsb(entry), entry)
      BY <1>1, <1>4 DEF _nfp6000_encode_basic
    <2>2. e.err = "ok" /\ entry.mode \in 1 .. 3 BY <1>1, <1>4
    <2> HIDE DEF e
    <2>3. DecodeIndex(e.hi, BasicIdxLsb(entry), entry) = island
      BY <1>0, <2>1, <2>2, Fields, IndexGet
    <2>4. _nfp6000_decode_basic(e.hi, entry) = island
      BY <1>4, <2>3 DEF _nfp6000_decode_basic
    <2> QED BY <2>4 DEF e
  <1> QED BY <1>2, <1>3, <1>4

LEMMA BasicKeepsRest ==
    ASSUME NEW entry \in ImbEntry, NEW hi, NEW island \in Nat, NEW target \in BasicTargets,
           _nfp6000_encode_basic(hi, island, target, entry).err = "ok"
    PROVE  LET e == _nfp6000_encode_basic(hi, island, target, entry).hi IN
           _nfp6000_cppat_addr_iid_clear(e, target, entry)
              = _nfp6000_cppat_addr_iid_clear(hi, target, entry)
  <1> DEFINE e == _nfp6000_encode_basic(hi, island, target, entry)
             k == FreeBits(entry)
             idx == BasicIdxLsb(entry)
             Clear(h) == _nfp6000_cppat_addr_iid_clear(h, target, entry)
  <1>0. entry.mode \in 0 .. 7 BY DEF ImbEntry
  <1>1. entry.mode \in 0 .. 3 BY <1>0 DEF _nfp6000_encode_basic, Refused
  <1>2. CASE target = VQDR /\ ~ entry.addr40
    BY <1>1, <1>2 DEF _nfp6000_encode_basic, Refused, Encoded
  <1>3. CASE ~ (target = VQDR /\ ~ entry.addr40) /\ entry.mode = 0
    <2>1. e.hi = PutIsland(hi, island, BasicIidLsb(entry))
      BY <1>1, <1>3 DEF _nfp6000_encode_basic, Encoded
    <2>2. \A h : Clear(h) = h \ _nic_mask64(BasicIidLsb(entry), 6)
      BY <1>3, Targets DEF _nfp6000_cppat_addr_iid_clear
    <2> HIDE DEF e, Clear
    <2>3. Clear(e.hi) = Clear(hi) BY <2>1, <2>2, Fields, PutIs
    <2> QED BY <2>3 DEF e, Clear
  <1>4. CASE ~ (target = VQDR /\ ~ entry.addr40) /\ entry.mode # 0
    <2>1. e = EncodeIndex(hi, island, idx, entry)
      BY <1>1, <1>4 DEF _nfp6000_encode_basic
    <2>2. e.err = "ok" /\ entry.mode \in 1 .. 3 BY <1>1, <1>4
    <2>3. \A h : Clear(h) = h \ (idx - k .. idx)
      BY <2>2, Targets DEF _nfp6000_cppat_addr_iid_clear
    <2> HIDE DEF e, Clear, idx
    <2>4. idx \in Nat /\ idx >= 2 BY Fields DEF idx
    <2>5. e.hi \ (idx - k .. idx) = hi \ (idx - k .. idx) BY <2>1, <2>2, <2>4, IndexIs
    <2>6. Clear(e.hi) = Clear(hi) BY <2>3, <2>5
    <2> QED BY <2>6 DEF e, Clear
  <1> QED BY <1>2, <1>3, <1>4

(***************************************************************************)
(* MU: the same, unless mode 3 has to make an address direct that has the     *)
(* lower locality bit.                                                        *)
(***************************************************************************)
NoEmu(island, entry) == entry.mode = 3 /\ island > 0 /\ island \notin 24 .. 26

Located(hi, island, entry) ==
    IF NoEmu(island, entry)
      THEN hi \cup {_nfp6000_cppat_mu_locality_lsb(entry) + 1} ELSE hi

LEMMA MuCases ==
    ASSUME NEW entry \in ImbEntry, NEW hi, NEW island \in Nat,
           ~ (NoEmu(island, entry) /\ _nfp6000_cppat_mu_locality_lsb(entry) \in hi),
           _nfp6000_encode_mu(hi, island, entry).err = "ok"
    PROVE  LET e == _nfp6000_encode_mu(hi, island, entry)
               l == Located(hi, island, entry) IN
           /\ entry.mode \in 0 .. 3
           /\ Direct(e.hi, entry) <=> Direct(l, entry)
           /\ entry.mode = 0 \/ Direct(l, entry) =>
                 e.hi = PutIsland(l, island, MuIidLsb(entry))
           /\ ~ (entry.mode = 0 \/ Direct(l, entry)) =>
                 e = EncodeIndex(l, island, MuIdxLsb(entry), entry)
  <1> DEFINE e == _nfp6000_encode_mu(hi, island, entry)
             l == Located(hi, island, entry)
             lsb == _nfp6000_cppat_mu_locality_lsb(entry)
             other == NoEmu(island, entry)
  <1>1. entry.mode \in 0 .. 3
    <2>1. entry.mode \in 0 .. 7 BY DEF ImbEntry
    <2> QED BY <2>1 DEF _nfp6000_encode_mu, Refused
  <1>2. lsb \in Nat BY DEF _nfp6000_cppat_mu_locality_lsb
  <1>3. Bits(_NIC_NFP6000_MU_LOCALITY_DIRECT, lsb) = {lsb + 1}
    <2>1. /\ Digit(2, 0) = 0 /\ Digit(2, 1) = 1 /\ Digit(2, 2) = 0 /\ Digit(2, 3) = 0
          /\ Digit(2, 4) = 0 /\ Digit(2, 5) = 0 /\ Digit(2, 6) = 0 /\ Digit(2, 7) = 0
      BY Digits
    <2>2. \A n \in 0 .. 7 : Digit(2, n) = 1 <=> n = 1 BY <2>1
    <2>3. \A x \in Bits(2, lsb) : x - lsb \in 0 .. 7 /\ x = lsb + (x - lsb) BY <1>2, BitsAre
    <2>4. \A x \in Bits(2, lsb) : x - lsb = 1 BY <1>2, <2>2, <2>3, BitsAre
    <2>5. lsb + 1 \in Bits(2, lsb) BY <1>2, <2>2, BitsAre
    <2> QED BY <1>2, <2>3, <2>4, <2>5 DEF _NIC_NFP6000_MU_LOCALITY_DIRECT
  <1>4. e = IF entry.mode = 0 \/ other \/ Direct(hi, entry)
              THEN Encoded(PutIsland(l, island, MuIidLsb(entry)))
              ELSE EncodeIndex(hi, island, MuIdxLsb(entry), entry)
    BY <1>1, <1>3 DEF _nfp6000_encode_mu, Located, NoEmu
  <1>5. e.err = "ok" OBVIOUS
  <1>6. /\ other => Direct(l, entry)
        /\ ~ other => l = hi
    BY <1>2, DirectIs DEF Located, NoEmu
  <1> HIDE DEF e, l, other
  <1>7. CASE entry.mode = 0 \/ Direct(l, entry)
    <2>1. e.hi = PutIsland(l, island, MuIidLsb(entry)) BY <1>4, <1>6, <1>7 DEF Encoded
    <2>2. \A x : x \notin MuIidLsb(entry) .. MuIidLsb(entry) + 5 => (x \in e.hi <=> x \in l)
      BY <2>1, Fields, PutIs
    <2>3. Direct(e.hi, entry) <=> Direct(l, entry) BY <2>2, LocalityStays
    <2> QED BY <1>1, <1>7, <2>1, <2>3 DEF e, l
  <1>8. CASE ~ (entry.mode = 0 \/ Direct(l, entry))
    <2>1. l = hi /\ e = EncodeIndex(l, island, MuIdxLsb(entry), entry)
      BY <1>4, <1>6, <1>8
    <2>2. entry.mode \in 1 .. 3 BY <1>1, <1>8
    <2>3. MuIdxLsb(entry) \in Nat /\ MuIdxLsb(entry) >= 2 BY Fields
    <2>4. \A x : x \notin MuIdxLsb(entry) - FreeBits(entry) .. MuIdxLsb(entry) =>
                    (x \in e.hi <=> x \in l)
      BY <1>5, <2>1, <2>2, <2>3, IndexIs
    <2>5. FreeBits(entry) \in 0 .. 2 BY <2>2 DEF FreeBits
    <2>6. \A x : x \notin MuIidLsb(entry) .. MuIidLsb(entry) + 5 => (x \in e.hi <=> x \in l)
      BY <2>4, <2>5, Fields
    <2>7. Direct(e.hi, entry) <=> Direct(l, entry) BY <2>6, LocalityStays
    <2> QED BY <1>1, <1>8, <2>1, <2>7 DEF e, l
  <1> QED BY <1>7, <1>8

LEMMA MuReaches ==
    ASSUME NEW entry \in ImbEntry, NEW hi, NEW island \in Island,
           ~ (NoEmu(island, entry) /\ _nfp6000_cppat_mu_locality_lsb(entry) \in hi),
           _nfp6000_encode_mu(hi, island, entry).err = "ok"
    PROVE  _nfp6000_decode_mu(_nfp6000_encode_mu(hi, island, entry).hi, entry) = island
  <1> DEFINE e == _nfp6000_encode_mu(hi, island, entry)
             l == Located(hi, island, entry)
  <1>0. island \in Nat /\ e.err = "ok" BY DEF Island
  <1>1. /\ entry.mode \in 0 .. 3
        /\ Direct(e.hi, entry) <=> Direct(l, entry)
        /\ entry.mode = 0 \/ Direct(l, entry) =>
              e.hi = PutIsland(l, island, MuIidLsb(entry))
        /\ ~ (entry.mode = 0 \/ Direct(l, entry)) =>
              e = EncodeIndex(l, island, MuIdxLsb(entry), entry)
    BY <1>0, MuCases
  <1> HIDE DEF e, l
  <1>2. CASE entry.mode = 0 \/ Direct(l, entry)
    <2>1. Value(e.hi, MuIidLsb(entry), 6) = island BY <1>1, <1>2, Fields, PutGet
    <2> QED BY <1>1, <1>2, <2>1 DEF _nfp6000_decode_mu, e
  <1>3. CASE ~ (entry.mode = 0 \/ Direct(l, entry))
    <2>1. e = EncodeIndex(l, island, MuIdxLsb(entry), entry) /\ entry.mode \in 1 .. 3
      BY <1>1, <1>3
    <2>2. MuIdxLsb(entry) \in Nat /\ MuIdxLsb(entry) >= 2 BY Fields
    <2>3. DecodeIndex(e.hi, MuIdxLsb(entry), entry) = island
      BY <1>0, <2>1, <2>2, IndexGet
    <2> QED BY <1>1, <1>3, <2>3 DEF _nfp6000_decode_mu, e
  <1> QED BY <1>2, <1>3

LEMMA MuKeepsRest ==
    ASSUME NEW entry \in ImbEntry, NEW hi, NEW island \in Nat,
           ~ (NoEmu(island, entry) /\ _nfp6000_cppat_mu_locality_lsb(entry) \in hi),
           _nfp6000_encode_mu(hi, island, entry).err = "ok"
    PROVE  LET e == _nfp6000_encode_mu(hi, island, entry).hi
               l == Located(hi, island, entry) IN
           _nfp6000_cppat_addr_iid_clear(e, MU, entry)
              = _nfp6000_cppat_addr_iid_clear(l, MU, entry)
  <1> DEFINE e == _nfp6000_encode_mu(hi, island, entry)
             l == Located(hi, island, entry)
             k == FreeBits(entry)
             idx == MuIdxLsb(entry)
             Clear(h) == _nfp6000_cppat_addr_iid_clear(h, MU, entry)
  <1>0. e.err = "ok" OBVIOUS
  <1>1. /\ entry.mode \in 0 .. 3
        /\ Direct(e.hi, entry) <=> Direct(l, entry)
        /\ entry.mode = 0 \/ Direct(l, entry) =>
              e.hi = PutIsland(l, island, MuIidLsb(entry))
        /\ ~ (entry.mode = 0 \/ Direct(l, entry)) =>
              e = EncodeIndex(l, island, MuIdxLsb(entry), entry)
    BY MuCases
  <1>2. \A h : Clear(h) = IF entry.mode = 0 \/ Direct(h, entry)
                            THEN h \ _nic_mask64(MuIidLsb(entry), 6)
                            ELSE h \ (idx - k .. idx)
    BY Targets DEF _nfp6000_cppat_addr_iid_clear
  <1> HIDE DEF e, l, Clear, idx
  <1>3. CASE entry.mode = 0 \/ Direct(l, entry)
    <2>1. e.hi \ _nic_mask64(MuIidLsb(entry), 6) = l \ _nic_mask64(MuIidLsb(entry), 6)
      BY <1>1, <1>3, Fields, PutIs
    <2>2. Clear(e.hi) = Clear(l) BY <1>1, <1>2, <1>3, <2>1
    <2> QED BY <2>2 DEF e, l, Clear
  <1>4. CASE ~ (entry.mode = 0 \/ Direct(l, entry))
    <2>1. e = EncodeIndex(l, island, idx, entry) /\ entry.mode \in 1 .. 3
      BY <1>1, <1>4 DEF idx
    <2>2. idx \in Nat /\ idx >= 2 BY Fields DEF idx
    <2>3. e.hi \ (idx - k .. idx) = l \ (idx - k .. idx) BY <1>0, <2>1, <2>2, IndexIs
    <2>4. Clear(e.hi) = Clear(l) BY <1>1, <1>2, <1>4, <2>3
    <2> QED BY <2>4 DEF e, l, Clear
  <1> QED BY <1>3, <1>4

(***************************************************************************)
(* nfp_target_cpp and what the bus makes of its address.                      *)
(***************************************************************************)
LEMMA EncodeReaches ==
    ASSUME NEW entry \in ImbEntry, NEW hi, NEW island \in Island, NEW target,
           ~ (/\ target = MU /\ NoEmu(island, entry)
              /\ _nfp6000_cppat_mu_locality_lsb(entry) \in hi),
           _nfp6000_cppat_addr_encode(hi, island, target, entry).err = "ok"
    PROVE  _nfp6000_cppat_addr_decode(
               _nfp6000_cppat_addr_encode(hi, island, target, entry).hi, target, entry) = island
  <1>1. CASE target \in BasicTargets
    BY <1>1, Targets, BasicReaches
    DEF _nfp6000_cppat_addr_encode, _nfp6000_cppat_addr_decode
  <1>2. CASE target = MU
    BY <1>2, Targets, MuReaches
    DEF _nfp6000_cppat_addr_encode, _nfp6000_cppat_addr_decode
  <1>3. CASE target = CTXPB
    <2>1. _nfp6000_cppat_addr_encode(hi, island, target, entry).hi = PutIsland(hi, island, 24)
      BY <1>3, Targets DEF _nfp6000_cppat_addr_encode, Encoded, Refused
    <2>2. Value(PutIsland(hi, island, 24), 24, 6) = island BY PutGet
    <2> QED BY <1>3, <2>1, <2>2, Targets DEF _nfp6000_cppat_addr_decode
  <1>4. CASE target \notin BasicTargets \cup {MU, CTXPB}
    BY <1>4 DEF _nfp6000_cppat_addr_encode, Refused
  <1> QED BY <1>1, <1>2, <1>3, <1>4

LEMMA EncodeKeepsRest ==
    ASSUME NEW entry \in ImbEntry, NEW hi, NEW island \in Nat, NEW target,
           ~ (/\ target = MU /\ NoEmu(island, entry)
              /\ _nfp6000_cppat_mu_locality_lsb(entry) \in hi),
           _nfp6000_cppat_addr_encode(hi, island, target, entry).err = "ok"
    PROVE  LET e == _nfp6000_cppat_addr_encode(hi, island, target, entry).hi
               given == IF target = MU THEN Located(hi, island, entry) ELSE hi IN
           _nfp6000_cppat_addr_iid_clear(e, target, entry)
              = _nfp6000_cppat_addr_iid_clear(given, target, entry)
  <1> DEFINE e == _nfp6000_cppat_addr_encode(hi, island, target, entry)
             Clear(h) == _nfp6000_cppat_addr_iid_clear(h, target, entry)
  <1>1. CASE target \in BasicTargets
    <2>1. e = _nfp6000_encode_basic(hi, island, target, entry) /\ target # MU
      BY <1>1, Targets DEF _nfp6000_cppat_addr_encode
    <2>2. Clear(e.hi) = Clear(hi) BY <1>1, <2>1, BasicKeepsRest
    <2> QED BY <2>1, <2>2
  <1>2. CASE target = MU
    <2>1. e = _nfp6000_encode_mu(hi, island, entry)
      BY <1>2, Targets DEF _nfp6000_cppat_addr_encode
    <2>2. Clear(e.hi) = Clear(Located(hi, island, entry)) BY <1>2, <2>1, MuKeepsRest
    <2> QED BY <1>2, <2>2
  <1>3. CASE target = CTXPB
    <2>1. e.hi = PutIsland(hi, island, 24) /\ target # MU
      BY <1>3, Targets DEF _nfp6000_cppat_addr_encode, Encoded, Refused
    <2>2. \A h : Clear(h) = h \ _nic_mask64(24, 6)
      BY <1>3, Targets DEF _nfp6000_cppat_addr_iid_clear
    <2>3. Clear(e.hi) = Clear(hi)
      <3>1. PutIsland(hi, island, 24) \ _nic_mask64(24, 6) = hi \ _nic_mask64(24, 6)
        BY PutIs
      <3> HIDE DEF Clear, e
      <3> QED BY <2>1, <2>2, <3>1
    <2> QED BY <2>1, <2>3
  <1>4. CASE target \notin BasicTargets \cup {MU, CTXPB}
    BY <1>4 DEF _nfp6000_cppat_addr_encode, Refused
  <1> QED BY <1>1, <1>2, <1>3, <1>4

-----------------------------------------------------------------------------
(***************************************************************************)
(* The areas and their windows.  What an area knows of its request, from      *)
(* nfp_cpp_area_alloc on:                                                     *)
(***************************************************************************)
CppOf(req) == nfp_target_cpp(req.hi, req.island, req.target, imb)

AreaFields == {"bar", "req", "use", "hi", "low", "width", "acquired"}

Translated(a) ==
    /\ AreaFields \subseteq DOMAIN a
    /\ a.req \in Requests
    /\ CppOf(a.req).err = "ok"
    /\ a.hi = CppOf(a.req).hi
    /\ a.low = a.req.low

\* and from nfp_reconfigure_bar on.
Opened(a) ==
    /\ (a.low + a.req.size - 1) \in 0 .. 2^BarBits - 1
    /\ bar[a.bar].window = nfp_compute_bar(a).window

WindowsInv ==
    /\ imb \in ImbTables
    /\ \A x \in Bars : "window" \in DOMAIN bar[x]
    /\ \A t \in Threads : call[t].pc \in {"scan", "take", "access"} => Translated(call[t].area)
    /\ \A t \in Threads : \A a \in Live(t) : Translated(a) /\ Opened(a)

\* At first no area is there.
LEMMA WindowsInit == AreasInit => WindowsInv
  <1> SUFFICES ASSUME AreasInit PROVE WindowsInv OBVIOUS
  <1>1. \A t \in Threads : Live(t) = {} BY DEF AreasInit, Live, NoArea
  <1>2. \A t \in Threads : call[t].pc = "idle" BY DEF AreasInit
  <1>3. \A x \in Bars : "window" \in DOMAIN bar[x] BY DEF AreasInit, nfp_enable_bars
  <1> QED BY <1>1, <1>2, <1>3 DEF AreasInit, WindowsInv

\* An area stays what it is while its BAR keeps its window.
LEMMA StaysOpen ==
    ASSUME NEW a, imb' = imb, bar'[a.bar].window = bar[a.bar].window,
           Translated(a) /\ Opened(a)
    PROVE  Translated(a)' /\ Opened(a)'
  BY DEF Translated, Opened, CppOf, nfp_compute_bar

\* Every step but the configuration of a window turns no window and adds no
\* area.
LEMMA WindowsStay ==
    ASSUME SingleThread, IInv, WindowsInv, imb' = imb, NEW t \in Threads,
           \A x \in Bars : "window" \in DOMAIN bar'[x] /\ bar'[x].window = bar[x].window,
           Live(t)' \subseteq Live(t),
           call'[t].pc \in {"scan", "take", "access"} => Translated(call'[t].area)
    PROVE  WindowsInv'
  <1>1. \A u \in Threads : u = t BY DEF SingleThread
  <1>2. \A a : Translated(a) => Translated(a)' BY DEF Translated, CppOf
  <1>3. ASSUME NEW a \in Live(t) PROVE a.bar \in Bars
    BY DEF IInv, AreaHasBar, Live
  <1>4. ASSUME NEW a \in Live(t)' PROVE Translated(a)' /\ Opened(a)'
    <2>1. a \in Live(t) /\ a.bar \in Bars BY <1>3, <1>4
    <2>2. Translated(a) /\ Opened(a) /\ bar'[a.bar].window = bar[a.bar].window
      BY <2>1 DEF WindowsInv
    <2> QED BY <2>2, StaysOpen
  <1>5. call'[t].pc \in {"scan", "take", "access"} => Translated(call[t].area)'
    BY DEF Translated, CppOf
  <1> QED BY <1>1, <1>4, <1>5 DEF WindowsInv

\* A call that has no area returns.
LEMMA WindowsReturn ==
    ASSUME SingleThread, IInv, WindowsInv, NEW t \in Threads, ~ At(t, "access"), Return(t),
           UNCHANGED <<imb, bar, kept>>
    PROVE  WindowsInv'
  <1>1. call'[t] = [pc |-> "idle", area |-> NoArea, x |-> FirstBar]
    BY DEF Return, IInv, Shape
  <1>2. call'[t].pc = "idle" /\ call'[t].area.bar = NoBar BY <1>1 DEF NoArea
  <1>3. Live(t)' \subseteq Live(t) BY <1>2 DEF Live
  <1> QED BY <1>2, <1>3, WindowsStay DEF WindowsInv

\* nfp_cpp_area_alloc translates the address of its request.
LEMMA WindowsAlloc ==
    ASSUME SingleThread, IInv, WindowsInv, NEW t \in Threads, NEW req \in Requests, NEW use,
           nfp_cpp_area_alloc(t, req, use)
    PROVE  WindowsInv'
  <1> DEFINE cpp == CppOf(req)
             pp == PushPullOf(req, cpp.hi)
             area == [bar |-> NoBar, req |-> req, use |-> use, hi |-> cpp.hi,
                      low |-> req.low, pp |-> pp, acquired |-> FALSE,
                      width |-> IF pp.push > 0 THEN pp.push ELSE pp.pull]
  <1>1. At(t, "idle") /\ UNCHANGED <<imb, bar, kept>> BY DEF nfp_cpp_area_alloc
  <1>2. CASE Return(t) BY <1>1, <1>2, WindowsReturn DEF At
  <1>3. CASE /\ cpp.err = "ok"
             /\ call' = [call EXCEPT ![t].pc = "scan", ![t].area = area]
    <2>1. /\ AreaFields \subseteq DOMAIN area /\ area.bar = NoBar /\ area.req = req
          /\ area.hi = cpp.hi /\ area.low = req.low
      BY DEF AreaFields
    <2> HIDE DEF area
    <2>2. call'[t].area = area BY <1>3 DEF IInv, Shape
    <2>3. Translated(area) BY <1>3, <2>1 DEF Translated
    <2>4. Live(t)' \subseteq Live(t) BY <1>1, <2>1, <2>2 DEF Live
    <2> QED BY <1>1, <2>2, <2>3, <2>4, WindowsStay DEF WindowsInv
  <1>4. \/ Return(t)
        \/ /\ cpp.err = "ok"
           /\ call' = [call EXCEPT ![t].pc = "scan", ![t].area = area]
    BY DEF nfp_cpp_area_alloc, CppOf
  <1> QED BY <1>2, <1>3, <1>4

\* nfp_alloc_bar keeps the area.
LEMMA WindowsScan ==
    ASSUME SingleThread, IInv, WindowsInv, NEW t \in Threads, ScanBar(t)
    PROVE  WindowsInv'
  <1>1. At(t, "scan") /\ UNCHANGED <<imb, bar, kept>> BY DEF ScanBar
  <1>2. CASE Return(t) BY <1>1, <1>2, WindowsReturn DEF At
  <1>3. CASE \/ call' = [call EXCEPT ![t].pc = "take"]
             \/ call' = [call EXCEPT ![t].x = call[t].x - 1]
    <2>1. call'[t].area = call[t].area BY <1>3 DEF IInv, Shape
    <2>2. Live(t)' = Live(t) BY <1>1, <2>1 DEF Live
    <2>3. Translated(call[t].area) BY <1>1 DEF WindowsInv, At
    <2> QED BY <1>1, <2>1, <2>2, <2>3, WindowsStay DEF WindowsInv
  <1> QED BY <1>2, <1>3 DEF ScanBar

\* The window is configured, on a BAR that no area has.
LEMMA WindowsTake ==
    ASSUME SingleThread, IInv, WindowsInv, NEW t \in Threads, TakeBar(t)
    PROVE  WindowsInv'
  <1> DEFINE x == call[t].x
             area == [call[t].area EXCEPT !.bar = x, !.acquired = call[t].area.use # "serve"]
             new == nfp_compute_bar(area)
             idle == [pc |-> "idle", area |-> NoArea, x |-> FirstBar]
  <1>1. At(t, "take") /\ x \in Bars /\ imb' = imb
    BY DEF TakeBar, IInv, Shape
  <1>2. \A u \in Threads : u = t BY DEF SingleThread
  <1>3. \A a \in Live(t) : a.bar \in Bars /\ a.bar # x
    <2>1. ~ bar[x].lock BY <1>1 DEF IInv, TakesFree
    <2>2. \A a \in Live(t) : a.bar # x BY <1>1, <2>1 DEF IInv, BarsAccounted
    <2> QED BY <2>2 DEF IInv, AreaHasBar, Live
  <1>4. Translated(call[t].area) BY <1>1 DEF WindowsInv, At
  <1>5. /\ AreaFields \subseteq DOMAIN area /\ area.bar = x
        /\ area.req = call[t].area.req /\ area.hi = call[t].area.hi
        /\ area.low = call[t].area.low
    BY <1>4 DEF Translated, AreaFields
  <1>6. \/ /\ new.ok
           /\ bar' = [bar EXCEPT ![x] = [lock |-> TRUE, window |-> new.window]]
           /\ \/ /\ call' = [call EXCEPT ![t].pc = "access", ![t].area = area]
                 /\ kept' = kept
              \/ /\ call' = [call EXCEPT ![t] = idle]
                 /\ kept' = [kept EXCEPT ![t] = @ \cup {area}]
        \/ /\ bar' = [bar EXCEPT ![x] = [lock |-> TRUE, window |-> @.window]]
           /\ call' = [call EXCEPT ![t] = idle] /\ kept' = kept
    BY DEF TakeBar, Return
  <1>7. idle.pc = "idle" /\ idle.area.bar = NoBar BY DEF NoArea
  <1>8. new.ok => (area.low + area.req.size - 1) \in 0 .. 2^BarBits - 1
    BY DEF nfp_compute_bar
  <1> HIDE DEF x, area, new, idle
  <1>9. PICK opened : opened = area OBVIOUS
  <1>9a. Translated(opened) BY <1>4, <1>5, <1>9 DEF Translated
  <1>10. CASE /\ new.ok
              /\ bar' = [bar EXCEPT ![x] = [lock |-> TRUE, window |-> new.window]]
              /\ \/ /\ call' = [call EXCEPT ![t].pc = "access", ![t].area = area]
                    /\ kept' = kept
                 \/ /\ call' = [call EXCEPT ![t] = idle]
                    /\ kept' = [kept EXCEPT ![t] = @ \cup {area}]
    <2>1. /\ bar'[x].window = new.window /\ "window" \in DOMAIN bar'[x]
          /\ \A y \in Bars : y # x => bar'[y] = bar[y]
      BY <1>1, <1>10 DEF IInv, Shape
    <2>2. Live(t)' \subseteq Live(t) \cup {opened}
      BY <1>7, <1>9, <1>10 DEF Live, IInv, Shape
    <2>3. Translated(opened)' BY <1>1, <1>9a DEF Translated, CppOf
    <2>4. Opened(opened)'
      <3>1. bar'[opened.bar].window = nfp_compute_bar(opened).window
        BY <1>5, <1>9, <2>1 DEF new
      <3> QED BY <1>8, <1>9, <1>10, <3>1 DEF Opened, nfp_compute_bar
    <2>5. ASSUME NEW a \in Live(t) PROVE Translated(a)' /\ Opened(a)'
      <3>1. bar'[a.bar].window = bar[a.bar].window BY <1>3, <2>1
      <3>2. Translated(a) /\ Opened(a) BY DEF WindowsInv
      <3> QED BY <1>1, <3>1, <3>2, StaysOpen
    <2>6. ASSUME NEW a \in Live(t)' PROVE Translated(a)' /\ Opened(a)'
      <3>1. a \in Live(t) \/ a = opened BY <2>2
      <3> QED BY <2>3, <2>4, <2>5, <3>1
    <2>7. call'[t].pc \in {"scan", "take", "access"} => call'[t].area = opened
      BY <1>7, <1>9, <1>10 DEF IInv, Shape
    <2>8. call'[t].pc \in {"scan", "take", "access"} => Translated(call[t].area)'
      BY <2>3, <2>7 DEF Translated, CppOf
    <2>9. \A y \in Bars : "window" \in DOMAIN bar'[y] BY <2>1 DEF WindowsInv
    <2> QED BY <1>1, <1>2, <2>6, <2>8, <2>9 DEF WindowsInv
  <1>11. CASE /\ bar' = [bar EXCEPT ![x] = [lock |-> TRUE, window |-> @.window]]
              /\ call' = [call EXCEPT ![t] = idle] /\ kept' = kept
    <2>1. call'[t].pc = "idle" /\ call'[t].area.bar = NoBar BY <1>7, <1>11 DEF IInv, Shape
    <2>2. Live(t)' \subseteq Live(t) BY <1>11, <2>1 DEF Live
    <2>3. \A y \in Bars : "window" \in DOMAIN bar'[y] /\ bar'[y].window = bar[y].window
      BY <1>1, <1>11 DEF IInv, Shape, WindowsInv
    <2> QED BY <1>1, <2>1, <2>2, <2>3, WindowsStay
  <1> QED BY <1>6, <1>10, <1>11

\* A BAR that is given back keeps its window.
LEMMA ReleaseTurnsNothing ==
    ASSUME IInv, WindowsInv, NEW area, area.bar \in Bars, nfp6000_area_release(area)
    PROVE  \A y \in Bars : "window" \in DOMAIN bar'[y] /\ bar'[y].window = bar[y].window
  <1> DEFINE b == area.bar
  <1>1. bar' = [bar EXCEPT ![b].lock = FALSE] BY DEF nfp6000_area_release
  <1>2. \A y \in Bars : y # b => bar'[y] = bar[y] BY <1>1 DEF IInv, Shape
  <1>3. bar'[b] = [bar[b] EXCEPT !.lock = FALSE] BY <1>1 DEF IInv, Shape
  <1>4. "window" \in DOMAIN bar'[b] /\ bar'[b].window = bar[b].window
    BY <1>3 DEF WindowsInv
  <1> QED BY <1>2, <1>4 DEF WindowsInv

LEMMA WindowsRelease ==
    ASSUME SingleThread, IInv, WindowsInv, NEW t \in Threads, nfp_cpp_area_release_free(t)
    PROVE  WindowsInv'
  <1>1. /\ At(t, "access") /\ nfp6000_area_release(call[t].area) /\ Return(t)
        /\ UNCHANGED <<imb, kept>>
    BY DEF nfp_cpp_area_release_free
  <1>2. call[t].area.bar \in Bars BY <1>1 DEF IInv, AreaHasBar
  <1>3. call'[t] = [pc |-> "idle", area |-> NoArea, x |-> FirstBar]
    BY <1>1 DEF Return, IInv, Shape
  <1>4. call'[t].pc = "idle" /\ call'[t].area.bar = NoBar BY <1>3 DEF NoArea
  <1>5. Live(t)' \subseteq Live(t) BY <1>1, <1>4 DEF Live
  <1> QED BY <1>1, <1>2, <1>4, <1>5, ReleaseTurnsNothing, WindowsStay

LEMMA WindowsDrop ==
    ASSUME SingleThread, IInv, WindowsInv, NEW t \in Threads, NEW area \in kept[t],
           Unmap(t, area) \/ nfp_cpp_area_free(t, area)
    PROVE  WindowsInv'
  <1>1. /\ At(t, "idle") /\ kept' = [kept EXCEPT ![t] = @ \ {area}] /\ UNCHANGED <<imb, call>>
        /\ nfp6000_area_release(area) \/ bar' = bar
    BY DEF Unmap, nfp_cpp_area_free
  <1>2. area.bar \in Bars BY DEF IInv, AreaHasBar
  <1>3. Live(t)' \subseteq Live(t) BY <1>1 DEF Live, IInv, Shape
  <1>4. \A y \in Bars : "window" \in DOMAIN bar'[y] /\ bar'[y].window = bar[y].window
    BY <1>1, <1>2, ReleaseTurnsNothing DEF WindowsInv
  <1> QED BY <1>1, <1>3, <1>4, WindowsStay DEF At

\* Every step of the one thread keeps the windows where they belong.
LEMMA WindowsNext ==
    ASSUME SingleThread
    PROVE  IInv /\ WindowsInv /\ [AreasNext]_areasVars => WindowsInv'
  <1> SUFFICES ASSUME IInv, WindowsInv, [AreasNext]_areasVars PROVE WindowsInv'
    OBVIOUS
  <1>1. CASE AreasNext
    <2> PICK t \in Threads :
            \/ \E req \in Requests, use \in {"rw", "map", "serve"} :
                  nfp_cpp_area_alloc(t, req, use)
            \/ ScanBar(t)
            \/ TakeBar(t)
            \/ nfp_cpp_area_release_free(t)
            \/ \E area \in kept[t] : Unmap(t, area) \/ nfp_cpp_area_free(t, area)
      BY <1>1 DEF AreasNext
    <2> QED BY WindowsAlloc, WindowsScan, WindowsTake, WindowsRelease, WindowsDrop
  <1>2. CASE UNCHANGED areasVars
    BY <1>2 DEF areasVars, WindowsInv, Translated, Opened, CppOf, nfp_compute_bar, Live
  <1> QED BY <1>1, <1>2

-----------------------------------------------------------------------------
\* The island of a window is that of its request.
LEMMA WindowReaches ==
    ASSUME imb \in ImbTables, NEW req \in Requests, CppOf(req).err = "ok",
           req.island \in Island, ~ LowLocality(req)
    PROVE  _nfp6000_cppat_addr_decode(CppOf(req).hi, req.target, imb) = IslandOf(req)
  <1>1. imb \in ImbEntry BY AreasAssumption
  <1>2. CASE req.island = 0
    BY <1>2 DEF CppOf, nfp_target_cpp, IslandOf, Encoded, Refused
  <1>3. CASE req.island # 0
    <2>1. CppOf(req) = _nfp6000_cppat_addr_encode(req.hi, req.island, req.target, imb)
      BY <1>3 DEF CppOf, nfp_target_cpp, Refused
    <2>2. ~ (/\ req.target = MU /\ NoEmu(req.island, imb)
             /\ _nfp6000_cppat_mu_locality_lsb(imb) \in req.hi)
      BY <1>3 DEF LowLocality, MadeDirect, NoEmu
    <2> QED BY <1>1, <1>3, <2>1, <2>2, EncodeReaches DEF IslandOf
  <1> QED BY <1>2, <1>3

\* Without its island, its address is that of the request.
LEMMA WindowKeepsRest ==
    ASSUME imb \in ImbTables, NEW req \in Requests, CppOf(req).err = "ok",
           req.island # 0, ~ LowLocality(req)
    PROVE  LET given == IF MadeDirect(req)
                          THEN req.hi \cup {_nfp6000_cppat_mu_locality_lsb(imb) + 1}
                          ELSE req.hi IN
           _nfp6000_cppat_addr_iid_clear(CppOf(req).hi, req.target, imb)
              = _nfp6000_cppat_addr_iid_clear(given, req.target, imb)
  <1>1. imb \in ImbEntry /\ req.island \in Nat BY AreasAssumption
  <1>2. CppOf(req) = _nfp6000_cppat_addr_encode(req.hi, req.island, req.target, imb)
    BY DEF CppOf, nfp_target_cpp, Refused
  <1>3. MadeDirect(req) <=> req.target = MU /\ NoEmu(req.island, imb)
    BY <1>1 DEF MadeDirect, NoEmu
  <1>4. ~ (/\ req.target = MU /\ NoEmu(req.island, imb)
           /\ _nfp6000_cppat_mu_locality_lsb(imb) \in req.hi)
    BY <1>3 DEF LowLocality
  <1> DEFINE given == IF req.target = MU THEN Located(req.hi, req.island, imb) ELSE req.hi
  <1>5. _nfp6000_cppat_addr_iid_clear(CppOf(req).hi, req.target, imb)
           = _nfp6000_cppat_addr_iid_clear(given, req.target, imb)
    BY <1>1, <1>2, <1>4, EncodeKeepsRest
  <1>6. given = IF MadeDirect(req)
                  THEN req.hi \cup {_nfp6000_cppat_mu_locality_lsb(imb) + 1}
                  ELSE req.hi
    BY <1>3 DEF Located
  <1> HIDE DEF given
  <1> QED BY <1>5, <1>6

\* An access that is not refused stays in its area, which is in its window.
LEMMA AccessInWindow ==
    ASSUME NEW a, Translated(a), Opened(a), NEW write \in BOOLEAN,
           NEW offset \in Nat, NEW length \in Nat,
           AccessError(a, write, offset, length) = "ok"
    PROVE  a.low + offset + length <= 2^BarBits
  <1>1. a.low \in Nat /\ a.req.size \in Nat /\ 2^BarBits \in Nat
    <2>1. 2^24 \in Nat OBVIOUS
    <2>2. 2^BarBits \in Nat BY <2>1 DEF BarBits
    <2>3. a.req \in Requests /\ a.low = a.req.low BY DEF Translated
    <2>4. a.req.low \in 0 .. 2^BarBits - 1 /\ a.req.size \in 0 .. 2^BarBits
      BY <2>3, AreasAssumption
    <2> QED BY <2>2, <2>3, <2>4
  <1>2. ~ (offset + length > a.req.size) BY DEF AccessError
  <1>3. a.low + a.req.size - 1 <= 2^BarBits - 1 BY <1>1 DEF Opened
  <1> QED BY <1>1, <1>2, <1>3

(***************************************************************************)
(* For any IMB table and any requests, an access that nfp6000_area_read and   *)
(* nfp6000_area_write do not refuse reaches the target, the command and the   *)
(* island of its request and stays in its window, whatever areas were opened, *)
(* kept, freed and lost before, if the thread is alone in the library.        *)
(***************************************************************************)
THEOREM SingleThreadReaches ==
    ASSUME SingleThread
    PROVE  AreasSpec => []AccessReachesRequest
  <1>1. WindowsInv => AccessReachesRequest
    <2> SUFFICES ASSUME WindowsInv, NEW t \in Threads, NEW a \in Live(t)
                 PROVE  LET window == bar[a.bar].window IN
                        /\ window.target = a.req.target
                        /\ window.command[2] = a.req.command[2]
                        /\ Fixed(a.req.command) => window.command = a.req.command
                        /\ a.req.island \in Island /\ ~ LowLocality(a.req) =>
                              _nfp6000_cppat_addr_decode(window.base, window.target, imb)
                                 = IslandOf(a.req)
                        /\ \A write \in BOOLEAN, offset \in {0, 4, 8}, length \in {4, 8} :
                              AccessError(a, write, offset, length) = "ok" =>
                                 a.low + offset + length <= 2^BarBits
      BY DEF AccessReachesRequest
    <2>1. Translated(a) /\ Opened(a) /\ imb \in ImbTables BY DEF WindowsInv
    <2> DEFINE window == bar[a.bar].window
    <2>2. /\ window.target = a.req.target /\ window.base = a.hi
          /\ window.command[2] = a.req.command[2]
          /\ Fixed(a.req.command) => window.command = a.req.command
      BY <2>1 DEF Opened, nfp_compute_bar
    <2>3. a.req.island \in Island /\ ~ LowLocality(a.req) =>
              _nfp6000_cppat_addr_decode(window.base, window.target, imb) = IslandOf(a.req)
      BY <2>1, <2>2, WindowReaches DEF Translated
    <2>4. \A write \in BOOLEAN, offset \in {0, 4, 8}, length \in {4, 8} :
              AccessError(a, write, offset, length) = "ok" =>
                 a.low + offset + length <= 2^BarBits
      BY <2>1, AccessInWindow
    <2> QED BY <2>2, <2>3, <2>4
  <1> QED BY <1>1, InitInv, NextInv, WindowsInit, WindowsNext, PTL DEF AreasSpec

(***************************************************************************)
(* For any IMB table and any requests, _nfp6000_cppat_addr_encode writes      *)
(* nothing but the island into the address of an area that gets its BAR, in   *)
(* every mode, width and target.                                              *)
(***************************************************************************)
THEOREM SingleThreadTranslates ==
    ASSUME SingleThread
    PROVE  AreasSpec => []TranslationKeepsRest
  <1>1. WindowsInv => TranslationKeepsRest
    BY WindowKeepsRest DEF WindowsInv, Translated, TranslationKeepsRest
  <1> QED BY <1>1, InitInv, NextInv, WindowsInit, WindowsNext, PTL DEF AreasSpec
==============================================================================
