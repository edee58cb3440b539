----------------------------- MODULE PagesProofs ----------------------------
(***************************************************************************)
(* Proofs about the pages of the web client, for any models, reports and   *)
(* bounds: timers are current, the setup page waits for its own call, and  *)
(* only a choice of the user restarts the scheduler.                       *)
(*                                                                         *)
(* Nearly every action ends in Renders, so what Renders does to the        *)
(* timers, to the calls and to canAutoCommit is stated once each; then     *)
(* every action is an instance.                                            *)
(***************************************************************************)
EXTENDS Pages, FiniteSetTheorems, SequenceTheorems, TLAPS

Name == Model \cup {NoModel}
CallRec == [by : {"setup", "gone", "select"}, num : Nat, model : Name, served : BOOLEAN]
Info == [status : ClusterStatus, model : Name, num : Nat, need : BOOLEAN]
Config == [num : Nat, model : Name]

Types ==
    /\ host \in {"cluster", "node"} /\ path \in Path
    /\ info \in Info /\ config \in Config /\ calls \in Seq(CallRec)
    /\ can \in BOOLEAN /\ loading \in BOOLEAN
    /\ backend \in [model : Name, num : Nat, report : Report]
    /\ moves \in Nat

\* The calls of the setup page that it still waits for.
Waits(list) == {i \in DOMAIN list : list[i].by = "setup"}

\* SetupWaits without the count.
OneWait ==
    /\ loading <=> Waits(calls) # {}
    /\ \A i, j \in Waits(calls) : i = j
    /\ loading => path = "/setup"

\* canAutoCommit is left set only after a choice.
CanHasModel == can => config.model # NoModel

PagesInv == Types /\ TimersCurrent /\ OneWait /\ CanHasModel
-----------------------------------------------------------------------------
(* Lists of calls.                                                         *)

LEMMA BeforeRemoved ==
    ASSUME NEW i \in Nat, NEW n \in Nat, NEW j \in 1..(n - 1), i >= 1, i <= n, j < i
    PROVE  j \in 1..(i - 1) /\ j <= i - 1
  OBVIOUS

LEMMA PartFacts ==
    ASSUME NEW S, NEW s, NEW m \in Nat, NEW n \in Nat,
           \A i \in (m + 1)..(m + n) : s[i] \in S
    PROVE  /\ SubSeq(s, m + 1, m + n) \in Seq(S) /\ Len(SubSeq(s, m + 1, m + n)) = n
           /\ \A j \in 1..n : SubSeq(s, m + 1, m + n)[j] = s[m + j]
<1> DEFINE part == SubSeq(s, m + 1, m + n)
<1>1. /\ part \in Seq(S) /\ Len(part) = (IF m + 1 <= m + n THEN (m + n) - (m + 1) + 1 ELSE 0)
      /\ \A j \in 1..((m + n) - (m + 1) + 1) : part[j] = s[m + 1 + j - 1]
  BY SubSeqProperties
<1> HIDE DEF part
<1>2. /\ (m + n) - (m + 1) + 1 = n /\ (m + 1 <= m + n <=> 1 <= n)
      /\ \A j \in 1..n : m + 1 + j - 1 = m + j
  OBVIOUS
<1>3. Len(part) = n
  BY <1>1, <1>2
<1>4. \A j \in 1..n : part[j] = s[m + j]
  BY <1>1, <1>2
<1> QED BY <1>1, <1>3, <1>4 DEF part

LEMMA RemoveAtFacts ==
    ASSUME NEW S, NEW list \in Seq(S), NEW i \in DOMAIN list
    PROVE  /\ RemoveAt(list, i) \in Seq(S)
           /\ Len(list) \in Nat /\ Len(list) >= 1 /\ i \in 1..Len(list)
           /\ DOMAIN RemoveAt(list, i) = 1..(Len(list) - 1)
           /\ \A j \in 1..(Len(list) - 1) :
                RemoveAt(list, i)[j] = IF j < i THEN list[j] ELSE list[j + 1]
<1>1. Len(list) \in Nat /\ DOMAIN list = 1..Len(list) /\ i \in 1..Len(list)
  BY LenProperties
<1> DEFINE before == SubSeq(list, 1, i - 1)
           after  == SubSeq(list, i + 1, Len(list))
<1>2. /\ before \in Seq(S) /\ Len(before) = i - 1
      /\ \A j \in 1..(i - 1) : before[j] = list[j]
  <2>1. i - 1 \in Nat /\ 0 + 1 = 1 /\ 0 + (i - 1) = i - 1 /\ \A j \in 1..(i - 1) : 0 + j = j
    BY <1>1
  <2>2. \A j \in (0 + 1)..(0 + (i - 1)) : list[j] \in S
    BY <1>1, ElementOfSeq
  <2> QED BY <2>1, <2>2, PartFacts
<1>3. /\ after \in Seq(S) /\ Len(after) = Len(list) - i
      /\ \A j \in 1..(Len(list) - i) : after[j] = list[i + j]
  <2>1. i \in Nat /\ Len(list) - i \in Nat /\ i + (Len(list) - i) = Len(list)
    BY <1>1
  <2>2. \A j \in (i + 1)..(i + (Len(list) - i)) : list[j] \in S
    BY <1>1, <2>1, ElementOfSeq
  <2> QED BY <2>1, <2>2, PartFacts
<1>4. RemoveAt(list, i) = before \o after
  BY DEF RemoveAt
<1> HIDE DEF before, after
<1> DEFINE n == Len(list)  m == Len(before)  k == Len(after)
<1>5. m = i - 1 /\ k = n - i /\ n \in Nat /\ i \in Nat /\ i >= 1 /\ i <= n /\ m + k = n - 1
  BY <1>1, <1>2, <1>3
<1>6. /\ before \o after \in Seq(S) /\ Len(before \o after) = m + k
      /\ \A j \in 1..(m + k) :
           (before \o after)[j] = IF j <= m THEN before[j] ELSE after[j - m]
  BY <1>2, <1>3, ConcatProperties, Zenon
<1>7. DOMAIN (before \o after) = 1..(n - 1)
  BY <1>5, <1>6, LenProperties
<1>8. ASSUME NEW j \in 1..(n - 1)
      PROVE  (before \o after)[j] = IF j < i THEN list[j] ELSE list[j + 1]
  <2> HIDE DEF n, m, k
  <2>1. CASE j < i
    <3>0. j \in 1..(i - 1) /\ j <= i - 1
      BY <1>5, <2>1, BeforeRemoved
    <3>1. j <= m /\ j \in 1..(i - 1) /\ j \in 1..(m + k)
      BY <1>5, <3>0
    <3>2. (before \o after)[j] = before[j]
      BY <1>6, <3>1
    <3>3. before[j] = list[j]
      BY <1>2, <3>1
    <3> QED BY <2>1, <3>2, <3>3
  <2>2. CASE ~(j < i)
    <3>1. j \in Int /\ j >= i /\ j <= n - 1 /\ m = i - 1 /\ i \in Int /\ n \in Int
      BY <1>5, <2>2
    <3>2. j - m = j + 1 - i
      BY <3>1
    <3>3. j \in 1..(m + k)
      BY <1>5
    <3>4. ~(j <= m) /\ i + (j - m) = j + 1
      BY <3>1, <3>2
    <3>5. j + 1 - i \in 1..(n - i)
      BY <3>1
    <3>6. ~(j <= m) /\ j - m \in 1..(n - i) /\ j \in 1..(m + k) /\ i + (j - m) = j + 1
      BY <3>2, <3>3, <3>4, <3>5
    <3>7. after[j - m] = list[i + (j - m)]
      BY <1>3, <3>6 DEF n
    <3>8. (before \o after)[j] = after[j - m]
      BY <1>6, <3>6
    <3> QED BY <2>2, <3>6, <3>7, <3>8
  <2> QED BY <2>1, <2>2
<1> HIDE DEF n, m, k
<1> DEFINE rest == before \o after
<1>9. RemoveAt(list, i) = rest /\ rest \in Seq(S) /\ DOMAIN rest = 1..(n - 1)
      /\ \A j \in 1..(n - 1) : rest[j] = IF j < i THEN list[j] ELSE list[j + 1]
  BY <1>4, <1>6, <1>7, <1>8
<1>10. n \in Nat /\ n >= 1 /\ i \in 1..n
  BY <1>5
<1> HIDE DEF rest
<1> QED BY <1>9, <1>10 DEF n

LEMMA ForgetFacts ==
    ASSUME NEW p, NEW list \in Seq(CallRec)
    PROVE  /\ Forget(p, list) \in Seq(CallRec) /\ DOMAIN Forget(p, list) = DOMAIN list
           /\ \A i \in DOMAIN list : Forget(p, list)[i].by =
                IF list[i].by = "setup" /\ p # "/setup" THEN "gone" ELSE list[i].by
<1>1. Len(list) \in Nat /\ DOMAIN list = 1..Len(list)
  BY LenProperties
<1>2. \A i \in 1..Len(list) : list[i] \in CallRec
  BY ElementOfSeq
<1>3. \A i \in 1..Len(list) : /\ [list[i] EXCEPT !.by = "gone"] \in CallRec
                              /\ [list[i] EXCEPT !.by = "gone"].by = "gone"
  BY <1>2 DEF CallRec
<1>4. Forget(p, list) \in [1..Len(list) -> CallRec]
  BY <1>1, <1>2, <1>3 DEF Forget
<1>5. Forget(p, list) \in Seq(CallRec)
  BY <1>1, <1>4, SeqDef
<1> QED BY <1>1, <1>3, <1>4, <1>5 DEF Forget
-----------------------------------------------------------------------------
(* What Renders does to the timers: the cleanups of the effects.           *)
LEMMA RendersTimers ==
    ASSUME TimersCurrent, host \in {"cluster", "node"}, host' = host,
           NEW p, NEW new, NEW cfg, NEW auto, NEW list, Renders(p, new, cfg, auto, list)
    PROVE  TimersCurrent'
<1>1. path' = p /\ info' = new
  BY DEF Renders
<1>2. nav' \subseteq RouteTarget(host, p, new.status)
  <2>1. CASE p = path /\ (new.status = info.status \/ host = "node")
    <3>1. nav' = nav
      BY <2>1 DEF Renders, RouterEffect
    <3>2. RouteTarget(host, p, new.status) = RouteTarget(host, path, info.status)
      BY <2>1 DEF RouteTarget
    <3> QED BY <3>1, <3>2 DEF TimersCurrent
  <2>2. CASE ~(p = path /\ (new.status = info.status \/ host = "node"))
    BY <2>2 DEF Renders, RouterEffect
  <2> QED BY <2>1, <2>2
<1>3. failTimer' => p = "/chat" /\ new.status = "idle"
  BY DEF Renders, DrawerEffects, Ran, TimersCurrent
<1> QED BY <1>1, <1>2, <1>3 DEF TimersCurrent

(* What Renders does to the calls of the setup page: it keeps them while   *)
(* the setup page stays and forgets them otherwise.                        *)
LEMMA RendersCalls ==
    ASSUME NEW p, NEW new, NEW cfg \in Config, NEW auto, NEW list \in Seq(CallRec),
           Renders(p, new, cfg, auto, list)
    PROVE  /\ calls' \in Seq(CallRec)
           /\ Waits(calls') = IF p = "/setup" THEN Waits(list) ELSE {}
<1> DEFINE kept == Forget(p, list)
           call == Call("select", cfg.num, cfg.model)
<1>1. /\ kept \in Seq(CallRec) /\ DOMAIN kept = DOMAIN list
      /\ \A i \in DOMAIN list : kept[i].by =
           IF list[i].by = "setup" /\ p # "/setup" THEN "gone" ELSE list[i].by
  BY ForgetFacts
<1>2. Waits(kept) = IF p = "/setup" THEN Waits(list) ELSE {}
  BY <1>1 DEF Waits
<1>3. calls' = kept \/ calls' = Append(kept, call)
  BY DEF Renders
<1>4. call \in CallRec /\ call.by # "setup"
  BY DEF Call, CallRec, Config
<1> HIDE DEF kept, call
<1>5. CASE calls' = kept
  BY <1>1, <1>2, <1>5
<1>6. CASE calls' = Append(kept, call)
  <2>1. /\ calls' \in Seq(CallRec) /\ Len(kept) \in Nat
        /\ DOMAIN kept = 1..Len(kept) /\ DOMAIN calls' = 1..(Len(kept) + 1)
        /\ calls'[Len(kept) + 1] = call
        /\ \A i \in 1..Len(kept) : calls'[i] = kept[i]
    BY <1>1, <1>4, <1>6, AppendProperties, LenProperties
  <2>2. Waits(calls') = Waits(kept)
    BY <1>4, <2>1 DEF Waits
  <2> QED BY <1>2, <2>1, <2>2
<1> QED BY <1>3, <1>5, <1>6
-----------------------------------------------------------------------------
(* The calls that the setup page waits for, as calls come and go.          *)

LEMMA WaitsAppend ==
    ASSUME NEW list \in Seq(CallRec), NEW call \in CallRec, call.by = "setup"
    PROVE  /\ Append(list, call) \in Seq(CallRec)
           /\ Waits(Append(list, call)) = Waits(list) \cup {Len(list) + 1}
<1> DEFINE more == Append(list, call)
<1>1. /\ more \in Seq(CallRec) /\ Len(list) \in Nat
      /\ DOMAIN list = 1..Len(list) /\ DOMAIN more = 1..(Len(list) + 1)
      /\ more[Len(list) + 1] = call
      /\ \A i \in 1..Len(list) : more[i] = list[i]
  BY AppendProperties, LenProperties
<1> HIDE DEF more
<1>2. Waits(more) = Waits(list) \cup {Len(list) + 1}
  BY <1>1 DEF Waits
<1> QED BY <1>1, <1>2 DEF more

LEMMA WaitsRemove ==
    ASSUME NEW list \in Seq(CallRec), NEW i \in DOMAIN list,
           \A j, k \in Waits(list) : j = k
    PROVE  /\ \A j, k \in Waits(RemoveAt(list, i)) : j = k
           /\ Waits(RemoveAt(list, i)) # {} <=> Waits(list) # {} /\ list[i].by # "setup"
<1> DEFINE rest == RemoveAt(list, i)
           at(j) == IF j < i THEN j ELSE j + 1
<1>1. /\ Len(list) \in Nat /\ i \in 1..Len(list) /\ DOMAIN list = 1..Len(list)
      /\ DOMAIN rest = 1..(Len(list) - 1)
      /\ \A j \in DOMAIN rest : rest[j] = list[at(j)]
  BY RemoveAtFacts, LenProperties
<1> HIDE DEF rest
<1>2. \A j \in DOMAIN rest : at(j) \in DOMAIN list /\ at(j) # i
  BY <1>1
<1>3. \A j, k \in DOMAIN rest : at(j) = at(k) => j = k
  BY <1>1
<1>4. ASSUME NEW k \in DOMAIN list, k # i PROVE \E j \in DOMAIN rest : at(j) = k
  <2>1. CASE k < i
    BY <1>1, <2>1
  <2>2. CASE k > i
    <3>1. k - 1 \in DOMAIN rest /\ at(k - 1) = k
      BY <1>1, <2>2
    <3> QED BY <3>1
  <2> QED BY <1>1, <1>4, <2>1, <2>2
<1> HIDE DEF at
<1>5. \A j \in Waits(rest) : at(j) \in Waits(list)
  BY <1>1, <1>2 DEF Waits
<1>6. \A j, k \in Waits(rest) : j = k
  BY <1>3, <1>5 DEF Waits
<1>7. ASSUME Waits(rest) # {} PROVE Waits(list) # {} /\ list[i].by # "setup"
  BY <1>2, <1>5, <1>7 DEF Waits
<1>8. ASSUME NEW k \in Waits(list), list[i].by # "setup" PROVE Waits(rest) # {}
  <2>1. k \in DOMAIN list /\ k # i /\ list[k].by = "setup"
    BY <1>8 DEF Waits
  <2> QED BY <1>1, <1>4, <2>1 DEF Waits
<1> QED BY <1>6, <1>7, <1>8 DEF rest
-----------------------------------------------------------------------------
(* The model name of the configuration.                                    *)

LEMMA FirstModelType == \A loaded : FirstModel(loaded) \in Name
<1>1. ModelList # << >> => Head(ModelList) \in Model
  BY ModelAssumption, HeadTailProperties
<1> QED BY <1>1 DEF FirstModel, Name

(* A name that was there stays there, and the feed changes it only to the  *)
(* model that the cluster hosts.                                           *)
LEMMA ModelNameFacts ==
    ASSUME NEW new \in Info, NEW loaded, NEW prev \in Name
    PROVE  /\ ModelNameAfter(new, loaded, prev) \in Name
           /\ prev # NoModel => ModelNameAfter(new, loaded, prev) # NoModel
           /\ prev # NoModel /\ (new.status = "waiting" => new.model # NoModel)
                => ModelNameAfter(new, loaded, prev) \in {prev, new.model}
<1>1. FirstModel(loaded) \in Name /\ new.model \in Name
  BY FirstModelType DEF Info
<1> QED BY <1>1 DEF ModelNameAfter, Or, Name

LEMMA InfoFacts ==
    ASSUME Types, NEW new \in {InfoOf(Snap), InitialClusterInfo}
    PROVE  new \in Info /\ (new.status = "waiting" => new.model # NoModel)
<1>1. /\ backend.model \in Name /\ backend.num \in Nat
      /\ backend.report.status \in ReportedStatus /\ backend.report.need \in BOOLEAN
  BY PagesAssumption DEF Types
<1>2. CASE new = InfoOf(Snap)
  BY <1>1, <1>2 DEF InfoOf, Snap, Info, ReportedStatus, ClusterStatus
<1>3. CASE new = InitialClusterInfo
  BY <1>3 DEF InitialClusterInfo, Info, ClusterStatus, Name
<1> QED BY <1>2, <1>3
-----------------------------------------------------------------------------
(* The invariant after Renders: what an action has to show is what it does *)
(* to loading, and that a choice that is not committed has a name.         *)
LEMMA RendersKeeps ==
    ASSUME PagesInv, host' = host, backend' = backend, moves' \in Nat,
           NEW p \in Path, NEW new \in Info, NEW cfg \in Config, NEW auto \in BOOLEAN,
           NEW list \in Seq(CallRec), Renders(p, new, cfg, auto, list),
           auto => cfg.model # NoModel,
           loading' \in BOOLEAN,
           loading' <=> p = "/setup" /\ Waits(list) # {},
           \A i, j \in Waits(list) : i = j
    PROVE  PagesInv'
<1>1. /\ calls' \in Seq(CallRec)
      /\ Waits(calls') = IF p = "/setup" THEN Waits(list) ELSE {}
  BY RendersCalls
<1>2. path' = p /\ info' = new /\ config' = cfg /\ can' \in BOOLEAN /\ (can' => auto)
  BY DEF Renders
<1>3. TimersCurrent'
  BY RendersTimers DEF PagesInv, Types
<1>4. Types'
  BY <1>1, <1>2 DEF Types, PagesInv
<1>5. OneWait'
  BY <1>1, <1>2 DEF OneWait
<1>6. CanHasModel'
  BY <1>2 DEF CanHasModel
<1> QED BY <1>3, <1>4, <1>5, <1>6 DEF PagesInv

LEMMA InitKeeps == Init => PagesInv
<1> SUFFICES ASSUME Init PROVE PagesInv
  OBVIOUS
<1>1. Types
  <2>1. InitialClusterInfo \in Info
    BY DEF InitialClusterInfo, Info, ClusterStatus, Name
  <2>2. [num |-> 1, model |-> NoModel] \in Config
    BY DEF Config, Name
  <2>3. << >> \in Seq(CallRec)
    BY EmptySeq
  <2>4. backend \in [model : Name, num : Nat, report : Report]
    BY DEF Init, Name
  <2> QED BY <2>1, <2>2, <2>3, <2>4 DEF Init, Types
<1>2. TimersCurrent
  BY DEF Init, TimersCurrent, InitialClusterInfo
<1>3. OneWait
  BY DEF Init, OneWait, Waits
<1>4. CanHasModel
  BY DEF Init, CanHasModel
<1> QED BY <1>1, <1>2, <1>3, <1>4 DEF PagesInv

LEMMA NextKeeps == PagesInv /\ [Next]_vars => PagesInv'
<1> SUFFICES ASSUME PagesInv, [Next]_vars PROVE PagesInv'
  OBVIOUS
<1> USE DEF PagesInv
<1>0. /\ path \in Path /\ info \in Info /\ config \in Config /\ calls \in Seq(CallRec)
      /\ can \in BOOLEAN /\ loading \in BOOLEAN /\ moves \in Nat
      /\ host \in {"cluster", "node"}
      /\ loading <=> path = "/setup" /\ Waits(calls) # {}
      /\ path # "/setup" => Waits(calls) = {}
      /\ \A i, j \in Waits(calls) : i = j
      /\ can => config.model # NoModel
  BY DEF Types, OneWait, CanHasModel
<1>1. CASE Feed
  <2>1. PICK new \in {InfoOf(Snap), InitialClusterInfo} :
          Renders(path, new,
            [config EXCEPT !.model = ModelNameAfter(new, host = "cluster", @)], can, calls)
    BY <1>1 DEF Feed
  <2> DEFINE name == ModelNameAfter(new, host = "cluster", config.model)
             cfg  == [config EXCEPT !.model = name]
  <2>2. Renders(path, new, cfg, can, calls)
    BY <2>1
  <2>3. new \in Info
    BY InfoFacts
  <2>4. config.model \in Name
    BY <1>0 DEF Config
  <2>5. name \in Name /\ (config.model # NoModel => name # NoModel)
    BY <2>3, <2>4, ModelNameFacts
  <2> HIDE DEF name
  <2>6. cfg \in Config /\ cfg.model = name
    BY <1>0, <2>5 DEF Config
  <2> HIDE DEF cfg
  <2>7. host' = host /\ backend' = backend /\ loading' = loading /\ moves' = moves
    BY <1>1 DEF Feed, Idles
  <2> QED BY <1>0, <2>2, <2>3, <2>5, <2>6, <2>7, RendersKeeps
<1>2. CASE Navigate
  <2>1. PICK p \in nav : Renders(p, info, config, can, calls)
    BY <1>2 DEF Navigate
  <2>2. p \in Path /\ (p = "/setup" => path # "/setup")
    BY <1>0 DEF TimersCurrent, RouteTarget, Path
  <2>3. host' = host /\ backend' = backend /\ loading' = FALSE /\ moves' = moves
    BY <1>2 DEF Navigate, Idles
  <2> QED BY <1>0, <2>1, <2>2, <2>3, RendersKeeps
<1>3. CASE Browse
  <2>1. PICK p \in Path \ {path} : Renders(p, info, config, can, calls)
    BY <1>3 DEF Browse
  <2>2. host' = host /\ backend' = backend /\ loading' = FALSE /\ moves' \in Nat
    BY <1>0, <1>3 DEF Browse, Idles, UserMoves
  <2> QED BY <1>0, <2>1, <2>2, RendersKeeps
<1>4. CASE SetNumber
  <2>1. PICK n \in (0..MaxNum) \cup {config.num - 1, config.num + 1} :
          config' = [config EXCEPT !.num = Clamp(n)]
    BY <1>4 DEF SetNumber
  <2>2. Clamp(n) \in Nat
    BY <1>0, <2>1, PagesAssumption DEF Clamp, Config
  <2>3. config' \in Config /\ config'.model = config.model
    BY <1>0, <2>1, <2>2 DEF Config
  <2>4. moves' \in Nat
        /\ UNCHANGED <<host, path, nav, info, loading, can, failTimer, calls, backend>>
    BY <1>0, <1>4 DEF SetNumber, UserMoves
  <2> QED BY <2>3, <2>4 DEF Types, TimersCurrent, OneWait, Waits, CanHasModel
<1>5. CASE SelectModel
  <2>1. PICK name \in ToSet(ModelList) \ {config.model} :
          Renders(path, info, [config EXCEPT !.model = name], can \/ path = "/chat", calls)
    BY <1>5 DEF SelectModel
  <2>2. name \in Model
    BY ModelAssumption, ElementOfSeq, LenProperties DEF ToSet
  <2> DEFINE cfg == [config EXCEPT !.model = name]
  <2>3. cfg \in Config /\ cfg.model # NoModel
    BY <1>0, <2>2, ModelAssumption DEF Config, Name
  <2>4. Renders(path, info, cfg, can \/ path = "/chat", calls)
    BY <2>1
  <2> HIDE DEF cfg
  <2>5. host' = host /\ backend' = backend /\ loading' = loading /\ moves' \in Nat
    BY <1>0, <1>5 DEF SelectModel, Idles, UserMoves
  <2> QED BY <1>0, <2>3, <2>4, <2>5, RendersKeeps
<1>6. CASE Continue
  <2> DEFINE call == Call("setup", config.num, config.model)
             list == Append(calls, call)
  <2>1. /\ path = "/setup" /\ ~loading /\ Renders(path, info, config, can, list)
        /\ host' = host /\ backend' = backend /\ loading' = TRUE /\ moves' \in Nat
    BY <1>0, <1>6 DEF Continue, Idles, UserMoves
  <2>2. call \in CallRec /\ call.by = "setup"
    BY <1>0 DEF Call, CallRec, Config
  <2>3. list \in Seq(CallRec) /\ Waits(list) = Waits(calls) \cup {Len(calls) + 1}
    BY <1>0, <2>2, WaitsAppend
  <2>4. Waits(list) = {Len(calls) + 1}
    BY <1>0, <2>1, <2>3
  <2> HIDE DEF list
  <2>5. (\A i, j \in Waits(list) : i = j) /\ Waits(list) # {}
    BY <2>4
  <2> QED BY <1>0, <2>1, <2>3, <2>5, RendersKeeps
<1>7. CASE ContinueToJoin
  <2>1. /\ Renders("/join", info, config, can, calls)
        /\ host' = host /\ backend' = backend /\ loading' = FALSE /\ moves' \in Nat
    BY <1>0, <1>7 DEF ContinueToJoin, Idles, UserMoves
  <2>2. "/join" \in Path
    BY DEF Path
  <2> QED BY <1>0, <2>1, <2>2, RendersKeeps
<1>8. CASE ToggleSidebar \/ OpenJoin \/ CloseDialog
  <2>1. moves' \in Nat /\
        UNCHANGED <<host, path, nav, info, config, loading, can, failTimer, calls, backend>>
    BY <1>0, <1>8 DEF ToggleSidebar, OpenJoin, CloseDialog, UserMoves
  <2> QED BY <2>1 DEF Types, TimersCurrent, OneWait, Waits, CanHasModel
<1>9. CASE FailTimer
  BY <1>9 DEF FailTimer, Types, TimersCurrent, OneWait, Waits, CanHasModel
<1>10. CASE Serve
  <2>1. PICK i \in DOMAIN calls : \E r \in Report :
          /\ calls' = [calls EXCEPT ![i].served = TRUE]
          /\ backend' = [model |-> calls[i].model, num |-> calls[i].num, report |-> r]
    BY <1>10 DEF Serve
  <2>2. calls[i] \in CallRec /\ DOMAIN calls = 1..Len(calls) /\ Len(calls) \in Nat
        /\ \A j \in 1..Len(calls) : calls[j] \in CallRec
    BY <1>0, ElementOfSeq, LenProperties
  <2> DEFINE done == [calls[i] EXCEPT !.served = TRUE]
  <2>31. done \in CallRec /\ done.by = calls[i].by
    BY <2>2 DEF CallRec
  <2>32. calls' = [calls EXCEPT ![i] = done]
    BY <2>1
  <2> HIDE DEF done
  <2>3. DOMAIN calls' = DOMAIN calls
        /\ \A j \in DOMAIN calls : calls'[j] \in CallRec /\ calls'[j].by = calls[j].by
    BY <2>2, <2>31, <2>32
  <2>4. calls' \in [1..Len(calls) -> CallRec]
    BY <2>2, <2>31, <2>32
  <2>5. calls' \in Seq(CallRec)
    BY <2>2, <2>4, SeqDef
  <2>6. backend' \in [model : Name, num : Nat, report : Report]
    BY <2>1, <2>2 DEF CallRec
  <2>7. UNCHANGED <<host, path, nav, info, config, loading, can, failTimer, moves>>
    BY <1>10 DEF Serve
  <2>8. Waits(calls') = Waits(calls)
    BY <2>3 DEF Waits
  <2>9. Types' /\ TimersCurrent' /\ CanHasModel'
    BY <2>5, <2>6, <2>7 DEF Types, TimersCurrent, CanHasModel
  <2>10. OneWait'
    BY <2>7, <2>8 DEF OneWait
  <2> QED BY <2>9, <2>10
<1>11. CASE Returns
  <2>1. PICK i \in DOMAIN calls : ReturnsOK(i)
    BY <1>11 DEF Returns
  <2> DEFINE p == IF calls[i].by = "select" THEN path ELSE "/join"
             list == RemoveAt(calls, i)
  <2>2. /\ Renders(p, info, config, can, list)
        /\ loading' = (loading /\ calls[i].by = "select")
        /\ host' = host /\ backend' = backend /\ moves' = moves
    BY <1>11, <2>1 DEF Returns, ReturnsOK, Idles
  <2>3. list \in Seq(CallRec)
    BY <1>0, RemoveAtFacts
  <2>4. /\ \A j, k \in Waits(list) : j = k
        /\ Waits(list) # {} <=> Waits(calls) # {} /\ calls[i].by # "setup"
    BY <1>0, WaitsRemove
  <2> HIDE DEF list
  <2>5. p \in Path /\ loading' \in BOOLEAN /\ (loading' <=> p = "/setup" /\ Waits(list) # {})
    BY <1>0, <2>2, <2>4 DEF Path
  <2> HIDE DEF p
  <2> QED BY <1>0, <2>2, <2>3, <2>4, <2>5, RendersKeeps
<1>12. CASE Fails
  <2>1. PICK i \in DOMAIN calls : ReturnsError(i)
    BY <1>12 DEF Fails
  <2> DEFINE list == RemoveAt(calls, i)
  <2>2. /\ Renders(path, info, config, can, list)
        /\ loading' = (loading /\ calls[i].by # "setup")
        /\ host' = host /\ backend' = backend /\ moves' = moves
    BY <1>12, <2>1 DEF Fails, ReturnsError, Idles
  <2>3. list \in Seq(CallRec)
    BY <1>0, RemoveAtFacts
  <2>4. /\ \A j, k \in Waits(list) : j = k
        /\ Waits(list) # {} <=> Waits(calls) # {} /\ calls[i].by # "setup"
    BY <1>0, WaitsRemove
  <2> HIDE DEF list
  <2>5. loading' \in BOOLEAN /\ (loading' <=> path = "/setup" /\ Waits(list) # {})
    BY <1>0, <2>2, <2>4
  <2> QED BY <1>0, <2>2, <2>3, <2>4, <2>5, RendersKeeps
<1>13. CASE Changes
  <2>1. backend' \in [model : Name, num : Nat, report : Report]
    BY <1>13 DEF Changes, Types, Name
  <2>2. UNCHANGED <<host, path, nav, info, config, loading, can, failTimer, calls, moves>>
    BY <1>13 DEF Changes
  <2> QED BY <2>1, <2>2 DEF Types, TimersCurrent, OneWait, Waits, CanHasModel
<1>14. CASE UNCHANGED vars
  BY <1>14 DEF vars, Types, TimersCurrent, OneWait, Waits, CanHasModel
<1> QED BY <1>1, <1>2, <1>3, <1>4, <1>5, <1>6, <1>7, <1>8, <1>9, <1>10, <1>11, <1>12,
           <1>13, <1>14 DEF Next

LEMMA PagesInvariant == Spec => []PagesInv
  BY InitKeeps, NextKeeps, PTL DEF Spec

(* Every timer that runs is one that the location and the status call for, *)
(* at every moment and for any models and reports (the cleanups of the     *)
(* effects of the routers and of DrawerLayout).                            *)
THEOREM TimersAreCurrent == Spec => []TimersCurrent
<1>1. PagesInv => TimersCurrent
  BY DEF PagesInv
<1> QED BY <1>1, PagesInvariant, PTL

(* The setup page shows loading exactly while the one call that it made    *)
(* since it was last entered is in flight (onContinue of pages/setup.tsx). *)
THEOREM SetupWaitsForItsCall == Spec => []SetupWaits
<1>1. PagesInv => SetupWaits
  <2> SUFFICES ASSUME OneWait PROVE SetupWaits
    BY DEF PagesInv
  <2>1. Waits(calls) = {} \/ \E i : Waits(calls) = {i}
    BY DEF OneWait
  <2>2. Cardinality(Waits(calls)) <= 1
    <3>1. Cardinality(Waits(calls)) = 0 \/ Cardinality(Waits(calls)) = 1
      BY <2>1, FS_EmptySet, FS_Singleton, Zenon
    <3> QED BY <3>1
  <2> QED BY <2>2 DEF SetupWaits, OneWait, Waits
<1> QED BY <1>1, PagesInvariant, PTL
-----------------------------------------------------------------------------
(* Calls of the model select.                                              *)

Picks(list) == {i \in DOMAIN list : list[i].by = "select"}

LEMMA PicksFinite ==
    ASSUME NEW list \in Seq(CallRec)
    PROVE  IsFiniteSet(Picks(list)) /\ Cardinality(Picks(list)) \in Nat
<1>1. Len(list) \in Nat /\ DOMAIN list = 1..Len(list)
  BY LenProperties
<1>2. IsFiniteSet(1..Len(list))
  BY <1>1, FS_Interval
<1>3. Picks(list) \in SUBSET (1..Len(list))
  BY <1>1 DEF Picks
<1>4. IsFiniteSet(Picks(list))
  BY <1>2, <1>3, FS_Subset
<1> QED BY <1>4, FS_CardinalityType

LEMMA PicksRemove ==
    ASSUME NEW list \in Seq(CallRec), NEW i \in DOMAIN list
    PROVE  Cardinality(Picks(RemoveAt(list, i))) <= Cardinality(Picks(list))
<1> DEFINE rest == RemoveAt(list, i)
           at == [j \in Picks(rest) |-> IF j < i THEN j ELSE j + 1]
<1>1. /\ Len(list) \in Nat /\ i \in 1..Len(list) /\ DOMAIN list = 1..Len(list)
      /\ DOMAIN rest = 1..(Len(list) - 1)
      /\ \A j \in DOMAIN rest : rest[j] = IF j < i THEN list[j] ELSE list[j + 1]
  BY RemoveAtFacts, LenProperties
<1> HIDE DEF rest
<1>2. \A j \in Picks(rest) : at[j] \in Picks(list)
  BY <1>1 DEF Picks
<1>3. \A j, k \in Picks(rest) : at[j] = at[k] => j = k
  BY <1>1 DEF Picks
<1>4. at \in Injection(Picks(rest), Picks(list))
  <2>1. at \in [Picks(rest) -> Picks(list)]
    BY <1>2
  <2> HIDE DEF at
  <2> QED BY <1>3, <2>1 DEF Injection, IsInjective
<1>5. IsFiniteSet(Picks(list))
  BY PicksFinite
<1> QED BY <1>4, <1>5, FS_Injection DEF rest

LEMMA PicksAppend ==
    ASSUME NEW list \in Seq(CallRec), NEW call \in CallRec, call.by # "select"
    PROVE  Picks(Append(list, call)) = Picks(list)
<1> DEFINE more == Append(list, call)
<1>1. /\ more \in Seq(CallRec) /\ Len(list) \in Nat
      /\ DOMAIN list = 1..Len(list) /\ DOMAIN more = 1..(Len(list) + 1)
      /\ more[Len(list) + 1] = call
      /\ \A i \in 1..Len(list) : more[i] = list[i]
  BY AppendProperties, LenProperties
<1> HIDE DEF more
<1>2. Picks(more) = Picks(list)
  BY <1>1 DEF Picks
<1> QED BY <1>2 DEF more

(* Renders that changes nothing in the configuration or in canAutoCommit,  *)
(* or that changes the model to the one that the cluster hosts, calls      *)
(* nothing.                                                                *)
LEMMA RendersPicks ==
    ASSUME NEW p, NEW new, NEW cfg, NEW list \in Seq(CallRec),
           Renders(p, new, cfg, can, list),
           can => cfg.model \in {config.model, new.model}
    PROVE  Picks(calls') = Picks(list)
<1>1. ~Commits(p, new, cfg.model, can)
  BY DEF Commits
<1>2. calls' = Forget(p, list)
  BY <1>1 DEF Renders
<1> QED BY <1>2, ForgetFacts DEF Picks

(* Only a step in which the user chooses another model, with the cluster   *)
(* and the location unchanged, lets the model select call init: no report, *)
(* reset, navigation or late answer restarts the scheduler.                *)
THEOREM OnlyChoicesCommit == Spec => CommitsOnlyChoices
<1> DEFINE More == Cardinality({i \in DOMAIN calls' : calls'[i].by = "select"})
                     > Cardinality({i \in DOMAIN calls : calls[i].by = "select"})
           Chosen == /\ moves' # moves /\ UNCHANGED <<info, path>>
                     /\ config'.model # config.model
<1>1. PagesInv /\ [Next]_vars => [More => Chosen]_vars
  <2> SUFFICES ASSUME PagesInv, Next, Cardinality(Picks(calls')) > Cardinality(Picks(calls))
               PROVE  Chosen
    BY DEF Picks
  <2>0. /\ calls \in Seq(CallRec) /\ config \in Config /\ moves \in Nat /\ info \in Info
        /\ can => config.model # NoModel
    BY DEF PagesInv, Types, CanHasModel
  <2>1. Cardinality(Picks(calls)) \in Nat /\ Picks(calls') # Picks(calls)
    BY <2>0, PicksFinite
  <2>2. CASE Feed
    <3>1. PICK new \in {InfoOf(Snap), InitialClusterInfo} :
            Renders(path, new,
              [config EXCEPT !.model = ModelNameAfter(new, host = "cluster", @)], can, calls)
      BY <2>2 DEF Feed
    <3> DEFINE name == ModelNameAfter(new, host = "cluster", config.model)
               cfg  == [config EXCEPT !.model = name]
    <3>2. Renders(path, new, cfg, can, calls)
      BY <3>1
    <3>3. new \in Info /\ (new.status = "waiting" => new.model # NoModel)
      BY InfoFacts DEF PagesInv
    <3>4. config.model \in Name
      BY <2>0 DEF Config
    <3>5. config.model # NoModel => name \in {config.model, new.model}
      BY <3>3, <3>4, ModelNameFacts
    <3> HIDE DEF name
    <3>6. cfg.model = name
      BY <2>0 DEF Config
    <3> HIDE DEF cfg
    <3> QED BY <2>0, <2>1, <3>2, <3>5, <3>6, RendersPicks
  <2>3. CASE Navigate \/ Browse \/ ContinueToJoin
    <3>1. PICK p : Renders(p, info, config, can, calls)
      BY <2>3 DEF Navigate, Browse, ContinueToJoin
    <3> QED BY <2>0, <2>1, <3>1, RendersPicks
  <2>4. CASE SelectModel
    <3>1. PICK name \in ToSet(ModelList) \ {config.model} :
            Renders(path, info, [config EXCEPT !.model = name], can \/ path = "/chat", calls)
      BY <2>4 DEF SelectModel
    <3>2. path' = path /\ info' = info /\ config' = [config EXCEPT !.model = name]
      BY <3>1 DEF Renders
    <3>3. config'.model # config.model
      BY <2>0, <3>1, <3>2 DEF Config
    <3>4. moves' = moves + 1
      BY <2>4 DEF SelectModel, UserMoves
    <3> QED BY <2>0, <3>2, <3>3, <3>4
  <2>5. CASE Continue
    <3> DEFINE call == Call("setup", config.num, config.model)
    <3>1. Renders(path, info, config, can, Append(calls, call))
      BY <2>5 DEF Continue
    <3>2. call \in CallRec /\ call.by # "select"
      BY <2>0 DEF Call, CallRec, Config
    <3>3. Append(calls, call) \in Seq(CallRec) /\ Picks(Append(calls, call)) = Picks(calls)
      BY <2>0, <3>2, PicksAppend, AppendProperties
    <3> QED BY <2>1, <3>1, <3>3, RendersPicks
  <2>6. CASE Returns \/ Fails
    <3>0. PICK i \in DOMAIN calls : \E p : Renders(p, info, config, can, RemoveAt(calls, i))
      BY <2>6 DEF Returns, Fails, ReturnsOK, ReturnsError
    <3>1. PICK p : Renders(p, info, config, can, RemoveAt(calls, i))
      BY <3>0
    <3>2. RemoveAt(calls, i) \in Seq(CallRec)
      BY <2>0, RemoveAtFacts
    <3>3. Picks(calls') = Picks(RemoveAt(calls, i))
      BY <3>1, <3>2, RendersPicks
    <3>4. Cardinality(Picks(RemoveAt(calls, i))) <= Cardinality(Picks(calls))
      BY <2>0, PicksRemove
    <3>5. Cardinality(Picks(RemoveAt(calls, i))) \in Nat
      BY <3>2, PicksFinite
    <3> QED BY <2>1, <3>3, <3>4, <3>5
  <2>7. CASE Serve
    <3>1. PICK i \in DOMAIN calls : calls' = [calls EXCEPT ![i].served = TRUE]
      BY <2>7 DEF Serve
    <3>2. DOMAIN calls = 1..Len(calls) /\ \A j \in 1..Len(calls) : calls[j] \in CallRec
      BY <2>0, ElementOfSeq, LenProperties
    <3> DEFINE done == [calls[i] EXCEPT !.served = TRUE]
    <3>3. calls' = [calls EXCEPT ![i] = done] /\ done.by = calls[i].by
      BY <3>1, <3>2 DEF CallRec
    <3> HIDE DEF done
    <3>4. Picks(calls') = Picks(calls)
      BY <3>2, <3>3 DEF Picks
    <3> QED BY <2>1, <3>4
  <2>8. CASE SetNumber \/ ToggleSidebar \/ OpenJoin \/ CloseDialog \/ FailTimer \/ Changes
    BY <2>1, <2>8 DEF SetNumber, ToggleSidebar, OpenJoin, CloseDialog, FailTimer, Changes
  <2> QED BY <2>2, <2>3, <2>4, <2>5, <2>6, <2>7, <2>8 DEF Next
<1> QED BY <1>1, PagesInvariant, PTL DEF Spec, CommitsOnlyChoices
=============================================================================
