---------------------------- MODULE ReloadProofs ----------------------------
(***************************************************************************)
(* Safety of the reload, proved for every set of handlers, requests,       *)
(* origins and configurations and for every number of reload attempts.     *)
(*                                                                         *)
(* The invariants Reload states are not inductive: what a step of reload() *)
(* publishes comes from the local variables the earlier steps filled in,   *)
(* and what it closes must differ from what others use.  IInv adds what    *)
(* the local variables hold at each step (JobInv, QueryInv) and that every *)
(* generation in use is older than the attempt being built (GenInv).       *)
(***************************************************************************)
EXTENDS Reload, TLAPS

(* The program points at which reload() has no local variables, has read   *)
(* named.conf, has built a candidate state, has looked at the query log,   *)
(* and has published the candidate.                                        *)
NoLocals  == {"idle", "loadConf", "drain", "exit"}
Published == {"clearWithheld", "storeLimiter", "storeLog", "storeQLState",
              "closeOld", "setGeo", "clearEph", "notify"}
HasQL     == {"openLog", "swap"} \cup Published
HasCand   == {"newLimiter"} \cup HasQL
HasCfg    == {"loadShadow", "loadGeo", "build"} \cup HasCand
Building  == {"loadConf", "loadShadow", "loadGeo", "build", "newLimiter",
              "openLog", "swap", "abort"}

(* What the local variables of reload() hold at each program point.        *)
JobInv ==
  /\ rpc \in NoLocals => /\ cfg = None /\ newGeo = None /\ cand = None
                         /\ newLim = None /\ curQL = None /\ newSink = None
  /\ rpc \in HasCfg => cfg \in Contents
  /\ rpc \in HasCand => cand = [gen |-> attempt, geo |-> newGeo, cfg |-> cfg]
  /\ rpc \in HasQL => newLim = attempt /\ curQL \in QLRec
  /\ newGeo \in {None, attempt}
  /\ newSink \in {None, attempt}

(* What a query handler has loaded at each program point.                  *)
QueryInv ==
  \A q \in Queries :
    /\ qpc[q] # "idle" => qLim[q] \in Nat
    /\ qpc[q] \in {"idle", "started"} => qSt[q] = None
    /\ qpc[q] \notin {"idle", "started"} => qSt[q] \in StateRec

(* Generations are published in order: nothing in use is newer than the    *)
(* served state, and the attempt being built is newer than all of it.      *)
GenInv ==
  /\ state.gen <= attempt
  /\ rpc \in Building => state.gen < attempt
  /\ rpc \in Published => state = cand
  /\ limiter <= state.gen
  /\ rpc \notin {"clearWithheld", "storeLimiter"} => limiter = state.gen
  /\ notified <= state.gen

HandlerGenInv ==
  \A q \in Queries :
    /\ qpc[q] # "idle" => qLim[q] <= limiter
    /\ qSt[q] # None => qLim[q] <= qSt[q].gen

(* GeoIP handles in use are mapped, and none in use is the attempt's.      *)
GeoInv ==
  /\ state.geo = None \/ (state.geo \in mapped /\ state.geo <= state.gen)
  /\ geo = None \/ (geo \in mapped /\ geo <= state.gen)
  /\ newGeo = None \/ newGeo \in mapped
  /\ rpc \notin {"clearWithheld", "storeLimiter", "storeLog", "storeQLState",
                 "closeOld", "setGeo"} => geo = state.geo

HandlerGeoInv ==
  \A q \in Queries :
    qSt[q] # None => \/ qSt[q].geo = None
                     \/ qSt[q].geo \in mapped /\ qSt[q].geo <= state.gen

(* Which query log is in force, at each step of its replacement.           *)
LogInv ==
  /\ rpc \in {"openLog", "swap", "clearWithheld", "storeLimiter", "storeLog",
              "storeQLState"} => qlState = curQL
  /\ rpc \in Building \ {"swap"} => newSink = None
  /\ rpc \in {"swap"} \cup Published => (newSink = attempt <=> NeedSink)
  /\ rpc \in {"storeLog", "storeQLState", "closeOld"} => QLChanged
  /\ rpc \in {"closeOld"} => qlState = [cfg |-> cfg.ql, sink |-> newSink]
  /\ rpc \in {"setGeo", "clearEph", "notify"} =>
       /\ qlState.cfg = cfg.ql
       /\ newSink # None => qlState.sink = newSink
  /\ rpc \notin Published => qlState.cfg = state.cfg.ql
  /\ queryLog = IF rpc = "storeQLState" THEN newSink ELSE qlState.sink
  /\ rpc \in Building => (qlState.sink = None \/ qlState.sink < attempt)
  /\ rpc \in HasQL => (curQL.sink = None \/ curQL.sink < attempt)
  /\ qlState.sink = None \/ qlState.sink <= attempt

(* Exactly these sinks are open.                                           *)
SinkInv ==
  openSinks =
    IF mpc = "exited" THEN {}
    ELSE ({qlState.sink, newSink}
            \cup (IF rpc = "closeOld" THEN {curQL.sink} ELSE {})) \ {None}

(* Records stored before the swap are gone when the reload ends.           *)
EphInv ==
  rpc \notin Published \ {"notify"} => \A e \in eph : e.at = state.gen

(* The join has both signal goroutines behind it.                          *)
JoinInv == mpc \in {"defers", "exited"} => rpc = "exit" /\ upc = "exit"
(* Every step, in the proofs below, expands the abbreviations for tuples    *)
(* of variables and for the parts of an action.                            *)
USE DEF pubVars, storeVars, sigVars, resVars, locals, relVars, usrVars,
        qryVars, RStep, Fail, Return, LoadFrame, UsrFrame, MainFrame, QStep,
        QDone, QFrame, PFrame

(* A generation is a pointer.                                              *)
LEMMA PtrNat == Nat \subseteq Ptr
BY DEF Ptr

(* Each step keeps the types, given what the local variables hold.         *)
LEMMA TypeStep ==
  ASSUME TypeOK, JobInv, QueryInv, [Next]_vars
  PROVE  TypeOK'
<1>1. CASE SendSighup
  BY <1>1 DEF TypeOK, SendSighup
<1>2. CASE SendSigusr1
  BY <1>2 DEF TypeOK, SendSigusr1
<1>3. CASE ReceiveSighup
  BY <1>3 DEF TypeOK, ReloadPCs, ReceiveSighup
<1>4. CASE SighupExit
  BY <1>4 DEF TypeOK, ReloadPCs, SighupExit
<1>5. CASE LoadNamedConf
  BY <1>5 DEF TypeOK, ReloadPCs, LoadNamedConf
<1>6. CASE LoadShadowCfg
  BY <1>6 DEF TypeOK, ReloadPCs, LoadShadowCfg
<1>7. CASE LoadGeoIP
  BY <1>7, PtrNat DEF TypeOK, ReloadPCs, LoadGeoIP
<1>8. CASE BuildState
  BY <1>8 DEF TypeOK, ReloadPCs, BuildState, JobInv, HasCfg, HasCand, HasQL,
      StateRec
<1>9. CASE NewLimiter
  BY <1>9, PtrNat DEF TypeOK, ReloadPCs, NewLimiter
<1>10. CASE OpenQueryLog
  BY <1>10, PtrNat DEF TypeOK, ReloadPCs, OpenQueryLog
<1>11. CASE SwapState
  BY <1>11 DEF TypeOK, ReloadPCs, SwapState, JobInv, HasCand, HasQL,
      Published, HasCfg, StateRec, Ptr
<1>12. CASE ClearWithheld
  BY <1>12 DEF TypeOK, ReloadPCs, ClearWithheld
<1>13. CASE StoreLimiter
  BY <1>13 DEF TypeOK, ReloadPCs, StoreLimiter, QLChanged, JobInv, HasQL,
      Published
<1>14. CASE StoreQueryLog
  BY <1>14 DEF TypeOK, ReloadPCs, StoreQueryLog
<1>15. CASE StoreQLState
  BY <1>15, ContentsAssumption DEF TypeOK, ReloadPCs, StoreQLState, JobInv,
      HasQL, HasCand, Published, HasCfg, QLRec, FileContent
<1>16. CASE CloseOldSink
  BY <1>16 DEF TypeOK, ReloadPCs, CloseOldSink
<1>17. CASE SetGeo
  BY <1>17 DEF TypeOK, ReloadPCs, SetGeo
<1>18. CASE ClearEphemeral
  BY <1>18 DEF TypeOK, ReloadPCs, ClearEphemeral
<1>19. CASE DispatchNotifies
  BY <1>19 DEF TypeOK, ReloadPCs, DispatchNotifies, JobInv, HasQL, HasCand,
      Published, Ptr
<1>20. CASE AbortReload
  BY <1>20 DEF TypeOK, ReloadPCs, AbortReload, Ptr
<1>21. CASE DrainSighup
  BY <1>21 DEF TypeOK, ReloadPCs, DrainSighup
<1>22. CASE ReceiveSigusr1
  BY <1>22 DEF TypeOK, ReceiveSigusr1
<1>23. CASE LoadSink
  BY <1>23 DEF TypeOK, LoadSink, QLRec
<1>24. CASE ReopenQueryLog
  BY <1>24 DEF TypeOK, ReopenQueryLog, Reopen, Ptr
<1>25. CASE DrainSigusr1
  BY <1>25 DEF TypeOK, DrainSigusr1
<1>26. CASE Sigusr1Exit
  BY <1>26 DEF TypeOK, Sigusr1Exit
<1>27. CASE CancelContext
  BY <1>27 DEF TypeOK, CancelContext
<1>28. CASE ServeReturns
  BY <1>28 DEF TypeOK, ServeReturns
<1>29. CASE StopSignals
  BY <1>29 DEF TypeOK, StopSignals
<1>30. CASE CancelSignals
  BY <1>30 DEF TypeOK, CancelSignals
<1>31. CASE Join
  BY <1>31 DEF TypeOK, Join
<1>32. CASE CloseActiveSink
  BY <1>32 DEF TypeOK, CloseActiveSink, QLRec
<1>33. CASE ReclaimGeo
  BY <1>33 DEF TypeOK, ReclaimGeo
<1>34. ASSUME NEW q \in Queries, QueryStart(q)
      PROVE  TypeOK'
  BY <1>34 DEF TypeOK, QueryStart, QueryPCs, Ptr
<1>35. ASSUME NEW q \in Queries, QueryRefuseEarly(q)
      PROVE  TypeOK'
  BY <1>35 DEF TypeOK, QueryRefuseEarly, QueryPCs, Ptr
<1>36. ASSUME NEW q \in Queries, QueryLoadState(q)
      PROVE  TypeOK'
  BY <1>36 DEF TypeOK, QueryLoadState, QueryPCs, Ptr
<1>37. ASSUME NEW q \in Queries, QueryResolveView(q)
      PROVE  TypeOK'
  BY <1>37 DEF TypeOK, QueryResolveView, QueryPCs, Ptr
<1>38. ASSUME NEW q \in Queries, QueryLoadLog(q)
      PROVE  TypeOK'
  BY <1>38 DEF TypeOK, QueryLoadLog, QueryPCs, Ptr
<1>39. ASSUME NEW q \in Queries, QueryWriteLog(q)
      PROVE  TypeOK'
  BY <1>39 DEF TypeOK, QueryWriteLog, QueryPCs, Ptr
<1>40. ASSUME NEW q \in Queries, QueryAnswer(q)
      PROVE  TypeOK'
  BY <1>40, ContentsAssumption DEF TypeOK, QueryAnswer, QueryPCs, Ptr,
      QueryInv, StateRec, FileContent
<1>41. ASSUME NEW p \in Puts, PutCheck(p)
      PROVE  TypeOK'
  BY <1>41, ContentsAssumption DEF TypeOK, PutCheck, StateRec, EphRec,
      FileContent
<1>42. ASSUME NEW p \in Puts, PutStore(p)
      PROVE  TypeOK'
  BY <1>42 DEF TypeOK, PutStore, StateRec, EphRec
<1>43. ASSUME NEW z \in Zones, DeleteRecord(z)
      PROVE  TypeOK'
  BY <1>43 DEF TypeOK, DeleteRecord
<1>44. CASE UNCHANGED vars
  BY <1>44 DEF TypeOK, vars
<1>q. QED
  BY <1>1, <1>2, <1>3, <1>4, <1>5, <1>6, <1>7, <1>8, <1>9, <1>10, <1>11,
      <1>12, <1>13, <1>14, <1>15, <1>16, <1>17, <1>18, <1>19, <1>20, <1>21,
      <1>22, <1>23, <1>24, <1>25, <1>26, <1>27, <1>28, <1>29, <1>30, <1>31,
      <1>32, <1>33, <1>34, <1>35, <1>36, <1>37, <1>38, <1>39, <1>40, <1>41,
      <1>42, <1>43, <1>44 DEF Next, ReloadNext, MainShutdown, Handler

(* Who writes what.  Only the reload goroutine changes its own variables   *)
(* and what it publishes; only it and the collector map or unmap GeoIP     *)
(* memory; only handlers change the handlers' variables.                   *)
LEMMA ReloadWrites ==
  [Next]_vars => \/ UNCHANGED <<relVars, pubVars, mapped>>
                 \/ ReclaimGeo \/ ReceiveSighup \/ ReloadNext \/ SighupExit
BY DEF Next, MainShutdown, Handler, vars, SendSighup, SendSigusr1,
    ReceiveSigusr1, LoadSink, ReopenQueryLog, DrainSigusr1, Sigusr1Exit,
    CancelContext, ServeReturns, StopSignals, CancelSignals, Join,
    CloseActiveSink, QueryStart, QueryRefuseEarly, QueryLoadState,
    QueryResolveView, QueryLoadLog, QueryWriteLog, QueryAnswer, PutCheck,
    PutStore, DeleteRecord

(* Only handlers change what a handler has loaded.                         *)
LEMMA QueryWrites ==
  [Next]_vars => \/ UNCHANGED qryVars
                 \/ /\ UNCHANGED <<relVars, pubVars, mapped>>
                    /\ \E q \in Queries : Handler(q)
<1>1. ReloadNext => UNCHANGED qryVars
  BY DEF ReloadNext, LoadNamedConf, LoadShadowCfg, LoadGeoIP, BuildState,
      NewLimiter, OpenQueryLog, SwapState, ClearWithheld, StoreLimiter,
      StoreQueryLog, StoreQLState, CloseOldSink, SetGeo, ClearEphemeral,
      DispatchNotifies, AbortReload, DrainSighup
<1>2. ASSUME NEW q \in Queries, Handler(q)
      PROVE  UNCHANGED <<relVars, pubVars, mapped>>
  BY <1>2 DEF Handler, QueryStart, QueryRefuseEarly, QueryLoadState,
      QueryResolveView, QueryLoadLog, QueryWriteLog, QueryAnswer
<1>q. QED
  BY <1>1, <1>2 DEF Next, MainShutdown, vars, SendSighup, SendSigusr1,
      ReceiveSighup, SighupExit, ReceiveSigusr1, LoadSink, ReopenQueryLog,
      DrainSigusr1, Sigusr1Exit, CancelContext, ServeReturns, StopSignals,
      CancelSignals, Join, CloseActiveSink, PutCheck, PutStore, DeleteRecord,
      ReclaimGeo

(* Each step of reload() leaves its local variables as JobInv says.        *)
LEMMA JobStep ==
  ASSUME TypeOK, JobInv, [Next]_vars
  PROVE  JobInv'
<1> USE DEF JobInv, NoLocals, Published, HasQL, HasCand, HasCfg
<1>1. CASE UNCHANGED relVars
  BY <1>1
<1>2. CASE ReceiveSighup
  BY <1>2 DEF ReceiveSighup
<1>3. CASE SighupExit
  BY <1>3 DEF SighupExit
<1>4. CASE LoadNamedConf
  BY <1>4 DEF LoadNamedConf
<1>5. CASE LoadShadowCfg
  BY <1>5 DEF LoadShadowCfg
<1>6. CASE LoadGeoIP
  BY <1>6 DEF LoadGeoIP
<1>7. CASE BuildState
  BY <1>7 DEF BuildState
<1>8. CASE NewLimiter
  BY <1>8 DEF NewLimiter, TypeOK
<1>9. CASE OpenQueryLog
  BY <1>9 DEF OpenQueryLog
<1>10. CASE SwapState
  BY <1>10 DEF SwapState
<1>11. CASE ClearWithheld
  BY <1>11 DEF ClearWithheld
<1>12. CASE StoreLimiter
  BY <1>12 DEF StoreLimiter, QLChanged
<1>13. CASE StoreQueryLog
  BY <1>13 DEF StoreQueryLog
<1>14. CASE StoreQLState
  BY <1>14 DEF StoreQLState
<1>15. CASE CloseOldSink
  BY <1>15 DEF CloseOldSink
<1>16. CASE SetGeo
  BY <1>16 DEF SetGeo
<1>17. CASE ClearEphemeral
  BY <1>17 DEF ClearEphemeral
<1>18. CASE DispatchNotifies
  BY <1>18 DEF DispatchNotifies
<1>19. CASE AbortReload
  BY <1>19 DEF AbortReload
<1>20. CASE DrainSighup
  BY <1>20 DEF DrainSighup
<1>q. QED
  BY <1>1, <1>2, <1>3, <1>4, <1>5, <1>6, <1>7, <1>8, <1>9, <1>10, <1>11,
      <1>12, <1>13, <1>14, <1>15, <1>16, <1>17, <1>18, <1>19, <1>20,
      ReloadWrites DEF ReloadNext, ReclaimGeo

(* A handler past its state load holds a state.                            *)
LEMMA QueryStep ==
  ASSUME TypeOK, QueryInv, [Next]_vars
  PROVE  QueryInv'
<1>1. CASE UNCHANGED qryVars
  BY <1>1 DEF QueryInv
<1>2. ASSUME NEW q \in Queries, Handler(q)
      PROVE  QueryInv'
  <2>1. CASE QueryStart(q)
    BY <2>1 DEF QueryStart, QueryInv, TypeOK
  <2>2. CASE QueryRefuseEarly(q)
    BY <2>2 DEF QueryRefuseEarly, QueryInv, TypeOK
  <2>3. CASE QueryLoadState(q)
    BY <2>3 DEF QueryLoadState, QueryInv, TypeOK
  <2>4. CASE QueryResolveView(q)
    BY <2>4 DEF QueryResolveView, QueryInv, TypeOK
  <2>5. CASE QueryLoadLog(q)
    BY <2>5 DEF QueryLoadLog, QueryInv, TypeOK
  <2>6. CASE QueryWriteLog(q)
    BY <2>6 DEF QueryWriteLog, QueryInv, TypeOK
  <2>7. CASE QueryAnswer(q)
    BY <2>7 DEF QueryAnswer, QueryInv, TypeOK
  <2>q. QED
    BY <1>2, <2>1, <2>2, <2>3, <2>4, <2>5, <2>6, <2>7 DEF Handler
<1>q. QED
  BY <1>1, <1>2, QueryWrites

(* Generations are published in order: an attempt is newer than everything *)
(* it replaces, and state, limiter and NOTIFY follow in this order.        *)
LEMMA GenStep ==
  ASSUME TypeOK, JobInv, GenInv, [Next]_vars
  PROVE  GenInv'
<1> USE DEF GenInv, Building, Published
<1>1. CASE UNCHANGED <<relVars, pubVars>>
  BY <1>1
<1>2. CASE ReceiveSighup
  BY <1>2 DEF ReceiveSighup, TypeOK, StateRec
<1>3. CASE SighupExit
  BY <1>3 DEF SighupExit, TypeOK, StateRec
<1>4. CASE LoadNamedConf
  BY <1>4 DEF LoadNamedConf, TypeOK, StateRec
<1>5. CASE LoadShadowCfg
  BY <1>5 DEF LoadShadowCfg, TypeOK, StateRec
<1>6. CASE LoadGeoIP
  BY <1>6 DEF LoadGeoIP, TypeOK, StateRec
<1>7. CASE BuildState
  BY <1>7 DEF BuildState, TypeOK, StateRec
<1>8. CASE NewLimiter
  BY <1>8 DEF NewLimiter, TypeOK, StateRec
<1>9. CASE OpenQueryLog
  BY <1>9 DEF OpenQueryLog, TypeOK, StateRec
<1>10. CASE SwapState
  BY <1>10 DEF SwapState, TypeOK, StateRec, JobInv, HasCand, HasQL
<1>11. CASE ClearWithheld
  BY <1>11 DEF ClearWithheld, TypeOK, StateRec
<1>12. CASE StoreLimiter
  BY <1>12 DEF StoreLimiter, TypeOK, StateRec, QLChanged, JobInv, HasCand,
      HasQL
<1>13. CASE StoreQueryLog
  BY <1>13 DEF StoreQueryLog, TypeOK, StateRec
<1>14. CASE StoreQLState
  BY <1>14 DEF StoreQLState, TypeOK, StateRec
<1>15. CASE CloseOldSink
  BY <1>15 DEF CloseOldSink, TypeOK, StateRec
<1>16. CASE SetGeo
  BY <1>16 DEF SetGeo, TypeOK, StateRec
<1>17. CASE ClearEphemeral
  BY <1>17 DEF ClearEphemeral, TypeOK, StateRec
<1>18. CASE DispatchNotifies
  BY <1>18 DEF DispatchNotifies, TypeOK, StateRec, JobInv, HasCand, HasQL
<1>19. CASE AbortReload
  BY <1>19 DEF AbortReload, TypeOK, StateRec
<1>20. CASE DrainSighup
  BY <1>20 DEF DrainSighup, TypeOK, StateRec
<1>q. QED
  BY <1>1, <1>2, <1>3, <1>4, <1>5, <1>6, <1>7, <1>8, <1>9, <1>10, <1>11,
      <1>12, <1>13, <1>14, <1>15, <1>16, <1>17, <1>18, <1>19, <1>20,
      ReloadWrites DEF ReloadNext, ReclaimGeo

(* A handler's limiter is not newer than its state: the limiter only       *)
(* grows, and is never ahead of the state.                                 *)
LEMMA HandlerGenStep ==
  ASSUME TypeOK, JobInv, QueryInv, GenInv, HandlerGenInv, [Next]_vars
  PROVE  HandlerGenInv'
<1>1. limiter <= limiter'
  <2>1. CASE StoreLimiter
    BY <2>1 DEF StoreLimiter, GenInv, JobInv, HasQL, Published, TypeOK,
        StateRec
  <2>2. CASE UNCHANGED limiter
    BY <2>2 DEF TypeOK
  <2>q. QED
    BY <2>1, <2>2, ReloadWrites DEF ReloadNext, ReclaimGeo, ReceiveSighup,
        SighupExit, LoadNamedConf, LoadShadowCfg, LoadGeoIP, BuildState,
        NewLimiter, OpenQueryLog, SwapState, ClearWithheld, StoreQueryLog,
        StoreQLState, CloseOldSink, SetGeo, ClearEphemeral, DispatchNotifies,
        AbortReload, DrainSighup
<1>2. limiter' \in Nat
  BY TypeStep DEF TypeOK
<1>3. CASE UNCHANGED qryVars
  BY <1>1, <1>2, <1>3 DEF HandlerGenInv, QueryInv, TypeOK
<1>4. ASSUME NEW q \in Queries, Handler(q), UNCHANGED pubVars
      PROVE  HandlerGenInv'
  <2>1. CASE QueryStart(q)
    BY <1>4, <2>1 DEF QueryStart, HandlerGenInv, QueryInv, GenInv, TypeOK, StateRec
  <2>2. CASE QueryRefuseEarly(q)
    BY <1>4, <2>2 DEF QueryRefuseEarly, HandlerGenInv, QueryInv, GenInv, TypeOK, StateRec
  <2>3. CASE QueryLoadState(q)
    BY <1>4, <2>3 DEF QueryLoadState, HandlerGenInv, QueryInv, GenInv, TypeOK, StateRec
  <2>4. CASE QueryResolveView(q)
    BY <1>4, <2>4 DEF QueryResolveView, HandlerGenInv, QueryInv, GenInv, TypeOK, StateRec
  <2>5. CASE QueryLoadLog(q)
    BY <1>4, <2>5 DEF QueryLoadLog, HandlerGenInv, QueryInv, GenInv, TypeOK, StateRec
  <2>6. CASE QueryWriteLog(q)
    BY <1>4, <2>6 DEF QueryWriteLog, HandlerGenInv, QueryInv, GenInv, TypeOK, StateRec
  <2>7. CASE QueryAnswer(q)
    BY <1>4, <2>7 DEF QueryAnswer, HandlerGenInv, QueryInv, GenInv, TypeOK, StateRec
  <2>q. QED
    BY <1>4, <2>1, <2>2, <2>3, <2>4, <2>5, <2>6, <2>7 DEF Handler
<1>q. QED
  BY <1>3, <1>4, QueryWrites

(* The handles of the served state are mapped: a failed attempt closes its *)
(* own, the collector only what nothing reaches.                           *)
LEMMA GeoStep ==
  ASSUME TypeOK, JobInv, GenInv, GeoInv, [Next]_vars
  PROVE  GeoInv'
<1> USE NoneAssumption DEF GeoInv
<1>1. CASE UNCHANGED <<relVars, pubVars, mapped>>
  BY <1>1
<1>2. CASE ReclaimGeo
  BY <1>2 DEF ReclaimGeo, Reachable
<1>3. CASE ReceiveSighup
  BY <1>3 DEF ReceiveSighup
<1>4. CASE SighupExit
  BY <1>4 DEF SighupExit
<1>5. CASE LoadNamedConf
  BY <1>5 DEF LoadNamedConf
<1>6. CASE LoadShadowCfg
  BY <1>6 DEF LoadShadowCfg
<1>7. CASE LoadGeoIP
  BY <1>7 DEF LoadGeoIP, TypeOK, Ptr, Building, GenInv
<1>8. CASE BuildState
  BY <1>8 DEF BuildState
<1>9. CASE NewLimiter
  BY <1>9 DEF NewLimiter
<1>10. CASE OpenQueryLog
  BY <1>10 DEF OpenQueryLog
<1>11. CASE SwapState
  BY <1>11 DEF SwapState, JobInv, HasCand, HasQL, Published, GenInv, TypeOK,
      StateRec, Ptr
<1>12. CASE ClearWithheld
  BY <1>12 DEF ClearWithheld
<1>13. CASE StoreLimiter
  BY <1>13 DEF StoreLimiter, QLChanged
<1>14. CASE StoreQueryLog
  BY <1>14 DEF StoreQueryLog
<1>15. CASE StoreQLState
  BY <1>15 DEF StoreQLState
<1>16. CASE CloseOldSink
  BY <1>16 DEF CloseOldSink
<1>17. CASE SetGeo
  BY <1>17 DEF SetGeo, JobInv, HasCand, HasQL, Published, GenInv, TypeOK,
      StateRec, Ptr
<1>18. CASE ClearEphemeral
  BY <1>18 DEF ClearEphemeral
<1>19. CASE DispatchNotifies
  BY <1>19 DEF DispatchNotifies
<1>20. CASE AbortReload
  BY <1>20 DEF AbortReload, GenInv, Building, JobInv, TypeOK, StateRec
<1>21. CASE DrainSighup
  BY <1>21 DEF DrainSighup
<1>q. QED
  BY <1>1, <1>2, <1>3, <1>4, <1>5, <1>6, <1>7, <1>8, <1>9, <1>10, <1>11,
      <1>12, <1>13, <1>14, <1>15, <1>16, <1>17, <1>18, <1>19, <1>20, <1>21,
      ReloadWrites DEF ReloadNext

(* Served generations only grow.                                           *)
LEMMA StateGrows ==
  ASSUME TypeOK, JobInv, GenInv, [Next]_vars
  PROVE  state.gen <= state'.gen
<1>1. CASE SwapState
  BY <1>1 DEF SwapState, GenInv, Building, JobInv, HasCand, HasQL, Published,
      TypeOK, StateRec
<1>2. CASE UNCHANGED state
  BY <1>2 DEF TypeOK, StateRec
<1>q. QED
  BY <1>1, <1>2, ReloadWrites DEF ReloadNext, ReclaimGeo, ReceiveSighup,
      SighupExit, LoadNamedConf, LoadShadowCfg, LoadGeoIP, BuildState,
      NewLimiter, OpenQueryLog, ClearWithheld, StoreLimiter, StoreQueryLog,
      StoreQLState, CloseOldSink, SetGeo, ClearEphemeral, DispatchNotifies,
      AbortReload, DrainSighup

(* The handles of a snapshot a handler holds stay mapped.                  *)
LEMMA HandlerGeoStep ==
  ASSUME TypeOK, JobInv, QueryInv, GenInv, GeoInv, HandlerGeoInv, [Next]_vars
  PROVE  HandlerGeoInv'
<1>1. state.gen <= state'.gen /\ state.gen \in Nat /\ state'.gen \in Nat
  BY StateGrows, TypeStep DEF TypeOK, StateRec
<1>2. ASSUME UNCHANGED qryVars
      PROVE  HandlerGeoInv'
  <2>1. CASE mapped \subseteq mapped'
    BY <1>1, <1>2, <2>1 DEF HandlerGeoInv, QueryInv, StateRec, TypeOK, Ptr
  <2>2. CASE ReclaimGeo
    BY <2>2 DEF ReclaimGeo, Reachable, HandlerGeoInv
  <2>3. CASE AbortReload
    BY <1>2, <2>3 DEF AbortReload, HandlerGeoInv, GenInv, Building, JobInv,
        TypeOK, StateRec
  <2>q. QED
    BY <2>1, <2>2, <2>3, ReloadWrites DEF ReloadNext, ReceiveSighup,
        SighupExit, LoadNamedConf, LoadShadowCfg, LoadGeoIP, BuildState,
        NewLimiter, OpenQueryLog, SwapState, ClearWithheld, StoreLimiter,
        StoreQueryLog, StoreQLState, CloseOldSink, SetGeo, ClearEphemeral,
        DispatchNotifies, DrainSighup
<1>3. ASSUME NEW q \in Queries, Handler(q), UNCHANGED <<pubVars, mapped>>
      PROVE  HandlerGeoInv'
  <2>1. CASE QueryStart(q)
    BY <1>3, <2>1 DEF QueryStart, HandlerGeoInv, GeoInv, TypeOK
  <2>2. CASE QueryRefuseEarly(q)
    BY <1>3, <2>2 DEF QueryRefuseEarly, HandlerGeoInv, GeoInv, TypeOK
  <2>3. CASE QueryLoadState(q)
    BY <1>3, <2>3 DEF QueryLoadState, HandlerGeoInv, GeoInv, TypeOK
  <2>4. CASE QueryResolveView(q)
    BY <1>3, <2>4 DEF QueryResolveView, HandlerGeoInv, GeoInv, TypeOK
  <2>5. CASE QueryLoadLog(q)
    BY <1>3, <2>5 DEF QueryLoadLog, HandlerGeoInv, GeoInv, TypeOK
  <2>6. CASE QueryWriteLog(q)
    BY <1>3, <2>6 DEF QueryWriteLog, HandlerGeoInv, GeoInv, TypeOK
  <2>7. CASE QueryAnswer(q)
    BY <1>3, <2>7 DEF QueryAnswer, HandlerGeoInv, GeoInv, TypeOK
  <2>q. QED
    BY <1>3, <2>1, <2>2, <2>3, <2>4, <2>5, <2>6, <2>7 DEF Handler
<1>q. QED
  BY <1>2, <1>3, QueryWrites

(* The steps that replace the query log, in order, keep logger, record and *)
(* configuration together.                                                 *)
LEMMA LogStep ==
  ASSUME TypeOK, JobInv, GenInv, LogInv, [Next]_vars
  PROVE  LogInv'
<1> USE NoneAssumption DEF LogInv, Building, Published, HasQL
<1>1. CASE UNCHANGED <<relVars, pubVars>>
  BY <1>1 DEF NeedSink, QLChanged
<1>2. CASE ReceiveSighup
  BY <1>2 DEF ReceiveSighup, TypeOK, QLRec, NeedSink, QLChanged, JobInv,
      NoLocals, Ptr
<1>3. CASE SighupExit
  BY <1>3 DEF SighupExit, TypeOK, QLRec, NeedSink, QLChanged
<1>4. CASE LoadNamedConf
  BY <1>4 DEF LoadNamedConf, TypeOK, QLRec, NeedSink, QLChanged
<1>5. CASE LoadShadowCfg
  BY <1>5 DEF LoadShadowCfg, TypeOK, QLRec, NeedSink, QLChanged
<1>6. CASE LoadGeoIP
  BY <1>6 DEF LoadGeoIP, TypeOK, QLRec, NeedSink, QLChanged
<1>7. CASE BuildState
  BY <1>7 DEF BuildState, TypeOK, QLRec, NeedSink, QLChanged
<1>8. CASE NewLimiter
  BY <1>8 DEF NewLimiter, TypeOK, QLRec, NeedSink, QLChanged
<1>9. CASE OpenQueryLog
  BY <1>9 DEF OpenQueryLog, TypeOK, QLRec, NeedSink, QLChanged, JobInv
<1>10. CASE SwapState
  BY <1>10 DEF SwapState, TypeOK, QLRec, NeedSink, QLChanged, JobInv, HasCand
<1>11. CASE ClearWithheld
  BY <1>11 DEF ClearWithheld, TypeOK, QLRec, NeedSink, QLChanged
<1>12. CASE StoreLimiter
  BY <1>12 DEF StoreLimiter, TypeOK, QLRec, NeedSink, QLChanged, JobInv
<1>13. CASE StoreQueryLog
  BY <1>13 DEF StoreQueryLog, TypeOK, QLRec, NeedSink, QLChanged
<1>14. CASE StoreQLState
  BY <1>14 DEF StoreQLState, TypeOK, QLRec, NeedSink, QLChanged, JobInv
<1>15. CASE CloseOldSink
  BY <1>15 DEF CloseOldSink, TypeOK, QLRec, NeedSink, QLChanged
<1>16. CASE SetGeo
  BY <1>16 DEF SetGeo, TypeOK, QLRec, NeedSink, QLChanged
<1>17. CASE ClearEphemeral
  BY <1>17 DEF ClearEphemeral, TypeOK, QLRec, NeedSink, QLChanged
<1>18. CASE DispatchNotifies
  BY <1>18 DEF DispatchNotifies, TypeOK, QLRec, NeedSink, QLChanged, JobInv,
      HasCand, GenInv
<1>19. CASE AbortReload
  BY <1>19 DEF AbortReload, TypeOK, QLRec, NeedSink, QLChanged
<1>20. CASE DrainSighup
  BY <1>20 DEF DrainSighup, TypeOK, QLRec, NeedSink, QLChanged
<1>q. QED
  BY <1>1, <1>2, <1>3, <1>4, <1>5, <1>6, <1>7, <1>8, <1>9, <1>10, <1>11,
      <1>12, <1>13, <1>14, <1>15, <1>16, <1>17, <1>18, <1>19, <1>20,
      ReloadWrites DEF ReloadNext, ReclaimGeo

(* Once run() is past the join, both signal goroutines are gone for good.  *)
LEMMA JoinStep ==
  ASSUME JoinInv, [Next]_vars
  PROVE  JoinInv'
<1>1. CASE UNCHANGED <<rpc, upc, mpc>>
  BY <1>1 DEF JoinInv
<1>2. CASE ReceiveSighup \/ ReloadNext \/ SighupExit
  BY <1>2 DEF JoinInv, ReloadNext, ReceiveSighup, SighupExit, LoadNamedConf,
      LoadShadowCfg, LoadGeoIP, BuildState, NewLimiter, OpenQueryLog,
      SwapState, ClearWithheld, StoreLimiter, StoreQueryLog, StoreQLState,
      CloseOldSink, SetGeo, ClearEphemeral, DispatchNotifies, AbortReload,
      DrainSighup
<1>3. CASE ReceiveSigusr1 \/ LoadSink \/ ReopenQueryLog \/ DrainSigusr1
             \/ Sigusr1Exit
  BY <1>3 DEF JoinInv, ReceiveSigusr1, LoadSink, ReopenQueryLog,
      DrainSigusr1, Sigusr1Exit
<1>4. CASE ServeReturns \/ MainShutdown
  BY <1>4 DEF JoinInv, ServeReturns, MainShutdown, StopSignals,
      CancelSignals, Join, CloseActiveSink
<1>q. QED
  BY <1>1, <1>2, <1>3, <1>4 DEF Next, Handler, vars, SendSighup, SendSigusr1,
      CancelContext, QueryStart, QueryRefuseEarly, QueryLoadState,
      QueryResolveView, QueryLoadLog, QueryWriteLog, QueryAnswer, PutCheck,
      PutStore, DeleteRecord, ReclaimGeo

(* Nothing but the sinks SinkInv names is ever open.                       *)
LEMMA SinkStep ==
  ASSUME TypeOK, JobInv, LogInv, JoinInv, SinkInv, [Next]_vars
  PROVE  SinkInv'
<1> USE NoneAssumption DEF SinkInv
<1>1. CASE UNCHANGED <<relVars, pubVars>> /\ UNCHANGED <<openSinks, mpc>>
  BY <1>1
<1>2. CASE ReceiveSighup
  BY <1>2 DEF ReceiveSighup
<1>3. CASE SighupExit
  BY <1>3 DEF SighupExit
<1>4. CASE LoadNamedConf
  BY <1>4 DEF LoadNamedConf
<1>5. CASE LoadShadowCfg
  BY <1>5 DEF LoadShadowCfg
<1>6. CASE LoadGeoIP
  BY <1>6 DEF LoadGeoIP
<1>7. CASE BuildState
  BY <1>7 DEF BuildState
<1>8. CASE NewLimiter
  BY <1>8 DEF NewLimiter
<1>9. CASE OpenQueryLog
  BY <1>9 DEF OpenQueryLog, JoinInv, JobInv, LogInv, Building, TypeOK, Ptr
<1>10. CASE SwapState
  BY <1>10 DEF SwapState
<1>11. CASE ClearWithheld
  BY <1>11 DEF ClearWithheld
<1>12. CASE StoreLimiter
  BY <1>12 DEF StoreLimiter, QLChanged
<1>13. CASE StoreQueryLog
  BY <1>13 DEF StoreQueryLog
<1>14. CASE StoreQLState
  BY <1>14 DEF StoreQLState, JoinInv, LogInv
<1>15. CASE CloseOldSink
  BY <1>15 DEF CloseOldSink, JoinInv, LogInv, HasQL, Published, JobInv,
      TypeOK, Ptr
<1>16. CASE SetGeo
  BY <1>16 DEF SetGeo
<1>17. CASE ClearEphemeral
  BY <1>17 DEF ClearEphemeral
<1>18. CASE DispatchNotifies
  BY <1>18 DEF DispatchNotifies, LogInv, JobInv
<1>19. CASE AbortReload
  BY <1>19 DEF AbortReload, LogInv, Building
<1>20. CASE DrainSighup
  BY <1>20 DEF DrainSighup
<1>21. CASE CloseActiveSink
  BY <1>21 DEF CloseActiveSink, JoinInv, JobInv, NoLocals
<1>22. CASE ServeReturns
  BY <1>22 DEF ServeReturns
<1>23. CASE StopSignals
  BY <1>23 DEF StopSignals
<1>24. CASE CancelSignals
  BY <1>24 DEF CancelSignals
<1>25. CASE Join
  BY <1>25 DEF Join
<1>q. QED
  BY <1>1, <1>2, <1>3, <1>4, <1>5, <1>6, <1>7, <1>8, <1>9, <1>10, <1>11,
      <1>12, <1>13, <1>14, <1>15, <1>16, <1>17, <1>18, <1>19, <1>20, <1>21,
      <1>22, <1>23, <1>24, <1>25 DEF Next, ReloadNext, MainShutdown, Handler,
      vars, SendSighup, SendSigusr1, ReceiveSigusr1, LoadSink,
      ReopenQueryLog, Reopen, DrainSigusr1, Sigusr1Exit, CancelContext,
      QueryStart, QueryRefuseEarly, QueryLoadState, QueryResolveView,
      QueryLoadLog, QueryWriteLog, QueryAnswer, PutCheck, PutStore,
      DeleteRecord, ReclaimGeo

(* Outside the installation steps every record has the served generation.  *)
LEMMA EphStep ==
  ASSUME TypeOK, EphInv, [Next]_vars
  PROVE  EphInv'
<1> USE DEF EphInv, Published
<1>1. CASE UNCHANGED <<eph, state, rpc>>
  BY <1>1
<1>2. CASE SwapState
  BY <1>2 DEF SwapState
<1>3. CASE ClearEphemeral
  BY <1>3 DEF ClearEphemeral
<1>4. CASE UNCHANGED <<eph, state>> /\ rpc # "clearEph" /\ ReloadNext
  BY <1>4 DEF ReloadNext, LoadNamedConf, LoadShadowCfg, LoadGeoIP,
      BuildState, NewLimiter, OpenQueryLog, SwapState, ClearWithheld,
      StoreLimiter, StoreQueryLog, StoreQLState, CloseOldSink, SetGeo,
      ClearEphemeral, DispatchNotifies, AbortReload, DrainSighup
<1>5. CASE ReceiveSighup \/ SighupExit
  BY <1>5 DEF ReceiveSighup, SighupExit
<1>6. ASSUME NEW p \in Puts, PutStore(p)
      PROVE  EphInv'
  BY <1>6 DEF PutStore
<1>7. ASSUME NEW z \in Zones, DeleteRecord(z)
      PROVE  EphInv'
  BY <1>7 DEF DeleteRecord
<1>8. ReloadNext => \/ SwapState \/ ClearEphemeral
                    \/ UNCHANGED <<eph, state>> /\ rpc # "clearEph"
  BY DEF ReloadNext, LoadNamedConf, LoadShadowCfg, LoadGeoIP, BuildState,
      NewLimiter, OpenQueryLog, ClearWithheld, StoreLimiter, StoreQueryLog,
      StoreQLState, CloseOldSink, SetGeo, DispatchNotifies, AbortReload,
      DrainSighup
<1>q. QED
  BY <1>1, <1>2, <1>3, <1>4, <1>5, <1>6, <1>7, <1>8 DEF Next, MainShutdown,
      Handler, vars, SendSighup, SendSigusr1, ReceiveSigusr1, LoadSink,
      ReopenQueryLog, DrainSigusr1, Sigusr1Exit, CancelContext, ServeReturns,
      StopSignals, CancelSignals, Join, CloseActiveSink, QueryStart,
      QueryRefuseEarly, QueryLoadState, QueryResolveView, QueryLoadLog,
      QueryWriteLog, QueryAnswer, PutCheck, ReclaimGeo

----------------------------------------------------------------------------
(* The inductive invariant.                                                *)
IInv ==
  /\ TypeOK /\ JobInv /\ QueryInv
  /\ GenInv /\ HandlerGenInv /\ GeoInv /\ HandlerGeoInv
  /\ LogInv /\ SinkInv /\ EphInv /\ JoinInv

(* The invariant holds when the signal goroutines start.                   *)
LEMMA InitIInv == Init => IInv
<1> SUFFICES ASSUME Init PROVE IInv
  OBVIOUS
<1>c. PICK c \in Contents :
        /\ state = [gen |-> 0, geo |-> IF c.geo THEN 0 ELSE None, cfg |-> c]
        /\ queryLog = IF c.ql = None THEN None ELSE 0
        /\ qlState = [cfg |-> c.ql, sink |-> queryLog]
  BY DEF Init
<1>d. c.ql \in QLConfigs \cup {None}
  BY ContentsAssumption DEF FileContent
<1>1. TypeOK
  <2>1. state \in StateRec /\ queryLog \in Ptr
    BY <1>c DEF StateRec, Ptr
  <2>2. qlState \in QLRec
    BY <1>c, <1>d, <2>1 DEF QLRec
  <2>3. geo \in Ptr /\ mapped \in SUBSET Nat /\ openSinks \in SUBSET Nat
    BY <2>1 DEF Init, StateRec, Ptr
  <2>4. unread \in BOOLEAN /\ ctxDone \in BOOLEAN
    BY Zenon DEF Init
  <2>5. hupCh \in 0..1 /\ usr1Ch \in 0..1 /\ limiter \in Nat
          /\ notified \in Nat /\ attempt \in Nat
    BY DEF Init
  <2>6. /\ rpc \in ReloadPCs /\ newGeo \in Ptr /\ newLim \in Ptr
        /\ newSink \in Ptr /\ usink \in Ptr
        /\ qpc \in [Queries -> QueryPCs] /\ qLim \in [Queries -> Ptr]
        /\ qSt \in [Queries -> StateRec \cup {None}]
        /\ qLog \in [Queries -> Ptr] /\ put \in [Puts -> Zones \cup {None}]
    BY DEF Init, ReloadPCs, QueryPCs, Ptr
  <2>q. QED
    BY <2>1, <2>2, <2>3, <2>4, <2>5, <2>6 DEF Init, TypeOK
<1>2. JobInv /\ QueryInv /\ HandlerGenInv /\ HandlerGeoInv /\ EphInv /\ JoinInv
  BY DEF Init, JobInv, NoLocals, Published, HasQL, HasCand, HasCfg, QueryInv,
      HandlerGenInv, HandlerGeoInv, EphInv, JoinInv
<1>3. GenInv /\ GeoInv
  BY <1>c, NoneAssumption DEF Init, GenInv, GeoInv, Building, Published
<1>4. LogInv
  BY <1>c DEF Init, LogInv, Building, Published, HasQL
<1>5. SinkInv
  BY <1>c DEF Init, SinkInv
<1>q. QED
  BY <1>1, <1>2, <1>3, <1>4, <1>5 DEF IInv

(* Every step of every goroutine preserves the invariant.                  *)
LEMMA NextIInv == IInv /\ [Next]_vars => IInv'
BY TypeStep, JobStep, QueryStep, GenStep, HandlerGenStep, GeoStep,
    HandlerGeoStep, LogStep, SinkStep, EphStep, JoinStep DEF IInv

(* So it holds throughout every execution.                                 *)
LEMMA Invariance == Spec => []IInv
BY InitIInv, NextIInv, PTL DEF Spec
----------------------------------------------------------------------------
(* Type correctness: every pointer reload() publishes and every snapshot a *)
(* handler reads is of its type when it is read, none is nil by accident.  *)
THEOREM TypeCorrect == Spec => []TypeOK
<1>1. IInv => TypeOK
  BY DEF IInv
<1>q. QED
  BY <1>1, Invariance, PTL

(* A reload is all or nothing: whenever the reload goroutine waits, state, *)
(* limiter, GeoIP handles and query log are of one configuration.          *)
THEOREM ReloadCoherent == Spec => []Coherent
<1>1. IInv => Coherent
  BY DEF IInv, GenInv, GeoInv, LogInv, Coherent, Published
<1>q. QED
  BY <1>1, Invariance, PTL

(* No use after munmap, however many reloads a slow handler outlives.      *)
THEOREM GeoNeverUnmapped == Spec => []GeoAlive
<1>1. IInv => GeoAlive
  BY NoneAssumption DEF IInv, GeoInv, HandlerGeoInv, QueryInv, GeoAlive
<1>q. QED
  BY <1>1, Invariance, PTL

(* The logger in force always writes to an open sink until run() ends.     *)
THEOREM SinkStaysOpen == Spec => []ActiveSinkOpen
<1>1. IInv => ActiveSinkOpen
  BY DEF IInv, LogInv, SinkInv, ActiveSinkOpen
<1>q. QED
  BY <1>1, Invariance, PTL

(* No sink is left open: not by a failed reload, not by a replaced query   *)
(* log, not by a SIGUSR1 that reopens a superseded sink, not at exit.      *)
THEOREM SinksReleased == Spec => []NoSinkLeak
<1>1. IInv => NoSinkLeak
  BY DEF IInv, JobInv, NoLocals, LogInv, SinkInv, NoSinkLeak, Building,
      Published, TypeOK, ReloadPCs
<1>q. QED
  BY <1>1, Invariance, PTL

(* A handler's limiter is never newer than the state it answers from.      *)
THEOREM LimiterOrder == Spec => []LimiterNotNewer
<1>1. IInv => LimiterNotNewer
  BY NoneAssumption DEF IInv, HandlerGenInv, QueryInv, LimiterNotNewer
<1>q. QED
  BY <1>1, Invariance, PTL

(* NOTIFY announces only generations already served.                       *)
THEOREM NotifyOrder == Spec => []NotifyAfterPublish
<1>1. IInv => NotifyAfterPublish
  BY DEF IInv, GenInv, NotifyAfterPublish
<1>q. QED
  BY <1>1, Invariance, PTL

(* No ephemeral record outlives the reload it was stored before.           *)
THEOREM EphemeralReset == Spec => []EphemeralCleared
<1>1. IInv => EphemeralCleared
  BY DEF IInv, EphInv, EphemeralCleared, Published
<1>q. QED
  BY <1>1, Invariance, PTL

(* Once run() has joined the signal goroutines nothing is published.       *)
THEOREM JoinIsFinal == Spec => NoPublishAfterJoin
<1>1. JoinInv /\ [Next]_vars =>
        [(mpc \in {"defers", "exited"}) => UNCHANGED pubVars]_vars
  BY ReloadWrites DEF JoinInv, ReclaimGeo, ReceiveSighup, SighupExit,
      ReloadNext, LoadNamedConf, LoadShadowCfg, LoadGeoIP, BuildState,
      NewLimiter, OpenQueryLog, SwapState, ClearWithheld, StoreLimiter,
      StoreQueryLog, StoreQLState, CloseOldSink, SetGeo, ClearEphemeral,
      DispatchNotifies, AbortReload, DrainSighup
<1>2. IInv => JoinInv
  BY DEF IInv
<1>q. QED
  BY <1>1, <1>2, Invariance, PTL DEF Spec, NoPublishAfterJoin
=============================================================================
