---------------------------- MODULE ServerProofs ----------------------------
(***************************************************************************)
(* The server's process and its NOTIFY dispatch.                           *)
(*                                                                         *)
(* Lifecycle: the PID file and the clean-up, for any number of processes,  *)
(* addresses and signals.  Both properties need the same picture of a      *)
(* process: which sockets it owns at each stage of run() (Owned), which of *)
(* its variables a stage has set (Memory), and that of two processes past  *)
(* their binding neither believes to be alone (Exclusive), so that neither *)
(* owes the PID file to the other (Named).                                 *)
(*                                                                         *)
(* Notify: one goroutine for each key and a deadline that costs at most    *)
(* the last retry, for any zones, views, dispatches and any backoff that   *)
(* fits into the deadline.  NotifiedOnce speaks of a finished dispatch and *)
(* needs Progress, which says what a dispatch has seen at each point of    *)
(* its loops; RetryBudget speaks of a finished goroutine and needs         *)
(* SendInv, which bounds its age at every attempt by the time the attempts *)
(* before it may have taken.                                               *)
(***************************************************************************)
EXTENDS Lifecycle, Notify, TLAPS

Addresses == {Addrs[i] : i \in DOMAIN Addrs}
Halves(as) == as \X {"udp", "tcp"}

Early    == {"idle", "load"}
Starting == {"pid", "write", "signals"}
(* Between BindMany's return and the removal of the PID file.              *)
Serving  == Starting \cup {"serve", "close", "join", "remove"}
Stages   == Early \cup {"udp", "tcp"} \cup Serving \cup Services
            \cup {"sink", "exited", "killed"}

Process == [pc : Stages, term : BOOLEAN, at : 1 .. Len(Addrs),
            listeners : SUBSET Addresses, serving : SUBSET Sockets,
            failed : BOOLEAN, notified : BOOLEAN, hup : BOOLEAN,
            sigDone : BOOLEAN, reload : {"none", "idle", "busy", "ended"},
            wrote : BOOLEAN, sink : {"none", "open", "closed"},
            up : SUBSET Services, alone : BOOLEAN]

TypeOK ==
  /\ proc \in [Procs -> Process]
  /\ sock \in [Sockets -> Procs \cup {None, Foreign}]
  /\ cmd \in Procs \cup {None}

(* What each stage has set, and what it has not yet.                       *)
Memory(m) ==
  /\ m.pc \in Early \cup {"exited"} => m.sink # "open" /\ m.up = {}
  /\ m.pc \in Early => m.listeners = {}
  /\ m.pc \in Serving => m.listeners # {}
  /\ m.pc \in Early \cup {"udp", "tcp"} \cup Starting =>
       m.reload = "none" /\ m.serving = {}
  /\ m.pc \in Services \cup {"remove", "sink", "exited"} =>
       m.reload \in {"none", "ended"}
  /\ m.pc \in {"serve", "close"} => m.notified
  /\ m.pc = "metrics" => "doh" \notin m.up
  /\ m.pc = "api" => m.up \subseteq {"api"}
  /\ m.pc = "sink" => m.up = {}

(* The sockets a process may hold at its stage: it holds no others, and    *)
(* all of these.                                                           *)
MayOwn(m, so) ==
  \/ m.pc \in {"udp", "tcp"} \cup Starting /\ so \in Halves(m.listeners)
  \/ m.pc = "tcp" /\ so = <<Addrs[m.at], "udp">>
  \/ m.pc \in {"serve", "close"} /\ so \in m.serving

Owned(p) == \A so \in Sockets : sock[so] = p <=> MayOwn(proc[p], so)

(* The address that is being bound is not bound yet, and a server that no  *)
(* listener failed serves on all of them.                                  *)
Listening(m) ==
  /\ m.pc = "tcp" => Addrs[m.at] \notin m.listeners
  /\ m.pc = "serve" /\ ~m.failed => m.serving = Halves(m.listeners)

(* The PID file holds the PID of a process that wrote it and has not       *)
(* removed it, or was killed.                                              *)
Writer(p) ==
  pidFile = p => \/ proc[p].pc = "killed"
                 \/ proc[p].wrote /\ proc[p].pc \in Serving \ {"pid", "write"}

Named(p) ==
  proc[p].wrote /\ proc[p].pc \in Serving /\ proc[p].alone => pidFile = p

(* writePIDFile comes after BindMany.                                      *)
WroteLate(m) == m.wrote => m.pc \notin Early \cup {"udp", "tcp", "pid", "write"}

Exclusive(p) ==
  \A q \in Procs \ {p} :
    proc[p].pc \in Serving /\ proc[q].pc \in Serving => ~proc[p].alone

Local(m) == Memory(m) /\ Listening(m) /\ WroteLate(m)

ProcInv(p) ==
  Local(proc[p]) /\ Owned(p) /\ Writer(p) /\ Named(p) /\ Exclusive(p)

(* The inductive invariant.                                                *)
LifeInv == TypeOK /\ \A p \in Procs : ProcInv(p)
----------------------------------------------------------------------------
(* A step of p leaves the other processes as they are when it takes and    *)
(* frees only sockets of its own, does not join the serving processes and  *)
(* writes the PID file only as one of them.                                *)
LEMMA OthersKeep ==
  ASSUME LifeInv, NEW p \in Procs,
         \A q \in Procs \ {p} : proc'[q] = proc[q],
         \A q \in Procs \ {p} : \A so \in Sockets :
           sock'[so] = q <=> sock[so] = q,
         \A q \in Procs \ {p} : pidFile' = q => pidFile = q,
         pidFile' # pidFile => proc[p].pc \in Serving,
         proc'[p].pc \in Serving => proc[p].pc \in Serving
  PROVE  \A q \in Procs \ {p} : ProcInv(q)'
<1> SUFFICES ASSUME NEW q \in Procs \ {p}
             PROVE  ProcInv(q)'
  OBVIOUS
<1>1. ProcInv(q) /\ proc'[q] = proc[q]
  BY DEF LifeInv
<1>2. Local(proc[q])' /\ Writer(q)' /\ WroteLate(proc[q])'
  BY <1>1 DEF ProcInv, Local, Memory, Listening, WroteLate, Writer
<1>3. Owned(q)'
  BY <1>1 DEF ProcInv, Owned, MayOwn
<1>4. Named(q)'
  BY <1>1 DEF ProcInv, Named, Exclusive
<1>5. Exclusive(q)'
  BY <1>1 DEF ProcInv, Exclusive
<1> QED
  BY <1>2, <1>3, <1>4, <1>5 DEF ProcInv

(* A step of p from the memory proc[p] to m that leaves the PID file       *)
(* alone.                                                                  *)
LEMMA SocketStep ==
  ASSUME LifeInv, NEW p \in Procs, NEW m \in Process,
         proc' = [proc EXCEPT ![p] = m],
         sock' \in [Sockets -> Procs \cup {None, Foreign}],
         \A so \in Sockets : sock'[so] = p <=> MayOwn(m, so),
         \A q \in Procs \ {p} : \A so \in Sockets :
           sock'[so] = q <=> sock[so] = q,
         pidFile' = pidFile, cmd' \in Procs \cup {None},
         Local(m),
         m.pc \in Serving => proc[p].pc \in Serving /\ m.alone = proc[p].alone,
         m.wrote = proc[p].wrote \/ (~m.wrote /\ pidFile # p),
         pidFile = p => m.pc \in Serving \ {"pid", "write"}
  PROVE  LifeInv'
<1>1. proc'[p] = m /\ \A q \in Procs \ {p} : proc'[q] = proc[q]
  BY DEF LifeInv, TypeOK
<1>2. \A q \in Procs \ {p} : ProcInv(q)'
  BY <1>1, OthersKeep
<1>3. TypeOK'
  BY DEF LifeInv, TypeOK
<1>4. ProcInv(p)
  BY DEF LifeInv
<1>5. Local(proc[p])'
  BY <1>1
<1>6. Owned(p)'
  BY <1>1 DEF Owned
<1>7. Writer(p)'
  BY <1>1, <1>4 DEF ProcInv, Writer, Serving, Starting
<1>8. Named(p)'
  BY <1>1, <1>4 DEF ProcInv, Named
<1>9. Exclusive(p)'
  BY <1>1, <1>4 DEF ProcInv, Exclusive
<1> QED
  BY <1>2, <1>3, <1>5, <1>6, <1>7, <1>8, <1>9 DEF LifeInv, ProcInv

(* ... and the sockets, too.                                               *)
LEMMA LocalStep ==
  ASSUME LifeInv, NEW p \in Procs, NEW m \in Process,
         proc' = [proc EXCEPT ![p] = m],
         sock' = sock, pidFile' = pidFile, cmd' \in Procs \cup {None},
         Local(m),
         \A so \in Sockets : MayOwn(m, so) <=> MayOwn(proc[p], so),
         m.pc \in Serving => proc[p].pc \in Serving /\ m.alone = proc[p].alone,
         m.wrote = proc[p].wrote \/ (~m.wrote /\ pidFile # p),
         pidFile = p => m.pc \in Serving \ {"pid", "write"}
  PROVE  LifeInv'
<1>1. sock' \in [Sockets -> Procs \cup {None, Foreign}]
  BY DEF LifeInv, TypeOK
<1>2. \A so \in Sockets : sock'[so] = p <=> MayOwn(m, so)
  BY DEF LifeInv, ProcInv, Owned
<1> QED
  BY <1>1, <1>2, SocketStep

(* What LifeInv says of one process.                                       *)
LEMMA OfProcess ==
  ASSUME LifeInv, NEW p \in Procs
  PROVE  /\ proc[p] \in Process
         /\ Local(proc[p]) /\ Owned(p) /\ Writer(p) /\ Named(p) /\ Exclusive(p)
         /\ cmd \in Procs \cup {None}
BY DEF LifeInv, TypeOK, ProcInv

(* Up to the start of the optional servers.                                *)
LEMMA LoadKeeps ==
  ASSUME LifeInv, NEW p \in Procs,
         Launch(p) \/ LoadFails(p) \/ LoadOnly(p) \/ Load(p)
  PROVE  LifeInv'
<1>1. /\ proc[p] \in Process
      /\ Local(proc[p]) /\ Writer(p)
      /\ cmd \in Procs \cup {None}
  BY OfProcess
<1>2. ASSUME NEW m \in Process, proc' = [proc EXCEPT ![p] = m],
             UNCHANGED <<sock, pidFile, cmd, hangups>>,
             proc[p].pc \in Early, Memory(m),
             m.pc \in {"load", "exited", "sink", "udp"},
             m.listeners = proc[p].listeners, m.wrote = proc[p].wrote
      PROVE  LifeInv'
  <2>1. m.listeners = {} /\ ~m.wrote /\ pidFile # p
    BY <1>1, <1>2 DEF Local, Memory, WroteLate, Writer, Early, Serving, Starting
  <2>2. Local(m)
    BY <1>2, <2>1 DEF Local, Listening, WroteLate
  <2>3. \A so \in Sockets : ~MayOwn(m, so) /\ ~MayOwn(proc[p], so)
    BY <1>2, <2>1 DEF MayOwn, Halves, Early, Starting
  <2>4. m.pc \notin Serving
    BY <1>2 DEF Serving, Starting
  <2> QED
    BY <1>1, <1>2, <2>1, <2>2, <2>3, <2>4, LocalStep
<1>3. CASE Launch(p)
  <2> DEFINE m == [proc[p] EXCEPT !.pc = "load"]
  <2>1. m \in Process /\ m.pc = "load"
    BY <1>1 DEF Process, Stages, Early
  <2>2. proc' = [proc EXCEPT ![p] = m] /\ proc[p].pc = "idle"
    BY <1>3 DEF Launch
  <2>3. Memory(m)
    BY <1>1, <2>1, <2>2 DEF Local, Memory, Process, Early, Serving, Starting, Services
  <2> QED
    BY <1>1, <1>2, <1>3, <2>1, <2>2, <2>3 DEF Launch, Early, Process
<1>4. CASE LoadFails(p)
  <2> DEFINE m == [proc[p] EXCEPT !.pc = "exited"]
  <2>1. m \in Process /\ m.pc = "exited"
    BY <1>1 DEF Process, Stages
  <2>2. proc' = [proc EXCEPT ![p] = m] /\ proc[p].pc = "load"
    BY <1>4 DEF LoadFails
  <2>3. Memory(m)
    BY <1>1, <2>1, <2>2 DEF Local, Memory, Process, Early, Serving, Starting, Services
  <2> QED
    BY <1>1, <1>2, <1>4, <2>1, <2>2, <2>3 DEF LoadFails, Early, Process
<1>5. CASE LoadOnly(p)
  <2> DEFINE m == [proc[p] EXCEPT !.sink = "open", !.pc = "sink"]
  <2>1. m \in Process /\ m.pc = "sink"
    BY <1>1 DEF Process, Stages
  <2>2. proc' = [proc EXCEPT ![p] = m] /\ proc[p].pc = "load"
    BY <1>5 DEF LoadOnly
  <2>3. Memory(m)
    BY <1>1, <2>1, <2>2 DEF Local, Memory, Process, Early, Serving, Starting, Services
  <2> QED
    BY <1>1, <1>2, <1>5, <2>1, <2>2, <2>3 DEF LoadOnly, Early, Process
<1>6. CASE Load(p)
  <2>1. PICK missing \in {{}, {"metrics"}} :
          proc' = [proc EXCEPT ![p].sink = "open", ![p].pc = "udp",
                               ![p].up = Configured \ missing]
    BY <1>6 DEF Load
  <2> DEFINE m == [proc[p] EXCEPT !.sink = "open", !.pc = "udp",
                                  !.up = Configured \ missing]
  <2>2. m \in Process /\ m.pc = "udp"
    BY <1>1, ServicesAssumption DEF Process, Stages
  <2>3. proc' = [proc EXCEPT ![p] = m] /\ proc[p].pc = "load"
    BY <1>6, <2>1 DEF Load
  <2>4. Memory(m)
    BY <1>1, <2>2, <2>3 DEF Local, Memory, Process, Early, Serving, Starting, Services
  <2> QED
    BY <1>1, <1>2, <1>6, <2>2, <2>3, <2>4 DEF Load, Early, Process
<1> QED
  BY <1>3, <1>4, <1>5, <1>6

(* BindMany is done: p joins the serving processes, which are not alone    *)
(* from then on.                                                           *)
LEMMA BindCompletes ==
  ASSUME LifeInv, NEW p \in Procs, NEW m \in Process,
         proc' = [q \in Procs |-> IF q = p THEN m
                                  ELSE [proc[q] EXCEPT !.alone = FALSE]],
         sock' \in [Sockets -> Procs \cup {None, Foreign}],
         \A so \in Sockets : sock'[so] = p <=> MayOwn(m, so),
         \A q \in Procs \ {p} : \A so \in Sockets :
           sock'[so] = q <=> sock[so] = q,
         pidFile' = pidFile, cmd' = cmd,
         Local(m), m.pc = "pid", pidFile # p,
         m.alone = \A r \in Procs \ {p} : ~Bound(r)
  PROVE  LifeInv'
<1>1. proc'[p] = m
  OBVIOUS
<1>2. ASSUME NEW q \in Procs \ {p}
      PROVE  ProcInv(q)' /\ proc'[q] \in Process
  <2>1. proc[q] \in Process /\ ProcInv(q)
    BY DEF LifeInv, TypeOK
  <2>2. proc'[q] = [proc[q] EXCEPT !.alone = FALSE]
    OBVIOUS
  <2>3. proc'[q] \in Process /\ ~proc'[q].alone
    BY <2>1, <2>2, Zenon DEF Process
  <2>4. /\ proc'[q].pc = proc[q].pc /\ proc'[q].at = proc[q].at
        /\ proc'[q].listeners = proc[q].listeners
        /\ proc'[q].serving = proc[q].serving
        /\ proc'[q].failed = proc[q].failed
        /\ proc'[q].notified = proc[q].notified
        /\ proc'[q].reload = proc[q].reload /\ proc'[q].wrote = proc[q].wrote
        /\ proc'[q].sink = proc[q].sink /\ proc'[q].up = proc[q].up
    BY <2>1, <2>2 DEF Process
  <2>5. Local(proc[q])'
    BY <2>1, <2>4 DEF ProcInv, Local, Memory, Listening, WroteLate
  <2>6. Owned(q)'
    BY <2>1, <2>4 DEF ProcInv, Owned, MayOwn
  <2>7. Writer(q)'
    BY <2>1, <2>4 DEF ProcInv, Writer
  <2>8. Named(q)' /\ Exclusive(q)'
    BY <2>3 DEF Named, Exclusive
  <2> QED
    BY <2>3, <2>5, <2>6, <2>7, <2>8 DEF ProcInv
<1>3. TypeOK'
  BY <1>1, <1>2 DEF LifeInv, TypeOK
<1>4. Owned(p)'
  BY <1>1 DEF Owned
<1>5. Writer(p)' /\ Named(p)'
  BY <1>1 DEF Writer, Named, Local, WroteLate
<1>6. Exclusive(p)'
  <2> SUFFICES ASSUME NEW q \in Procs \ {p}, proc'[q].pc \in Serving
               PROVE  ~proc'[p].alone
    BY DEF Exclusive
  <2>1. proc[q].pc \in Serving /\ proc[q].listeners # {}
    BY DEF LifeInv, TypeOK, Process, ProcInv, Local, Memory
  <2>2. Bound(q)
    BY <2>1 DEF Bound, Running, Serving, Starting
  <2> QED
    BY <1>1, <2>2
<1> QED
  BY <1>1, <1>2, <1>3, <1>4, <1>5, <1>6 DEF LifeInv, ProcInv

(* The step to the next address, to the PID file or, with nothing bound,   *)
(* to the clean-up.                                                        *)
LEMMA BoundSoFarKeeps ==
  ASSUME LifeInv, NEW p \in Procs, NEW ls \in SUBSET Addresses,
         proc[p].pc \in {"udp", "tcp"}, BoundSoFar(p, ls),
         sock' \in [Sockets -> Procs \cup {None, Foreign}],
         \A so \in Sockets : sock'[so] = p <=> so \in Halves(ls),
         \A q \in Procs \ {p} : \A so \in Sockets :
           sock'[so] = q <=> sock[so] = q,
         pidFile' = pidFile, cmd' = cmd
  PROVE  LifeInv'
<1>1. /\ proc[p] \in Process /\ Local(proc[p]) /\ Writer(p)
      /\ cmd \in Procs \cup {None}
  BY OfProcess
<1>2. pidFile # p /\ ~proc[p].wrote
  BY <1>1 DEF Writer, Local, WroteLate, Serving, Starting
<1>3. CASE proc[p].at < Len(Addrs)
  <2> DEFINE m == [proc[p] EXCEPT !.at = @ + 1, !.pc = "udp", !.listeners = ls]
  <2>1. proc' = [proc EXCEPT ![p] = m]
    BY <1>3 DEF BoundSoFar
  <2>2. m \in Process /\ m.pc = "udp" /\ m.listeners = ls /\ ~m.wrote
    <3>1. proc[p].at + 1 \in 1 .. Len(Addrs)
      BY <1>1, <1>3, AddrsAssumption DEF Process
    <3> QED
      BY <1>1, <1>2, <3>1 DEF Process, Stages
  <2>3. Local(m)
    BY <1>1, <2>2 DEF Local, Memory, Listening, WroteLate, Process, Early,
                      Serving, Starting, Services
  <2>4. \A so \in Sockets : MayOwn(m, so) <=> so \in Halves(ls)
    BY <2>2 DEF MayOwn
  <2>5. m.pc \notin Serving
    BY <2>2 DEF Serving, Starting
  <2> HIDE DEF m
  <2> QED
    BY <1>1, <1>2, <2>1, <2>2, <2>3, <2>4, <2>5, SocketStep
<1>4. CASE ~(proc[p].at < Len(Addrs)) /\ ls = {}
  <2> DEFINE m == [proc[p] EXCEPT !.pc = "doh"]
  <2>1. proc' = [proc EXCEPT ![p] = m]
    BY <1>4 DEF BoundSoFar
  <2>2. m \in Process /\ m.pc = "doh" /\ ~m.wrote
    BY <1>1, <1>2 DEF Process, Stages, Services
  <2>3. Local(m)
    BY <1>1, <2>2 DEF Local, Memory, Listening, WroteLate, Process, Early,
                      Serving, Starting, Services
  <2>4. \A so \in Sockets : MayOwn(m, so) <=> so \in Halves(ls)
    BY <1>4, <2>2 DEF MayOwn, Halves, Starting
  <2>5. m.pc \notin Serving
    BY <2>2 DEF Serving, Starting
  <2> HIDE DEF m
  <2> QED
    BY <1>1, <1>2, <2>1, <2>2, <2>3, <2>4, <2>5, SocketStep
<1>5. CASE ~(proc[p].at < Len(Addrs)) /\ ls # {}
  <2> DEFINE aln == \A r \in Procs \ {p} : ~Bound(r)
             m == [proc[p] EXCEPT !.listeners = ls, !.pc = "pid", !.alone = aln]
  <2>1. proc' = [q \in Procs |-> IF q = p THEN m
                                 ELSE [proc[q] EXCEPT !.alone = FALSE]]
    BY <1>5 DEF BoundSoFar
  <2>2. aln \in BOOLEAN
    OBVIOUS
  <2> HIDE DEF aln
  <2>3. [proc[p] EXCEPT !.listeners = ls, !.pc = "pid"] \in Process
    BY <1>1 DEF Process, Stages, Serving, Starting
  <2>4. m \in Process
    BY <2>2, <2>3, Zenon DEF Process
  <2>5. m.pc = "pid" /\ m.listeners = ls /\ m.wrote = proc[p].wrote
        /\ m.alone = aln /\ m.reload = proc[p].reload /\ m.serving = proc[p].serving
    BY <1>1 DEF Process
  <2> HIDE DEF m
  <2>6. Local(m)
    BY <1>1, <1>2, <1>5, <2>5 DEF Local, Memory, Listening, WroteLate, Early,
                      Serving, Starting, Services
  <2>7. \A so \in Sockets : MayOwn(m, so) <=> so \in Halves(ls)
    BY <2>5 DEF MayOwn, Starting
  <2> QED
    BY <1>1, <1>2, <2>1, <2>4, <2>5, <2>6, <2>7, BindCompletes DEF aln
<1> QED
  BY <1>3, <1>4, <1>5

(* The two halves of bindPair.                                             *)
LEMMA BindKeeps ==
  ASSUME LifeInv, NEW p \in Procs, BindUDP(p) \/ BindTCP(p)
  PROVE  LifeInv'
<1> DEFINE a == Addrs[proc[p].at]
           ls == proc[p].listeners
<1>1. /\ proc[p] \in Process /\ Local(proc[p]) /\ Writer(p) /\ Owned(p)
      /\ cmd \in Procs \cup {None}
      /\ sock \in [Sockets -> Procs \cup {None, Foreign}]
  BY OfProcess DEF LifeInv, TypeOK
<1>2. /\ proc[p].pc \in {"udp", "tcp"}
      /\ UNCHANGED <<pidFile, cmd>>
  BY DEF BindUDP, BindTCP
<1>3. pidFile # p /\ ~proc[p].wrote
  BY <1>1, <1>2 DEF Writer, Local, WroteLate, Serving, Starting
<1>4. /\ a \in Addresses /\ ls \in SUBSET Addresses
      /\ <<a, "udp">> \in Sockets /\ <<a, "tcp">> \in Sockets
  BY <1>1, AddrsAssumption DEF Process, Addresses, Sockets
<1>5. None \notin Procs /\ Foreign \notin Procs
  BY ProcsAssumption
<1> HIDE DEF a, ls
<1>6. CASE BindUDP(p)
  <2>1. \A so \in Sockets : sock[so] = p <=> so \in Halves(ls)
    BY <1>1, <1>6 DEF Owned, MayOwn, BindUDP, ls, Starting
  <2>2. CASE Free(<<a, "udp">>)
    <3> DEFINE m == [proc[p] EXCEPT !.pc = "tcp"]
    <3>1. /\ proc' = [proc EXCEPT ![p] = m]
          /\ sock' = [sock EXCEPT ![<<a, "udp">>] = p]
          /\ sock[<<a, "udp">>] = None
      BY <1>6, <2>2 DEF BindUDP, a, Free
    <3>2. /\ m \in Process /\ m.pc = "tcp" /\ ~m.wrote
          /\ m.at = proc[p].at /\ m.listeners = ls
      BY <1>1, <1>3 DEF Process, Stages, ls
    <3>3. a \notin ls
      BY <1>4, <1>5, <2>1, <3>1 DEF Halves
    <3>4. Local(m)
      BY <1>1, <1>2, <3>2, <3>3 DEF Local, Memory, Listening, WroteLate, Process,
                              Early, Serving, Starting, Services, a
    <3>5. \A so \in Sockets :
            MayOwn(m, so) <=> so \in Halves(ls) \/ so = <<a, "udp">>
      BY <3>2 DEF MayOwn, a
    <3>6. m.pc \notin Serving
      BY <3>2 DEF Serving, Starting
    <3> HIDE DEF m
    <3>7. \A so \in Sockets : sock'[so] = p <=> MayOwn(m, so)
      BY <1>1, <1>4, <2>1, <3>1, <3>5
    <3>8. /\ sock' \in [Sockets -> Procs \cup {None, Foreign}]
          /\ \A q \in Procs \ {p} : \A so \in Sockets :
               sock'[so] = q <=> sock[so] = q
      BY <1>1, <1>4, <1>5, <3>1
    <3> QED
      BY <1>1, <1>2, <1>3, <3>1, <3>2, <3>4, <3>6, <3>7, <3>8, SocketStep
  <2>3. CASE ~Free(<<a, "udp">>)
    <3>1. sock' = sock /\ BoundSoFar(p, ls)
      BY <1>6, <2>3 DEF BindUDP, a, ls
    <3> QED
      BY <1>1, <1>2, <1>4, <2>1, <3>1, BoundSoFarKeeps
  <2> QED
    BY <2>2, <2>3
<1>7. CASE BindTCP(p)
  <2>1. /\ \A so \in Sockets :
             sock[so] = p <=> so \in Halves(ls) \/ so = <<a, "udp">>
        /\ a \notin ls
    BY <1>1, <1>7 DEF Owned, MayOwn, BindTCP, ls, a, Local, Listening
  <2>2. CASE Free(<<a, "tcp">>)
    <3>1. /\ sock' = [sock EXCEPT ![<<a, "tcp">>] = p]
          /\ sock[<<a, "tcp">>] = None
          /\ BoundSoFar(p, ls \cup {a})
      BY <1>7, <2>2 DEF BindTCP, a, ls, Free
    <3>2. \A so : so \in Halves(ls \cup {a}) <=>
                    so \in Halves(ls) \/ so = <<a, "udp">> \/ so = <<a, "tcp">>
      BY DEF Halves
    <3>3. \A so \in Sockets : sock'[so] = p <=> so \in Halves(ls \cup {a})
      BY <1>1, <1>4, <2>1, <3>1, <3>2
    <3>4. /\ sock' \in [Sockets -> Procs \cup {None, Foreign}]
          /\ \A q \in Procs \ {p} : \A so \in Sockets :
               sock'[so] = q <=> sock[so] = q
      BY <1>1, <1>4, <1>5, <3>1
    <3>5. ls \cup {a} \in SUBSET Addresses
      BY <1>4
    <3> QED
      BY <1>2, <3>1, <3>3, <3>4, <3>5, BoundSoFarKeeps
  <2>3. CASE ~Free(<<a, "tcp">>)
    <3>1. sock' = [sock EXCEPT ![<<a, "udp">>] = None] /\ BoundSoFar(p, ls)
      BY <1>7, <2>3 DEF BindTCP, a, ls
    <3>2. sock[<<a, "udp">>] = p /\ <<a, "udp">> \notin Halves(ls)
      BY <1>4, <2>1 DEF Halves
    <3>3. \A so \in Sockets : sock'[so] = p <=> so \in Halves(ls)
      BY <1>1, <1>4, <1>5, <2>1, <3>1, <3>2
    <3>4. /\ sock' \in [Sockets -> Procs \cup {None, Foreign}]
          /\ \A q \in Procs \ {p} : \A so \in Sockets :
               sock'[so] = q <=> sock[so] = q
      BY <1>1, <1>4, <1>5, <3>1, <3>2
    <3> QED
      BY <1>2, <1>4, <3>1, <3>3, <3>4, BoundSoFarKeeps
  <2> QED
    BY <2>2, <2>3
<1> QED
  BY <1>6, <1>7

(* writePIDFile, and the removal of the file: only a serving process       *)
(* touches it, and then no other one relies on it.                         *)
LEMMA PidKeeps ==
  ASSUME LifeInv, NEW p \in Procs, NEW m \in Process,
         proc[p].pc \in {"pid", "write", "remove"},
         proc' = [proc EXCEPT ![p] = m],
         sock' = sock, cmd' = cmd, Local(m),
         \A so \in Sockets : MayOwn(m, so) <=> MayOwn(proc[p], so),
         m.pc \in Serving => m.alone = proc[p].alone,
         \/ pidFile' = p /\ m.wrote /\ m.pc \in Serving \ {"pid", "write"}
         \/ pidFile' \notin Procs /\ (m.wrote => m.pc \notin Serving)
  PROVE  LifeInv'
<1>1. /\ Local(proc[p]) /\ Owned(p) /\ Writer(p) /\ Exclusive(p)
      /\ cmd \in Procs \cup {None}
      /\ sock \in [Sockets -> Procs \cup {None, Foreign}]
  BY OfProcess DEF LifeInv, TypeOK
<1>2. proc'[p] = m /\ \A q \in Procs \ {p} : proc'[q] = proc[q]
  BY DEF LifeInv, TypeOK
<1>3. proc[p].pc \in Serving
  BY DEF Serving, Starting
<1>4. \A q \in Procs \ {p} : ProcInv(q)'
  BY <1>2, <1>3, OthersKeep
<1>5. TypeOK'
  BY <1>1, <1>2 DEF LifeInv, TypeOK
<1>6. Owned(p)'
  BY <1>1, <1>2 DEF Owned
<1>7. Writer(p)' /\ Named(p)'
  BY <1>2 DEF Writer, Named
<1>8. Exclusive(p)'
  BY <1>1, <1>2, <1>3 DEF Exclusive
<1> QED
  BY <1>2, <1>4, <1>5, <1>6, <1>7, <1>8 DEF LifeInv, ProcInv

(* The steps that write and remove the PID file.                           *)
LEMMA PidStepsKeep ==
  ASSUME LifeInv, NEW p \in Procs,
         TruncatePid(p) \/ WritePid(p) \/ RemovePid(p)
  PROVE  LifeInv'
<1>1. /\ proc[p] \in Process /\ Local(proc[p]) /\ Writer(p)
      /\ cmd \in Procs \cup {None}
  BY OfProcess
<1>2. sock' = sock /\ cmd' = cmd
  BY DEF TruncatePid, WritePid, RemovePid
<1>3. None \notin Procs /\ Empty \notin Procs
  BY ProcsAssumption
(* The step to "signals", with or without a file.                          *)
<1>4. ASSUME NEW m \in Process, proc[p].pc \in {"pid", "write"},
             m.pc \in Starting,
             m.listeners = proc[p].listeners, m.serving = proc[p].serving,
             m.reload = proc[p].reload, m.pc = "signals" \/ ~m.wrote
      PROVE  Local(m) /\ \A so \in Sockets : MayOwn(m, so) <=> MayOwn(proc[p], so)
  <2>1. Local(m)
    BY <1>1, <1>4 DEF Local, Memory, Listening, WroteLate, Early, Serving,
                      Starting, Services
  <2> QED
    BY <1>4, <2>1 DEF MayOwn, Starting
(* No file is configured, or it cannot be written.                         *)
<1>5. ASSUME proc[p].pc \in {"pid", "write"}, ~proc[p].wrote, pidFile # p,
             pidFile' = pidFile, proc' = [proc EXCEPT ![p].pc = "signals"]
      PROVE  LifeInv'
  <2> DEFINE m == [proc[p] EXCEPT !.pc = "signals"]
  <2>1. /\ m \in Process /\ m.pc = "signals"
        /\ m.listeners = proc[p].listeners /\ m.serving = proc[p].serving
        /\ m.reload = proc[p].reload /\ m.wrote = proc[p].wrote
        /\ m.alone = proc[p].alone
    BY <1>1 DEF Process, Stages, Serving, Starting
  <2>2. proc' = [proc EXCEPT ![p] = m]
    BY <1>5
  <2> HIDE DEF m
  <2>3. Local(m) /\ \A so \in Sockets : MayOwn(m, so) <=> MayOwn(proc[p], so)
    BY <1>4, <1>5, <2>1 DEF Starting
  <2>4. proc[p].pc \in Serving
    BY <1>5 DEF Serving, Starting
  <2> QED
    BY <1>1, <1>2, <1>5, <2>1, <2>2, <2>3, <2>4, LocalStep
<1>6. CASE TruncatePid(p)
  <2>1. proc[p].pc = "pid" /\ ~proc[p].wrote /\ pidFile # p
    BY <1>1, <1>6 DEF TruncatePid, Local, WroteLate, Writer, Serving, Starting
  <2>2. CASE pidFile' = Empty /\ proc' = [proc EXCEPT ![p].pc = "write"]
    <3> DEFINE m == [proc[p] EXCEPT !.pc = "write"]
    <3>1. /\ m \in Process /\ m.pc = "write"
          /\ m.listeners = proc[p].listeners /\ m.serving = proc[p].serving
          /\ m.reload = proc[p].reload /\ m.wrote = proc[p].wrote
          /\ m.alone = proc[p].alone
      BY <1>1 DEF Process, Stages, Serving, Starting
    <3>2. proc' = [proc EXCEPT ![p] = m]
      BY <2>2
    <3> HIDE DEF m
    <3>3. Local(m) /\ \A so \in Sockets : MayOwn(m, so) <=> MayOwn(proc[p], so)
      BY <1>4, <2>1, <3>1 DEF Starting
    <3> QED
      BY <1>2, <1>3, <2>1, <2>2, <3>1, <3>2, <3>3, PidKeeps
  <2> QED
    BY <1>6, <1>5, <2>1, <2>2 DEF TruncatePid
<1>7. CASE WritePid(p)
  <2>1. proc[p].pc = "write" /\ ~proc[p].wrote /\ pidFile # p
    BY <1>1, <1>7 DEF WritePid, Local, WroteLate, Writer, Serving, Starting
  <2>2. CASE /\ pidFile' = p
             /\ proc' = [proc EXCEPT ![p].wrote = TRUE, ![p].pc = "signals"]
    <3> DEFINE m == [proc[p] EXCEPT !.wrote = TRUE, !.pc = "signals"]
    <3>1. m \in Process
      <4>1. [proc[p] EXCEPT !.pc = "signals"] \in Process
        BY <1>1 DEF Process, Stages, Serving, Starting
      <4>2. m = [[proc[p] EXCEPT !.pc = "signals"] EXCEPT !.wrote = TRUE]
        BY <1>1 DEF Process
      <4> QED
        BY <4>1, <4>2, Zenon DEF Process
    <3>2. /\ m.pc = "signals" /\ m.wrote
          /\ m.listeners = proc[p].listeners /\ m.serving = proc[p].serving
          /\ m.reload = proc[p].reload /\ m.alone = proc[p].alone
      BY <1>1 DEF Process
    <3>3. proc' = [proc EXCEPT ![p] = m]
      BY <2>2
    <3> HIDE DEF m
    <3>4. Local(m) /\ \A so \in Sockets : MayOwn(m, so) <=> MayOwn(proc[p], so)
      BY <1>4, <2>1, <3>1, <3>2 DEF Starting
    <3>5. m.pc \in Serving \ {"pid", "write"}
      BY <3>2 DEF Serving, Starting
    <3> QED
      BY <1>2, <2>1, <2>2, <3>1, <3>2, <3>3, <3>4, <3>5, PidKeeps
  <2> QED
    BY <1>7, <1>5, <2>1, <2>2 DEF WritePid
<1>8. CASE RemovePid(p)
  <2> DEFINE m == [proc[p] EXCEPT !.pc = "doh"]
  <2>1. proc[p].pc = "remove" /\ proc' = [proc EXCEPT ![p] = m]
        /\ pidFile' = IF proc[p].wrote THEN None ELSE pidFile
    BY <1>8 DEF RemovePid
  <2>2. /\ m \in Process /\ m.pc = "doh" /\ m.wrote = proc[p].wrote
        /\ m.reload = proc[p].reload
    BY <1>1 DEF Process, Stages, Services
  <2> HIDE DEF m
  <2>3. Local(m)
    BY <1>1, <2>1, <2>2 DEF Local, Memory, Listening, WroteLate, Early, Serving,
                            Starting, Services
  <2>4. \A so \in Sockets : ~MayOwn(m, so) /\ ~MayOwn(proc[p], so)
    BY <2>1, <2>2 DEF MayOwn, Starting
  <2>5. m.pc \notin Serving
    BY <2>2 DEF Serving, Starting
  <2>6. CASE proc[p].wrote
    BY <1>2, <1>3, <2>1, <2>2, <2>3, <2>4, <2>5, <2>6, PidKeeps
  <2>7. CASE ~proc[p].wrote
    <3>1. pidFile' = pidFile /\ pidFile # p
      BY <1>1, <2>1, <2>7 DEF Writer
    <3> QED
      BY <1>1, <1>2, <2>1, <2>2, <2>3, <2>4, <2>5, <3>1, LocalStep
  <2> QED
    BY <2>6, <2>7
<1> QED
  BY <1>6, <1>7, <1>8

(* A step that changes neither the stage nor what is bound to it.          *)
LEMMA SameStage ==
  ASSUME LifeInv, NEW p \in Procs, NEW m \in Process,
         proc' = [proc EXCEPT ![p] = m],
         sock' = sock, pidFile' = pidFile, cmd' \in Procs \cup {None},
         Memory(m), Running(p),
         m.pc = proc[p].pc, m.at = proc[p].at, m.serving = proc[p].serving,
         m.listeners = proc[p].listeners, m.failed = proc[p].failed,
         m.wrote = proc[p].wrote, m.alone = proc[p].alone
  PROVE  LifeInv'
<1>1. Local(proc[p]) /\ Writer(p)
  BY OfProcess
<1>2. Local(m)
  BY <1>1 DEF Local, Listening, WroteLate
<1>3. \A so \in Sockets : MayOwn(m, so) <=> MayOwn(proc[p], so)
  BY DEF MayOwn
<1>4. pidFile = p => m.pc \in Serving \ {"pid", "write"}
  BY <1>1 DEF Writer, Running
<1>5. /\ m.pc \in Serving => proc[p].pc \in Serving /\ m.alone = proc[p].alone
      /\ m.wrote = proc[p].wrote \/ (~m.wrote /\ pidFile # p)
  OBVIOUS
<1> QED
  BY <1>2, <1>3, <1>4, <1>5, LocalStep

(* The SIGHUP goroutine and SIGTERM.                                       *)
LEMMA SignalsKeep ==
  ASSUME LifeInv, NEW p \in Procs, Signals(p) \/ Terminate(p)
  PROVE  LifeInv'
<1>1. /\ proc[p] \in Process /\ Local(proc[p]) /\ cmd \in Procs \cup {None}
  BY OfProcess
<1>2. Running(p) /\ sock' = sock /\ pidFile' = pidFile /\ cmd' = cmd
  BY DEF Signals, ReloadBegins, ReloadEnds, SignalsEnd, Terminate
<1>3. CASE ReloadBegins(p)
  <2> DEFINE m == [proc[p] EXCEPT !.reload = "busy", !.hup = FALSE]
  <2>1. proc' = [proc EXCEPT ![p] = m] /\ proc[p].reload = "idle"
    BY <1>3 DEF ReloadBegins
  <2>2. m \in Process
    <3>1. [proc[p] EXCEPT !.reload = "busy"] \in Process
      BY <1>1 DEF Process
    <3> QED
      BY <3>1, Zenon DEF Process
  <2>3. /\ m.pc = proc[p].pc /\ m.at = proc[p].at /\ m.serving = proc[p].serving
        /\ m.listeners = proc[p].listeners /\ m.failed = proc[p].failed
        /\ m.wrote = proc[p].wrote /\ m.alone = proc[p].alone
        /\ m.sink = proc[p].sink /\ m.up = proc[p].up
        /\ m.notified = proc[p].notified /\ m.reload = "busy"
    BY <1>1 DEF Process
  <2> HIDE DEF m
  <2>4. Memory(m)
    BY <1>1, <2>1, <2>3 DEF Local, Memory
  <2> QED
    BY <1>1, <1>2, <2>1, <2>2, <2>3, <2>4, SameStage
<1>4. CASE ReloadEnds(p)
  <2>1. PICK ql \in {"none", "open"} :
          proc' = [proc EXCEPT ![p].reload = "idle", ![p].hup = FALSE,
                               ![p].sink = ql]
    BY <1>4 DEF ReloadEnds
  <2> DEFINE m == [proc[p] EXCEPT !.reload = "idle", !.hup = FALSE, !.sink = ql]
  <2>2. proc' = [proc EXCEPT ![p] = m] /\ proc[p].reload = "busy"
    BY <1>4, <2>1 DEF ReloadEnds
  <2>3. m \in Process
    <3>1. [proc[p] EXCEPT !.reload = "idle", !.sink = ql] \in Process
      BY <1>1 DEF Process
    <3>2. m = [[proc[p] EXCEPT !.reload = "idle", !.sink = ql] EXCEPT !.hup = FALSE]
      BY <1>1 DEF Process
    <3> QED
      BY <3>1, <3>2, Zenon DEF Process
  <2>4. /\ m.pc = proc[p].pc /\ m.at = proc[p].at /\ m.serving = proc[p].serving
        /\ m.listeners = proc[p].listeners /\ m.failed = proc[p].failed
        /\ m.wrote = proc[p].wrote /\ m.alone = proc[p].alone
        /\ m.up = proc[p].up
        /\ m.notified = proc[p].notified /\ m.reload = "idle"
    BY <1>1 DEF Process
  <2> HIDE DEF m
  <2>5. Memory(m)
    BY <1>1, <1>2, <2>2, <2>4 DEF Local, Memory, Running, Early, Services
  <2> QED
    BY <1>1, <1>2, <2>2, <2>3, <2>4, <2>5, SameStage
<1>5. CASE SignalsEnd(p)
  <2> DEFINE m == [proc[p] EXCEPT !.reload = "ended"]
  <2>1. proc' = [proc EXCEPT ![p] = m] /\ proc[p].reload = "idle"
    BY <1>5 DEF SignalsEnd
  <2>2. m \in Process
    BY <1>1 DEF Process
  <2>3. /\ m.pc = proc[p].pc /\ m.at = proc[p].at /\ m.serving = proc[p].serving
        /\ m.listeners = proc[p].listeners /\ m.failed = proc[p].failed
        /\ m.wrote = proc[p].wrote /\ m.alone = proc[p].alone
        /\ m.sink = proc[p].sink /\ m.up = proc[p].up
        /\ m.notified = proc[p].notified /\ m.reload = "ended"
    BY <1>1 DEF Process
  <2> HIDE DEF m
  <2>4. Memory(m)
    BY <1>1, <2>1, <2>3 DEF Local, Memory
  <2> QED
    BY <1>1, <1>2, <2>1, <2>2, <2>3, <2>4, SameStage
<1>6. CASE Terminate(p)
  <2> DEFINE m == [proc[p] EXCEPT !.term = TRUE]
  <2>1. proc' = [proc EXCEPT ![p] = m]
    BY <1>6 DEF Terminate
  <2>2. m \in Process
    BY <1>1, Zenon DEF Process
  <2>3. /\ m.pc = proc[p].pc /\ m.at = proc[p].at /\ m.serving = proc[p].serving
        /\ m.listeners = proc[p].listeners /\ m.failed = proc[p].failed
        /\ m.wrote = proc[p].wrote /\ m.alone = proc[p].alone
        /\ m.sink = proc[p].sink /\ m.up = proc[p].up
        /\ m.notified = proc[p].notified /\ m.reload = proc[p].reload
    BY <1>1 DEF Process
  <2> HIDE DEF m
  <2>4. Memory(m)
    BY <1>1, <2>3 DEF Local, Memory
  <2> QED
    BY <1>1, <1>2, <2>1, <2>2, <2>3, <2>4, SameStage
<1> QED
  BY <1>3, <1>4, <1>5, <1>6 DEF Signals

(* From the handlers to the deferred calls.                                *)
LEMMA ServeKeeps ==
  ASSUME LifeInv, NEW p \in Procs,
         \/ InstallHandlers(p) \/ ServeEnds(p) \/ ServeReturns(p)
         \/ JoinSignals(p)
  PROVE  LifeInv'
<1>1. /\ proc[p] \in Process /\ Local(proc[p]) /\ cmd \in Procs \cup {None}
  BY OfProcess
<1>2. sock' = sock /\ pidFile' = pidFile /\ cmd' = cmd
  BY DEF InstallHandlers, ServeEnds, ServeReturns, JoinSignals
<1>3. ASSUME NEW m \in Process, proc' = [proc EXCEPT ![p] = m],
             proc[p].pc \in Serving, m.pc \in Serving \ {"pid", "write"},
             Memory(m), Listening(m),
             \A so \in Sockets : MayOwn(m, so) <=> MayOwn(proc[p], so),
             m.wrote = proc[p].wrote, m.alone = proc[p].alone
      PROVE  LifeInv'
  <2>1. WroteLate(m)
    BY <1>3 DEF WroteLate, Serving, Starting, Early
  <2> QED
    BY <1>1, <1>2, <1>3, <2>1, LocalStep DEF Local
<1>4. CASE InstallHandlers(p)
  <2> DEFINE sv == proc[p].serving \cup (proc[p].listeners \X {"udp", "tcp"})
             m == [proc[p] EXCEPT !.notified = TRUE, !.reload = "idle",
                                  !.serving = sv, !.pc = "serve"]
  <2>1. proc' = [proc EXCEPT ![p] = m] /\ proc[p].pc = "signals"
    BY <1>4 DEF InstallHandlers
  <2>2. sv \in SUBSET Sockets /\ sv = Halves(proc[p].listeners)
    BY <1>1, <2>1 DEF Process, Sockets, Addresses, Halves, Local, Memory, Starting
  <2> HIDE DEF sv
  <2>3. m \in Process
    <3>1. [proc[p] EXCEPT !.reload = "idle", !.serving = sv, !.pc = "serve"]
            \in Process
      BY <1>1, <2>2 DEF Process, Stages, Serving
    <3>2. m = [[proc[p] EXCEPT !.reload = "idle", !.serving = sv, !.pc = "serve"]
                 EXCEPT !.notified = TRUE]
      BY <1>1 DEF Process
    <3> QED
      BY <3>1, <3>2, Zenon DEF Process
  <2>4. /\ m.pc = "serve" /\ m.notified /\ m.serving = sv
        /\ m.listeners = proc[p].listeners
        /\ m.wrote = proc[p].wrote /\ m.alone = proc[p].alone
    BY <1>1 DEF Process
  <2> HIDE DEF m
  <2>5. Memory(m) /\ Listening(m)
    BY <1>1, <2>1, <2>2, <2>4 DEF Local, Memory, Listening, Early, Serving,
                                  Starting, Services
  <2>6. \A so \in Sockets : MayOwn(m, so) <=> MayOwn(proc[p], so)
    BY <2>1, <2>2, <2>4 DEF MayOwn, Starting
  <2>7. proc[p].pc \in Serving /\ m.pc \in Serving \ {"pid", "write"}
    BY <2>1, <2>4 DEF Serving, Starting
  <2> QED
    BY <1>3, <2>1, <2>3, <2>4, <2>5, <2>6, <2>7
<1>5. CASE ServeEnds(p)
  <2> DEFINE m == [proc[p] EXCEPT !.pc = "close"]
  <2>1. proc' = [proc EXCEPT ![p] = m] /\ proc[p].pc = "serve"
    BY <1>5 DEF ServeEnds
  <2>2. /\ m \in Process /\ m.pc = "close" /\ m.serving = proc[p].serving
        /\ m.listeners = proc[p].listeners /\ m.notified = proc[p].notified
        /\ m.wrote = proc[p].wrote /\ m.alone = proc[p].alone
    BY <1>1 DEF Process, Stages, Serving
  <2> HIDE DEF m
  <2>3. Memory(m) /\ Listening(m)
    BY <1>1, <2>1, <2>2 DEF Local, Memory, Listening, Early, Serving, Starting,
                            Services
  <2>4. \A so \in Sockets : MayOwn(m, so) <=> MayOwn(proc[p], so)
    BY <2>1, <2>2 DEF MayOwn, Starting
  <2>5. proc[p].pc \in Serving /\ m.pc \in Serving \ {"pid", "write"}
    BY <2>1, <2>2 DEF Serving, Starting
  <2> QED
    BY <1>3, <2>1, <2>2, <2>3, <2>4, <2>5
<1>6. CASE ServeReturns(p)
  <2> DEFINE m == [proc[p] EXCEPT !.notified = FALSE, !.sigDone = TRUE,
                                  !.pc = "join"]
  <2>1. proc' = [proc EXCEPT ![p] = m] /\ proc[p].pc = "close"
        /\ proc[p].serving = {}
    BY <1>6 DEF ServeReturns
  <2>2. m \in Process
    <3>1. [proc[p] EXCEPT !.pc = "join"] \in Process
      BY <1>1 DEF Process, Stages, Serving
    <3>2. [[proc[p] EXCEPT !.pc = "join"] EXCEPT !.notified = FALSE] \in Process
      BY <3>1, Zenon DEF Process
    <3>3. [[[proc[p] EXCEPT !.pc = "join"] EXCEPT !.notified = FALSE]
             EXCEPT !.sigDone = TRUE] \in Process
      BY <3>2, Zenon DEF Process
    <3>4. m = [[[proc[p] EXCEPT !.pc = "join"] EXCEPT !.notified = FALSE]
                 EXCEPT !.sigDone = TRUE]
      BY <1>1 DEF Process
    <3> QED
      BY <3>3, <3>4
  <2>3. /\ m.pc = "join" /\ m.listeners = proc[p].listeners
        /\ m.wrote = proc[p].wrote /\ m.alone = proc[p].alone
    BY <1>1 DEF Process
  <2> HIDE DEF m
  <2>4. Memory(m) /\ Listening(m)
    BY <1>1, <2>1, <2>3 DEF Local, Memory, Listening, Early, Serving, Starting,
                            Services
  <2>5. \A so \in Sockets : MayOwn(m, so) <=> MayOwn(proc[p], so)
    BY <2>1, <2>3 DEF MayOwn, Starting
  <2>6. proc[p].pc \in Serving /\ m.pc \in Serving \ {"pid", "write"}
    BY <2>1, <2>3 DEF Serving, Starting
  <2> QED
    BY <1>3, <2>1, <2>2, <2>3, <2>4, <2>5, <2>6
<1>7. CASE JoinSignals(p)
  <2> DEFINE m == [proc[p] EXCEPT !.pc = "remove"]
  <2>1. proc' = [proc EXCEPT ![p] = m] /\ proc[p].pc = "join"
        /\ proc[p].reload = "ended"
    BY <1>7 DEF JoinSignals
  <2>2. /\ m \in Process /\ m.pc = "remove" /\ m.reload = "ended"
        /\ m.listeners = proc[p].listeners
        /\ m.wrote = proc[p].wrote /\ m.alone = proc[p].alone
    BY <1>1, <2>1 DEF Process, Stages, Serving
  <2> HIDE DEF m
  <2>3. Memory(m) /\ Listening(m)
    BY <1>1, <2>1, <2>2 DEF Local, Memory, Listening, Early, Serving, Starting,
                            Services
  <2>4. \A so \in Sockets : MayOwn(m, so) <=> MayOwn(proc[p], so)
    BY <2>1, <2>2 DEF MayOwn, Starting
  <2>5. proc[p].pc \in Serving /\ m.pc \in Serving \ {"pid", "write"}
    BY <2>1, <2>2 DEF Serving, Starting
  <2> QED
    BY <1>3, <2>1, <2>2, <2>3, <2>4, <2>5
<1> QED
  BY <1>4, <1>5, <1>6, <1>7

(* The last deferred calls.                                                *)
LEMMA StopKeeps ==
  ASSUME LifeInv, NEW p \in Procs,
         CloseSink(p) \/ \E s \in Services : StopService(p, s)
  PROVE  LifeInv'
<1>1. /\ proc[p] \in Process /\ Local(proc[p]) /\ Writer(p)
      /\ cmd \in Procs \cup {None}
  BY OfProcess
<1>2. /\ proc[p].pc \in Services \cup {"sink"}
      /\ sock' = sock /\ pidFile' = pidFile /\ cmd' = cmd
  BY DEF CloseSink, StopService
<1>3. pidFile # p
  BY <1>1, <1>2 DEF Writer, Serving, Starting, Services
<1>4. ASSUME NEW m \in Process, proc' = [proc EXCEPT ![p] = m], Memory(m),
             m.pc \in {"metrics", "api", "sink", "exited"},
             m.wrote = proc[p].wrote \/ ~m.wrote
      PROVE  LifeInv'
  <2>1. Local(m)
    BY <1>4 DEF Local, Listening, WroteLate, Early
  <2>2. \A so \in Sockets : ~MayOwn(m, so) /\ ~MayOwn(proc[p], so)
    BY <1>2, <1>4 DEF MayOwn, Starting, Services
  <2>3. m.pc \notin Serving
    BY <1>4 DEF Serving, Starting
  <2> QED
    BY <1>1, <1>2, <1>3, <1>4, <2>1, <2>2, <2>3, LocalStep
<1>5. ASSUME NEW s \in Services, StopService(p, s)
      PROVE  LifeInv'
  <2> DEFINE m == [proc[p] EXCEPT !.up = @ \ {s}, !.pc = After[s]]
  <2>1. proc' = [proc EXCEPT ![p] = m] /\ proc[p].pc = s
    BY <1>5 DEF StopService
  <2>2. /\ After[s] \in {"metrics", "api", "sink"}
        /\ s = "doh" => After[s] = "metrics"
        /\ s = "metrics" => After[s] = "api"
        /\ s = "api" => After[s] = "sink"
    BY DEF After, Services
  <2>3. m \in Process
    BY <1>1, <2>2 DEF Process, Stages, Services
  <2>4. /\ m.pc = After[s] /\ m.up = proc[p].up \ {s} /\ m.wrote = proc[p].wrote
        /\ m.reload = proc[p].reload
    BY <1>1 DEF Process
  <2> HIDE DEF m
  <2>5. Memory(m)
    BY <1>1, <2>1, <2>2, <2>4 DEF Process, Local, Memory, Early, Serving,
                                  Starting, Services
  <2> QED
    BY <1>4, <2>1, <2>2, <2>3, <2>4, <2>5
<1>6. CASE CloseSink(p)
  <2> DEFINE sk == IF proc[p].sink = "open" THEN "closed" ELSE "none"
             m == [New EXCEPT !.pc = "exited", !.sink = sk, !.up = proc[p].up,
                              !.reload = proc[p].reload]
  <2>1. proc' = [proc EXCEPT ![p] = m] /\ proc[p].pc = "sink"
    BY <1>6 DEF CloseSink
  <2>2. sk \in {"none", "closed"}
    OBVIOUS
  <2> HIDE DEF sk
  <2>3. New \in Process
    BY AddrsAssumption DEF New, Process, Stages, Early
  <2>4. m \in Process
    BY <1>1, <2>2, <2>3 DEF Process, Stages
  <2>5. /\ m.pc = "exited" /\ m.sink = sk /\ m.up = proc[p].up
        /\ m.reload = proc[p].reload /\ ~m.wrote
    BY DEF New
  <2> HIDE DEF m
  <2>6. Memory(m)
    BY <1>1, <2>1, <2>2, <2>5 DEF Local, Memory, Early, Serving, Starting, Services
  <2> QED
    BY <1>4, <2>1, <2>4, <2>5, <2>6
<1> QED
  BY <1>5, <1>6

(* A listener fails, or is closed.                                         *)
LEMMA ListenerKeeps ==
  ASSUME LifeInv, NEW p \in Procs, NEW so \in Sockets,
         ListenerDies(p, so) \/ CloseListener(p, so)
  PROVE  LifeInv'
<1>1. /\ proc[p] \in Process /\ Local(proc[p]) /\ Writer(p) /\ Owned(p)
      /\ cmd \in Procs \cup {None}
      /\ sock \in [Sockets -> Procs \cup {None, Foreign}]
  BY OfProcess DEF LifeInv, TypeOK
<1>2. /\ proc[p].pc \in {"serve", "close"} /\ so \in proc[p].serving
      /\ sock' = [sock EXCEPT ![so] = None]
      /\ pidFile' = pidFile /\ cmd' = cmd
  BY DEF ListenerDies, CloseListener
<1>3. None \notin Procs
  BY ProcsAssumption
<1>4. \A x \in Sockets : sock[x] = p <=> x \in proc[p].serving
  BY <1>1, <1>2 DEF Owned, MayOwn, Starting
<1>5. /\ sock' \in [Sockets -> Procs \cup {None, Foreign}]
      /\ \A x \in Sockets : sock'[x] = p <=> x \in proc[p].serving \ {so}
      /\ \A q \in Procs \ {p} : \A x \in Sockets : sock'[x] = q <=> sock[x] = q
  BY <1>1, <1>2, <1>3, <1>4
<1>6. ASSUME NEW m \in Process, proc' = [proc EXCEPT ![p] = m],
             m.pc = proc[p].pc, m.serving = proc[p].serving \ {so},
             m.listeners = proc[p].listeners, m.notified = proc[p].notified,
             m.pc = "serve" => m.failed,
             m.wrote = proc[p].wrote, m.alone = proc[p].alone
      PROVE  LifeInv'
  <2>1. Local(m)
    BY <1>1, <1>2, <1>6 DEF Local, Memory, Listening, WroteLate, Early, Serving,
                            Starting, Services
  <2>2. \A x \in Sockets : sock'[x] = p <=> MayOwn(m, x)
    BY <1>2, <1>5, <1>6 DEF MayOwn, Starting
  <2>3. m.pc \in Serving \ {"pid", "write"}
    BY <1>2, <1>6 DEF Serving, Starting
  <2> QED
    BY <1>1, <1>2, <1>5, <1>6, <2>1, <2>2, <2>3, SocketStep
<1>7. CASE ListenerDies(p, so)
  <2> DEFINE m == [proc[p] EXCEPT !.serving = @ \ {so}, !.failed = TRUE]
  <2>1. proc' = [proc EXCEPT ![p] = m]
    BY <1>7 DEF ListenerDies
  <2>2. m \in Process
    <3>1. [proc[p] EXCEPT !.serving = @ \ {so}] \in Process
      BY <1>1 DEF Process
    <3> QED
      BY <3>1, Zenon DEF Process
  <2>3. /\ m.pc = proc[p].pc /\ m.serving = proc[p].serving \ {so}
        /\ m.listeners = proc[p].listeners /\ m.notified = proc[p].notified
        /\ m.failed /\ m.wrote = proc[p].wrote /\ m.alone = proc[p].alone
    BY <1>1 DEF Process
  <2> QED
    BY <1>6, <2>1, <2>2, <2>3
<1>8. CASE CloseListener(p, so)
  <2> DEFINE m == [proc[p] EXCEPT !.serving = @ \ {so}]
  <2>1. proc' = [proc EXCEPT ![p] = m] /\ proc[p].pc = "close"
    BY <1>8 DEF CloseListener
  <2>2. /\ m \in Process
        /\ m.pc = proc[p].pc /\ m.serving = proc[p].serving \ {so}
        /\ m.listeners = proc[p].listeners /\ m.notified = proc[p].notified
        /\ m.wrote = proc[p].wrote /\ m.alone = proc[p].alone
    BY <1>1 DEF Process
  <2> QED
    BY <1>6, <2>1, <2>2
<1> QED
  BY <1>7, <1>8

(* A process dies: the kernel closes its sockets, the PID file stays.      *)
LEMMA KilledKeeps ==
  ASSUME LifeInv, NEW p \in Procs, Running(p), Killed(p),
         pidFile' = pidFile, cmd' \in Procs \cup {None}
  PROVE  LifeInv'
<1> DEFINE m == [New EXCEPT !.pc = "killed"]
<1>1. /\ proc' = [proc EXCEPT ![p] = m]
      /\ sock' = [so \in Sockets |-> IF sock[so] = p THEN None ELSE sock[so]]
      /\ proc \in [Procs -> Process]
      /\ sock \in [Sockets -> Procs \cup {None, Foreign}]
  BY DEF Killed, LifeInv, TypeOK
<1>2. New \in Process
  BY AddrsAssumption DEF New, Process, Stages, Early
<1>3. m \in Process
  BY <1>2 DEF Process, Stages
<1>4. m.pc = "killed" /\ ~m.wrote
  BY DEF New
<1> HIDE DEF m
<1>5. proc'[p] = m /\ \A q \in Procs \ {p} : proc'[q] = proc[q]
  BY <1>1
<1>6. None \notin Procs
  BY ProcsAssumption
<1>7. /\ \A so \in Sockets : sock'[so] # p
      /\ \A q \in Procs \ {p} : \A so \in Sockets :
           sock'[so] = q <=> sock[so] = q
  BY <1>1, <1>6
<1>8. m.pc \notin Serving
  BY <1>4 DEF Serving, Starting
<1>9. \A q \in Procs \ {p} : ProcInv(q)'
  BY <1>5, <1>7, <1>8, OthersKeep
<1>10. TypeOK'
  BY <1>1, <1>3 DEF TypeOK
<1>11. ProcInv(p)'
  <2>1. Local(m)
    BY <1>4 DEF Local, Memory, Listening, WroteLate, Early, Serving, Starting,
                Services
  <2>2. \A so \in Sockets : ~MayOwn(m, so)
    BY <1>4 DEF MayOwn, Starting
  <2>3. Owned(p)'
    BY <1>5, <1>7, <2>2 DEF Owned
  <2>4. Writer(p)' /\ Named(p)' /\ Exclusive(p)'
    BY <1>4, <1>5, <1>8 DEF Writer, Named, Exclusive
  <2> QED
    BY <1>5, <2>1, <2>3, <2>4 DEF ProcInv
<1> QED
  BY <1>9, <1>10, <1>11 DEF LifeInv

(* The reload command: a handler receives its SIGHUP, or it kills.         *)
LEMMA CommandKeeps ==
  ASSUME LifeInv, ReadPid \/ SendHangup
  PROVE  LifeInv'
<1>1. ASSUME UNCHANGED <<proc, sock, pidFile>>, cmd' \in Procs \cup {None}
      PROVE  LifeInv'
  <2>1. TypeOK'
    BY <1>1 DEF LifeInv, TypeOK
  <2>2. ASSUME NEW p \in Procs PROVE ProcInv(p)'
    <3>1. ProcInv(p)
      BY DEF LifeInv
    <3> QED
      BY <1>1, <3>1 DEF ProcInv, Local, Memory, Listening, WroteLate, Owned,
                        MayOwn, Writer, Named, Exclusive
  <2> QED
    BY <2>1, <2>2 DEF LifeInv
<1>2. CASE ReadPid
  BY <1>1, <1>2 DEF ReadPid
<1>3. CASE SendHangup
  <2>1. cmd \in Procs /\ cmd' = None /\ pidFile' = pidFile
    BY <1>3 DEF SendHangup, LifeInv, TypeOK
  <2>2. CASE ~Running(cmd)
    BY <1>1, <1>3, <2>1, <2>2 DEF SendHangup
  <2>3. CASE Running(cmd) /\ ~proc[cmd].notified
    <3>1. Killed(cmd)
      BY <1>3, <2>3 DEF SendHangup, Hangup
    <3> QED
      BY <2>1, <2>3, <3>1, KilledKeeps
  <2>4. CASE Running(cmd) /\ proc[cmd].notified
    <3> DEFINE m == [proc[cmd] EXCEPT !.hup = TRUE]
    <3>1. proc' = [proc EXCEPT ![cmd] = m] /\ sock' = sock
      BY <1>3, <2>4 DEF SendHangup, Hangup
    <3>2. proc[cmd] \in Process /\ Local(proc[cmd])
      BY <2>1, OfProcess
    <3>3. m \in Process
      BY <3>2, Zenon DEF Process
    <3>4. /\ m.pc = proc[cmd].pc /\ m.at = proc[cmd].at
          /\ m.serving = proc[cmd].serving /\ m.listeners = proc[cmd].listeners
          /\ m.failed = proc[cmd].failed /\ m.wrote = proc[cmd].wrote
          /\ m.alone = proc[cmd].alone /\ m.sink = proc[cmd].sink
          /\ m.up = proc[cmd].up /\ m.notified = proc[cmd].notified
          /\ m.reload = proc[cmd].reload
      BY <3>2 DEF Process
    <3> HIDE DEF m
    <3>5. Memory(m)
      BY <3>2, <3>4 DEF Local, Memory
    <3> QED
      BY <2>1, <2>4, <3>1, <3>3, <3>4, <3>5, SameStage
  <2> QED
    BY <2>2, <2>3, <2>4
<1> QED
  BY <1>2, <1>3
----------------------------------------------------------------------------
(* The state of a machine on which nothing was started.                    *)
LEMMA InitLifeInv == Init => LifeInv
<1> SUFFICES ASSUME Init PROVE LifeInv
  OBVIOUS
<1>1. New \in Process
  BY AddrsAssumption DEF New, Process, Stages, Early
<1>2. TypeOK
  BY <1>1 DEF Init, TypeOK
<1>3. ASSUME NEW p \in Procs PROVE ProcInv(p)
  <2>1. proc[p] = New /\ pidFile # p /\ \A so \in Sockets : sock[so] # p
    BY ProcsAssumption DEF Init
  <2>2. /\ New.pc = "idle" /\ New.listeners = {} /\ New.serving = {}
        /\ New.sink = "none" /\ New.up = {} /\ New.reload = "none" /\ ~New.wrote
    BY DEF New
  <2>3. Local(New)
    BY <2>2 DEF Local, Memory, Listening, WroteLate, Early, Serving, Starting,
                Services
  <2>4. \A so \in Sockets : ~MayOwn(New, so)
    BY <2>2 DEF MayOwn, Starting
  <2> QED
    BY <2>1, <2>2, <2>3, <2>4 DEF ProcInv, Owned, Writer, Named, Exclusive,
                                  Serving, Starting
<1> QED
  BY <1>2, <1>3 DEF LifeInv

(* Every step of a process, of the operating system and of the command.    *)
LEMMA NextLifeInv == LifeInv /\ [Next]_vars => LifeInv'
<1> SUFFICES ASSUME LifeInv, [Next]_vars PROVE LifeInv'
  OBVIOUS
<1>1. ASSUME NEW p \in Procs, Launch(p) \/ Main(p) PROVE LifeInv'
  BY <1>1, LoadKeeps, BindKeeps, PidStepsKeep, ServeKeeps, StopKeeps DEF Main
<1>2. ASSUME NEW p \in Procs, Signals(p) \/ Terminate(p) PROVE LifeInv'
  BY <1>2, SignalsKeep
<1>3. ASSUME NEW p \in Procs, Crash(p) PROVE LifeInv'
  <2>1. cmd' \in Procs \cup {None}
    BY <1>3 DEF Crash, LifeInv, TypeOK
  <2> QED
    BY <1>3, <2>1, KilledKeeps DEF Crash
<1>4. ASSUME NEW p \in Procs, NEW so \in Sockets,
             ListenerDies(p, so) \/ CloseListener(p, so)
      PROVE  LifeInv'
  BY <1>4, ListenerKeeps
<1>5. CASE ReadPid \/ SendHangup
  BY <1>5, CommandKeeps
<1>6. CASE UNCHANGED vars
  BY <1>6 DEF vars, LifeInv, TypeOK, ProcInv, Local, Memory, Listening,
              WroteLate, Owned, MayOwn, Writer, Named, Exclusive
<1> QED
  BY <1>1, <1>2, <1>3, <1>4, <1>5, <1>6 DEF Next

(* What a process owns and what its stage has set, of run() and the        *)
(* listeners, holds in every state.                                        *)
THEOREM LifeInvariance == Spec => []LifeInv
BY InitLifeInv, NextLifeInv, PTL DEF Spec

(* The PID file names a serving process that wrote it while no other       *)
(* process of the program holds a listener, and a file that names a        *)
(* running process promises its listeners and its SIGHUP handler (run and  *)
(* writePIDFile), for any number of processes and addresses.               *)
THEOREM PidFileIsTrue == Spec => []PidFileTruth
<1>1. LifeInv => PidFileTruth
  <2> SUFFICES ASSUME LifeInv, NEW p \in Procs
               PROVE  /\ proc[p].pc = "serve" /\ proc[p].wrote /\ proc[p].alone
                            => pidFile = p
                      /\ pidFile = p /\ Running(p) =>
                           /\ proc[p].pc \in {"signals", "serve"} =>
                                \/ proc[p].failed
                                \/ \E a \in proc[p].listeners :
                                     \A so \in {a} \X {"udp", "tcp"} : sock[so] = p
                           /\ proc[p].notified
                                \/ proc[p].pc \in {"signals", "join", "remove"}
    BY DEF PidFileTruth, PidNamesServer, PidMeansReady
  <2>1. /\ proc[p] \in Process /\ Local(proc[p]) /\ Owned(p) /\ Writer(p)
        /\ Named(p)
    BY OfProcess
  <2>2. proc[p].pc = "serve" /\ proc[p].wrote /\ proc[p].alone => pidFile = p
    BY <2>1 DEF Named, Serving
  <2>3. ASSUME pidFile = p, Running(p), proc[p].pc \in {"signals", "serve"},
               ~proc[p].failed
        PROVE  \E a \in proc[p].listeners :
                 \A so \in {a} \X {"udp", "tcp"} : sock[so] = p
    <3>1. PICK a \in proc[p].listeners : TRUE
      BY <2>1, <2>3 DEF Local, Memory, Serving, Starting
    <3>2. ASSUME NEW so \in {a} \X {"udp", "tcp"} PROVE sock[so] = p
      <4>1. so \in Halves(proc[p].listeners) /\ so \in Sockets
        BY <2>1, <3>1 DEF Halves, Process, Addresses, Sockets
      <4>2. MayOwn(proc[p], so)
        BY <2>1, <2>3, <4>1 DEF MayOwn, Local, Listening, Starting
      <4> QED
        BY <2>1, <4>1, <4>2 DEF Owned
    <3> QED
      BY <3>1, <3>2
  <2>4. pidFile = p /\ Running(p) =>
          proc[p].notified \/ proc[p].pc \in {"signals", "join", "remove"}
    BY <2>1 DEF Writer, Running, Local, Memory, Serving, Starting
  <2> QED
    BY <2>2, <2>3, <2>4
<1> QED
  BY <1>1, LifeInvariance, PTL

(* When run() returns, on every path, its sockets and its query log are    *)
(* closed, its servers have ended, no reload is in progress and the PID    *)
(* file does not name it.                                                  *)
THEOREM NothingIsLeftBehind == Spec => []NothingLeftBehind
<1>1. LifeInv => NothingLeftBehind
  <2> SUFFICES ASSUME LifeInv, NEW p \in Procs, proc[p].pc = "exited"
               PROVE  /\ \A so \in Sockets : sock[so] # p
                      /\ proc[p].sink # "open"
                      /\ proc[p].up = {}
                      /\ proc[p].reload \in {"none", "ended"}
                      /\ pidFile # p
    BY DEF NothingLeftBehind
  <2>1. Local(proc[p]) /\ Owned(p) /\ Writer(p)
    BY OfProcess
  <2>2. \A so \in Sockets : sock[so] # p
    BY <2>1 DEF Owned, MayOwn, Starting
  <2>3. pidFile # p
    BY <2>1 DEF Writer, Serving, Starting
  <2> QED
    BY <2>1, <2>2, <2>3 DEF Local, Memory
<1> QED
  BY <1>1, LifeInvariance, PTL
----------------------------------------------------------------------------
(* What a dispatch has to go through, and the keys of a part of it.        *)
All(d) == UNION {Items(z) : z \in Loads[d]}
KeysOf(items) == {<<i.origin, i.host, i.ip>> : i \in items}

(* The longest time up to the end of each wait.                            *)
Budget == CHOOSE b \in [0 .. Len(Backoff) - 1 -> 0 .. Deadline - 1] :
            \A j \in DOMAIN b :
              b[j] = IF j = 0 THEN 0 ELSE b[j - 1] + ExchangeTimeout + Backoff[j]

Send == [pc : {"off", "check", "exchange", "answered", "wait", "ended"},
         starts : Nat, attempts : Nat, age : Nat, cut : BOOLEAN]

NotifyTypeOK ==
  /\ DOMAIN todo = Dispatches /\ DOMAIN seen = Dispatches
  /\ sends \in [Dispatches -> [Keys -> Send]]

(* A dispatch that began has seen the keys of what it went through.        *)
Progress(d) ==
  /\ todo[d] \subseteq All(d)
  /\ \/ todo[d] = {} /\ seen[d] = {}
     \/ seen[d] = KeysOf(All(d) \ todo[d])

(* A goroutine runs for each key that was seen, and only one.              *)
Started(d, k) ==
  IF k \in seen[d] THEN sends[d][k].starts = 1 ELSE sends[d][k] = Idle

(* The age of a goroutine before and after each attempt.                   *)
SendInv(g) ==
  /\ g.age <= Deadline + ExchangeTimeout
  /\ g.pc = "check" =>
       /\ g.attempts <= Len(Backoff) /\ g.age <= Deadline
       /\ g.attempts < Len(Backoff) => g.age <= Budget[g.attempts]
  /\ g.pc = "exchange" =>
       /\ g.attempts \in 1 .. Len(Backoff) + 1 /\ g.age < Deadline
       /\ g.attempts <= Len(Backoff) => g.age <= Budget[g.attempts - 1]
  /\ g.pc = "wait" =>
       /\ g.attempts \in 1 .. Len(Backoff)
       /\ g.attempts < Len(Backoff) =>
            g.age + Backoff[g.attempts] <= Budget[g.attempts]
  /\ g.pc = "ended" /\ ~g.cut =>
       \/ g.attempts = Len(Backoff) + 1
       \/ g.attempts = Len(Backoff) /\ g.age >= Deadline

(* The inductive invariant.                                                *)
NotifyInv ==
  /\ NotifyTypeOK
  /\ \A d \in Dispatches :
       /\ Progress(d)
       /\ \A k \in Keys : Started(d, k) /\ SendInv(sends[d][k])
----------------------------------------------------------------------------
(* The assumption on the backoff and the deadline, unfolded.               *)
LEMMA BudgetFacts ==
  /\ Len(Backoff) \in Nat /\ Deadline \in Nat /\ ExchangeTimeout \in Nat
  /\ \A j \in 1 .. Len(Backoff) : Backoff[j] \in Nat
  /\ \A j \in 0 .. Len(Backoff) - 1 :
       Budget[j] \in Nat /\ Budget[j] < Deadline
  /\ 0 < Len(Backoff) => Budget[0] = 0
  /\ \A j \in 1 .. Len(Backoff) - 1 :
       Budget[j] = Budget[j - 1] + ExchangeTimeout + Backoff[j]
<1>1. /\ Len(Backoff) \in Nat /\ Deadline \in Nat /\ ExchangeTimeout \in Nat
      /\ \A j \in 1 .. Len(Backoff) : Backoff[j] \in Nat
  BY NotifyAssumption
<1>2. /\ Budget \in [0 .. Len(Backoff) - 1 -> 0 .. Deadline - 1]
      /\ \A j \in DOMAIN Budget :
           Budget[j] = IF j = 0 THEN 0
                       ELSE Budget[j - 1] + ExchangeTimeout + Backoff[j]
  BY BudgetAssumption DEF Budget
<1>3. DOMAIN Budget = 0 .. Len(Backoff) - 1
  BY <1>2
<1>4. \A j \in 0 .. Len(Backoff) - 1 : Budget[j] \in 0 .. Deadline - 1
  BY <1>2
<1>5. 0 < Len(Backoff) => Budget[0] = 0
  BY <1>1, <1>2, <1>3
<1>6. \A j \in 1 .. Len(Backoff) - 1 :
        Budget[j] = Budget[j - 1] + ExchangeTimeout + Backoff[j]
  BY <1>1, <1>2, <1>3
<1> QED
  BY <1>1, <1>4, <1>5, <1>6

(* A step of one goroutine.                                                *)
LEMMA SendStep ==
  ASSUME NotifyInv, NEW d \in Dispatches, NEW k \in Keys, NEW g \in Send,
         sends[d][k].pc # "off",
         sends' = [sends EXCEPT ![d][k] = g],
         UNCHANGED <<todo, seen>>,
         g.starts = sends[d][k].starts, SendInv(g)
  PROVE  NotifyInv'
<1>1. sends \in [Dispatches -> [Keys -> Send]] /\ Started(d, k)
  BY DEF NotifyInv, NotifyTypeOK
<1>2. k \in seen[d]
  BY <1>1 DEF Started, Idle
<1>3. /\ sends' \in [Dispatches -> [Keys -> Send]]
      /\ sends'[d][k] = g
      /\ \A e \in Dispatches : \A x \in Keys :
           e # d \/ x # k => sends'[e][x] = sends[e][x]
  BY <1>1
<1>4. NotifyTypeOK' /\ \A e \in Dispatches : Progress(e)'
  BY <1>3 DEF NotifyInv, NotifyTypeOK, Progress
<1>5. ASSUME NEW e \in Dispatches, NEW x \in Keys
      PROVE  Started(e, x)' /\ SendInv(sends[e][x])'
  <2>1. Started(e, x) /\ SendInv(sends[e][x])
    BY DEF NotifyInv
  <2>2. CASE e = d /\ x = k
    BY <1>1, <1>2, <1>3, <2>2 DEF Started
  <2>3. CASE e # d \/ x # k
    <3>1. sends'[e][x] = sends[e][x]
      BY <1>3, <2>3
    <3> QED
      BY <2>1, <3>1 DEF Started
  <2> QED
    BY <2>2, <2>3
<1> QED
  BY <1>4, <1>5 DEF NotifyInv

(* The steps of sendNotifyWithBackoff.                                     *)
LEMMA GoroutineKeeps ==
  ASSUME NotifyInv, NEW d \in Dispatches, NEW k \in Keys,
         \/ Check(d, k) \/ Reply(d, k) \/ NoReply(d, k)
         \/ WaitOver(d, k) \/ WaitCut(d, k)
  PROVE  NotifyInv'
<1> DEFINE s == sends[d][k]
           n == Len(Backoff)
<1>1. /\ s \in Send /\ SendInv(s)
      /\ sends \in [Dispatches -> [Keys -> Send]]
  BY DEF NotifyInv, NotifyTypeOK
<1>2. UNCHANGED <<todo, seen>> /\ s.pc # "off"
  BY DEF Check, Reply, NoReply, WaitOver, WaitCut
<1>3. (d \in cancelled) \in BOOLEAN
  OBVIOUS
<1>4. /\ s.pc \in {"off", "check", "exchange", "answered", "wait", "ended"}
      /\ s.attempts \in Nat /\ s.age \in Nat
  BY <1>1 DEF Send
(* Ends, of a goroutine that was cancelled or is late.                     *)
<1>5. ASSUME Ends(d, k),
             \/ d \in cancelled
             \/ s.attempts = n /\ s.age >= Deadline
      PROVE  NotifyInv'
  <2> DEFINE g == [s EXCEPT !.pc = "ended", !.cut = d \in cancelled]
  <2>1. sends' = [sends EXCEPT ![d][k] = g]
    BY <1>1, <1>5 DEF Ends
  <2>2. [s EXCEPT !.pc = "ended"] \in Send
    BY <1>1 DEF Send
  <2>3. g \in Send
    BY <1>3, <2>2, Zenon DEF Send
  <2>4. /\ g.pc = "ended" /\ g.cut = (d \in cancelled)
        /\ g.attempts = s.attempts /\ g.age = s.age /\ g.starts = s.starts
    BY <1>1 DEF Send
  <2> HIDE DEF g
  <2>5. SendInv(g)
    BY <1>1, <1>5, <2>4 DEF SendInv
  <2> HIDE DEF s
  <2> QED
    BY <1>2, <2>1, <2>3, <2>4, <2>5, SendStep DEF s
<1>6. CASE Check(d, k)
  <2>1. s.pc = "check" /\ s.attempts <= n /\ s.age <= Deadline
        /\ (s.attempts < n => s.age <= Budget[s.attempts])
    BY <1>1, <1>6 DEF Check, SendInv
  <2>2. CASE Done(d, k)
    <3>1. s.age >= Deadline => s.attempts = n
      BY <1>4, <2>1, BudgetFacts
    <3> QED
      BY <1>5, <1>6, <2>2, <3>1 DEF Check, Done
  <2>3. CASE ~Done(d, k)
    <3> DEFINE g == [s EXCEPT !.pc = "exchange", !.attempts = @ + 1]
    <3>1. sends' = [sends EXCEPT ![d][k] = g]
      BY <1>1, <1>6, <2>3 DEF Check
    <3>2. g \in Send
      <4>1. s.attempts + 1 \in Nat
        BY <1>4
      <4> QED
        BY <1>1, <4>1 DEF Send
    <3>3. /\ g.pc = "exchange" /\ g.attempts = s.attempts + 1
          /\ g.age = s.age /\ g.starts = s.starts
      BY <1>1 DEF Send
    <3>4. s.age < Deadline
      BY <1>4, <2>1, <2>3, BudgetFacts DEF Done
    <3> HIDE DEF g
    <3>5. SendInv(g)
      BY <1>1, <1>4, <2>1, <3>3, <3>4, BudgetFacts DEF SendInv
    <3> QED
      BY <1>2, <3>1, <3>2, <3>3, <3>5, SendStep
  <2> QED
    BY <2>2, <2>3
<1>7. CASE Reply(d, k)
  <2>1. PICK t \in 0 .. ExchangeTimeout :
          sends' = [sends EXCEPT ![d][k].pc = "answered", ![d][k].age = @ + t]
    BY <1>7 DEF Reply
  <2>2. t \in Nat /\ t <= ExchangeTimeout
    BY BudgetFacts
  <2>3. s.pc = "exchange" /\ s.age < Deadline
    BY <1>1, <1>7 DEF Reply, SendInv
  <2> DEFINE g == [s EXCEPT !.pc = "answered", !.age = @ + t]
  <2>4. sends' = [sends EXCEPT ![d][k] = g]
    BY <1>1, <2>1
  <2>5. g \in Send
    <3>1. s.age + t \in Nat
      BY <1>4, <2>2
    <3> QED
      BY <1>1, <3>1 DEF Send
  <2>6. g.pc = "answered" /\ g.age = s.age + t /\ g.starts = s.starts
    BY <1>1 DEF Send
  <2> HIDE DEF g
  <2>7. SendInv(g)
    BY <1>4, <2>2, <2>3, <2>6, BudgetFacts DEF SendInv
  <2> QED
    BY <1>2, <2>4, <2>5, <2>6, <2>7, SendStep
<1>8. CASE NoReply(d, k)
  <2> DEFINE q == IF s.attempts <= n THEN "wait" ELSE "ended"
  <2>1. PICK t \in 0 .. ExchangeTimeout :
          sends' = [sends EXCEPT ![d][k].pc = q, ![d][k].age = @ + t]
    BY <1>8 DEF NoReply
  <2>2. t \in Nat /\ t <= ExchangeTimeout
    BY BudgetFacts
  <2>3. /\ s.pc = "exchange" /\ s.attempts \in 1 .. n + 1 /\ s.age < Deadline
        /\ s.attempts <= n => s.age <= Budget[s.attempts - 1]
    BY <1>1, <1>8 DEF NoReply, SendInv
  <2> DEFINE g == [s EXCEPT !.pc = q, !.age = @ + t]
  <2>4. sends' = [sends EXCEPT ![d][k] = g]
    BY <1>1, <2>1
  <2>5. g \in Send
    <3>1. s.age + t \in Nat
      BY <1>4, <2>2
    <3> QED
      BY <1>1, <3>1 DEF Send
  <2>6. /\ g.pc = q /\ g.age = s.age + t /\ g.starts = s.starts
        /\ g.attempts = s.attempts
    BY <1>1 DEF Send
  <2> HIDE DEF g
  <2>7. CASE s.attempts <= n
    <3>1. g.pc = "wait" /\ s.attempts \in 1 .. n
      BY <1>4, <2>3, <2>6, <2>7, BudgetFacts
    <3>2. ASSUME s.attempts < n
          PROVE  g.age + Backoff[g.attempts] <= Budget[g.attempts]
      <4>1. /\ s.attempts \in 1 .. n - 1 /\ s.attempts - 1 \in 0 .. n - 1
            /\ s.attempts \in 1 .. n
        BY <1>4, <3>1, <3>2, BudgetFacts
      <4>2. /\ Budget[s.attempts]
                 = Budget[s.attempts - 1] + ExchangeTimeout + Backoff[s.attempts]
            /\ Budget[s.attempts - 1] \in Nat /\ Backoff[s.attempts] \in Nat
            /\ ExchangeTimeout \in Nat
        BY <4>1, BudgetFacts
      <4>3. s.age <= Budget[s.attempts - 1]
        BY <2>3, <2>7
      <4>4. s.age + t + Backoff[s.attempts] <= Budget[s.attempts]
        BY <1>4, <2>2, <4>2, <4>3
      <4> QED
        BY <2>6, <4>4
    <3>3. SendInv(g)
      BY <1>4, <2>2, <2>3, <2>6, <3>1, <3>2, BudgetFacts DEF SendInv
    <3> QED
      BY <1>2, <2>4, <2>5, <2>6, <3>3, SendStep
  <2>8. CASE ~(s.attempts <= n)
    <3>1. g.pc = "ended" /\ s.attempts = n + 1
      BY <1>4, <2>3, <2>6, <2>8, BudgetFacts
    <3>2. SendInv(g)
      BY <1>4, <2>2, <2>3, <2>6, <3>1, BudgetFacts DEF SendInv
    <3> QED
      BY <1>2, <2>4, <2>5, <2>6, <3>2, SendStep
  <2> QED
    BY <2>7, <2>8
<1>9. CASE WaitOver(d, k)
  <2>1. /\ s.pc = "wait" /\ s.attempts \in 1 .. n
        /\ s.attempts < n => s.age + Backoff[s.attempts] <= Budget[s.attempts]
        /\ s.age + Backoff[s.attempts] <= Deadline
    BY <1>1, <1>9 DEF WaitOver, SendInv
  <2>2. Backoff[s.attempts] \in Nat
    BY <2>1, BudgetFacts
  <2> DEFINE g == [s EXCEPT !.age = @ + Backoff[s.attempts], !.pc = "check"]
  <2>3. sends' = [sends EXCEPT ![d][k] = g]
    BY <1>1, <1>9 DEF WaitOver
  <2>4. g \in Send
    <3>1. s.age + Backoff[s.attempts] \in Nat
      BY <1>4, <2>2
    <3> QED
      BY <1>1, <3>1 DEF Send
  <2>5. /\ g.pc = "check" /\ g.age = s.age + Backoff[s.attempts]
        /\ g.starts = s.starts /\ g.attempts = s.attempts
    BY <1>1 DEF Send
  <2> HIDE DEF g
  <2>6. SendInv(g)
    BY <1>4, <2>1, <2>2, <2>5, BudgetFacts DEF SendInv
  <2> QED
    BY <1>2, <2>3, <2>4, <2>5, <2>6, SendStep
<1>10. CASE WaitCut(d, k)
  <2>1. /\ s.pc = "wait" /\ s.attempts \in 1 .. n
        /\ s.attempts < n => s.age + Backoff[s.attempts] <= Budget[s.attempts]
    BY <1>1, <1>10 DEF WaitCut, SendInv
  <2>2. CASE d \in cancelled /\ Ends(d, k)
    BY <1>5, <2>2
  <2> DEFINE a == IF s.age > Deadline THEN s.age ELSE Deadline
  <2>3. CASE /\ s.age + Backoff[s.attempts] >= Deadline
             /\ sends' = [sends EXCEPT
                            ![d][k].pc = "ended", ![d][k].cut = d \in cancelled,
                            ![d][k].age = IF @ > Deadline THEN @ ELSE Deadline]
    <3> DEFINE g == [s EXCEPT !.pc = "ended", !.cut = d \in cancelled, !.age = a]
    <3>1. sends' = [sends EXCEPT ![d][k] = g]
      BY <1>1, <2>3
    <3>2. a \in Nat /\ a >= Deadline /\ a <= Deadline + ExchangeTimeout
      BY <1>1, <1>4, BudgetFacts DEF SendInv
    <3> HIDE DEF a
    <3>3. [s EXCEPT !.pc = "ended", !.age = a] \in Send
      BY <1>1, <3>2 DEF Send
    <3>4. g = [[s EXCEPT !.pc = "ended", !.age = a] EXCEPT !.cut = d \in cancelled]
      BY <1>1 DEF Send
    <3>5. g \in Send
      BY <1>3, <3>3, <3>4, Zenon DEF Send
    <3>6. /\ g.pc = "ended" /\ g.age = a /\ g.starts = s.starts
          /\ g.attempts = s.attempts
      BY <1>1 DEF Send
    <3>7. s.attempts = n
      <4>1. ASSUME s.attempts < n PROVE FALSE
        <5>1. s.attempts \in 0 .. n - 1 /\ Backoff[s.attempts] \in Nat
          BY <1>4, <2>1, <4>1, BudgetFacts
        <5>2. Budget[s.attempts] \in Nat /\ Budget[s.attempts] < Deadline
          BY <5>1, BudgetFacts
        <5> QED
          BY <1>4, <2>1, <2>3, <4>1, <5>1, <5>2, BudgetFacts
      <4> QED
        BY <1>4, <2>1, <4>1, BudgetFacts
    <3> HIDE DEF g
    <3>8. SendInv(g)
      BY <3>2, <3>6, <3>7 DEF SendInv
    <3> QED
      BY <1>2, <3>1, <3>5, <3>6, <3>8, SendStep
  <2> QED
    BY <1>10, <2>2, <2>3 DEF WaitCut
<1> QED
  BY <1>6, <1>7, <1>8, <1>9, <1>10

(* A turn of the loops of dispatchNotifies: the goroutine of a new key is  *)
(* one that was never started.                                             *)
LEMMA DispatchKeeps ==
  ASSUME NotifyInv, NEW d \in Dispatches, NEW i \in todo[d],
         dispatchNotifies(d, i)
  PROVE  NotifyInv'
<1> DEFINE k == <<i.origin, i.host, i.ip>>
<1>1. /\ DOMAIN todo = Dispatches /\ DOMAIN seen = Dispatches
      /\ sends \in [Dispatches -> [Keys -> Send]]
      /\ Progress(d)
  BY DEF NotifyInv, NotifyTypeOK
<1>2. /\ todo' = [todo EXCEPT ![d] = @ \ {i}]
      /\ seen' = [seen EXCEPT ![d] = @ \cup {k}]
      /\ sends' = IF k \in seen[d] THEN sends
                  ELSE [sends EXCEPT ![d][k].pc = "check", ![d][k].starts = @ + 1]
  BY DEF dispatchNotifies, Key
<1>3. i \in All(d) /\ k \in Keys
  <2>1. i \in All(d)
    BY <1>1 DEF Progress
  <2> QED
    BY <2>1 DEF All, Keys
<1> HIDE DEF k
<1>4. /\ todo'[d] = todo[d] \ {i} /\ seen'[d] = seen[d] \cup {k}
      /\ \A e \in Dispatches \ {d} : todo'[e] = todo[e] /\ seen'[e] = seen[e]
      /\ DOMAIN todo' = Dispatches /\ DOMAIN seen' = Dispatches
  BY <1>1, <1>2
<1>5. ASSUME NEW e \in Dispatches PROVE Progress(e)'
  <2>1. Progress(e) /\ All(e)' = All(e)
    BY DEF NotifyInv, All, Items, NotifyTargets, resolveInZoneGlue
  <2>2. CASE e # d
    BY <1>4, <2>1, <2>2 DEF Progress
  <2>3. CASE e = d
    <3>1. seen[d] = KeysOf(All(d) \ todo[d])
      BY <1>1 DEF Progress
    <3>2. KeysOf(All(d) \ (todo[d] \ {i})) = KeysOf(All(d) \ todo[d]) \cup {k}
      BY <1>3 DEF KeysOf, k
    <3>3. todo[d] \ {i} \subseteq All(d)
      BY <1>1 DEF Progress
    <3> QED
      BY <1>4, <2>1, <2>3, <3>1, <3>2, <3>3 DEF Progress
  <2> QED
    BY <2>2, <2>3
<1>6. CASE k \in seen[d]
  <2>1. sends' = sends /\ seen'[d] = seen[d]
    BY <1>2, <1>4, <1>6
  <2>2. NotifyTypeOK'
    BY <1>1, <1>4, <2>1 DEF NotifyTypeOK
  <2>3. ASSUME NEW e \in Dispatches, NEW x \in Keys
        PROVE  Started(e, x)' /\ SendInv(sends[e][x])'
    BY <1>4, <2>1 DEF NotifyInv, Started, SendInv
  <2> QED
    BY <1>5, <2>2, <2>3 DEF NotifyInv
<1>7. CASE k \notin seen[d]
  <2> DEFINE g == [Idle EXCEPT !.pc = "check", !.starts = 1]
  <2>1. sends[d][k] = Idle
    BY <1>3, <1>7 DEF NotifyInv, Started
  <2>2. sends' = [sends EXCEPT ![d][k] = g]
    BY <1>1, <1>2, <1>3, <1>7, <2>1 DEF Idle
  <2>3. Idle \in Send
    BY DEF Idle, Send
  <2>4. g \in Send
    BY <2>3 DEF Send
  <2>5. g.pc = "check" /\ g.starts = 1 /\ g.attempts = 0 /\ g.age = 0
    BY DEF Idle
  <2>6. SendInv(g)
    BY <2>5, BudgetFacts DEF SendInv
  <2> HIDE DEF g
  <2>7. /\ sends' \in [Dispatches -> [Keys -> Send]]
        /\ sends'[d][k] = g
        /\ \A e \in Dispatches : \A x \in Keys :
             e # d \/ x # k => sends'[e][x] = sends[e][x]
    BY <1>1, <1>3, <2>2, <2>4
  <2>8. NotifyTypeOK'
    BY <1>4, <2>7 DEF NotifyTypeOK
  <2>9. ASSUME NEW e \in Dispatches, NEW x \in Keys
        PROVE  Started(e, x)' /\ SendInv(sends[e][x])'
    <3>1. Started(e, x) /\ SendInv(sends[e][x])
      BY DEF NotifyInv
    <3>2. CASE e = d /\ x = k
      BY <1>4, <2>5, <2>6, <2>7, <3>2 DEF Started
    <3>3. CASE e # d \/ x # k
      <4>1. sends'[e][x] = sends[e][x] /\ (x \in seen'[e] <=> x \in seen[e])
        BY <1>4, <2>7, <3>3
      <4> QED
        BY <3>1, <4>1 DEF Started
    <3> QED
      BY <3>2, <3>3
  <2> QED
    BY <1>5, <2>8, <2>9 DEF NotifyInv
<1> QED
  BY <1>6, <1>7

(* A reload begins a dispatch that has seen nothing.                       *)
LEMMA ReloadKeeps ==
  ASSUME NotifyInv, NEW d \in Dispatches, Reload(d)
  PROVE  NotifyInv'
<1>1. /\ seen[d] = {} /\ todo' = [todo EXCEPT ![d] = All(d)]
      /\ seen' = seen /\ sends' = sends
  BY DEF Reload, All
<1>2. NotifyTypeOK' /\ todo'[d] = All(d)
      /\ \A e \in Dispatches \ {d} : todo'[e] = todo[e]
  BY <1>1 DEF NotifyInv, NotifyTypeOK
<1>3. ASSUME NEW e \in Dispatches PROVE Progress(e)'
  <2>1. Progress(e)
    BY DEF NotifyInv
  <2>2. KeysOf({}) = {} /\ All(d) \ All(d) = {}
    BY DEF KeysOf
  <2> QED
    BY <1>1, <1>2, <2>1, <2>2 DEF Progress
<1>4. ASSUME NEW e \in Dispatches, NEW x \in Keys
      PROVE  Started(e, x)' /\ SendInv(sends[e][x])'
  BY <1>1 DEF NotifyInv, Started, SendInv
<1> QED
  BY <1>2, <1>3, <1>4 DEF NotifyInv

(* The first dispatch is about to go through its zones.                    *)
LEMMA InitNotifyInv == NotifyInit => NotifyInv
<1> SUFFICES ASSUME NotifyInit PROVE NotifyInv
  OBVIOUS
<1>1. Idle \in Send
  BY DEF Idle, Send
<1>2. NotifyTypeOK
  BY <1>1 DEF NotifyInit, NotifyTypeOK
<1>3. ASSUME NEW d \in Dispatches PROVE Progress(d)
  <2>1. seen[d] = {} /\ (todo[d] = {} \/ todo[d] = All(d))
    BY DEF NotifyInit, All
  <2>2. KeysOf({}) = {} /\ All(d) \ All(d) = {}
    BY DEF KeysOf
  <2> QED
    BY <2>1, <2>2 DEF Progress
<1>4. ASSUME NEW d \in Dispatches, NEW k \in Keys
      PROVE  Started(d, k) /\ SendInv(sends[d][k])
  <2>1. sends[d][k] = Idle /\ seen[d] = {}
    BY DEF NotifyInit
  <2>2. Idle.pc = "off" /\ Idle.age = 0
    BY DEF Idle
  <2>3. SendInv(Idle)
    BY <2>2, BudgetFacts DEF SendInv
  <2> QED
    BY <2>1, <2>3 DEF Started
<1> QED
  BY <1>2, <1>3, <1>4 DEF NotifyInv

(* Every step of a dispatch, of a goroutine and of the shutdown.           *)
LEMMA NextNotifyInv == NotifyInv /\ [NotifyNext]_notifyVars => NotifyInv'
<1> SUFFICES ASSUME NotifyInv, [NotifyNext]_notifyVars PROVE NotifyInv'
  OBVIOUS
<1>1. ASSUME NEW d \in Dispatches, Reload(d) PROVE NotifyInv'
  BY <1>1, ReloadKeeps
<1>2. ASSUME NEW d \in Dispatches, NEW i \in todo[d], dispatchNotifies(d, i)
      PROVE  NotifyInv'
  BY <1>2, DispatchKeeps
<1>3. ASSUME NEW d \in Dispatches, NEW k \in Keys,
             \/ Check(d, k) \/ Reply(d, k) \/ NoReply(d, k)
             \/ WaitOver(d, k) \/ WaitCut(d, k)
      PROVE  NotifyInv'
  BY <1>3, GoroutineKeeps
<1>4. ASSUME UNCHANGED <<todo, seen, sends>> PROVE NotifyInv'
  <2>1. NotifyTypeOK' /\ \A d \in Dispatches : Progress(d)'
    BY <1>4 DEF NotifyInv, NotifyTypeOK, Progress
  <2>2. ASSUME NEW d \in Dispatches, NEW k \in Keys
        PROVE  Started(d, k)' /\ SendInv(sends[d][k])'
    BY <1>4 DEF NotifyInv, Started, SendInv
  <2> QED
    BY <2>1, <2>2 DEF NotifyInv
<1>5. CASE Shutdown
  BY <1>4, <1>5 DEF Shutdown
<1>6. CASE UNCHANGED notifyVars
  BY <1>4, <1>6 DEF notifyVars
<1> QED
  BY <1>1, <1>2, <1>3, <1>5, <1>6 DEF NotifyNext

(* What each dispatch has started and how old each goroutine of            *)
(* sendNotifyWithBackoff may be holds in every state.                      *)
THEOREM NotifyInvariance == NotifySpec => []NotifyInv
BY InitNotifyInv, NextNotifyInv, PTL DEF NotifySpec

(* A dispatch that went through its zones has started one goroutine for    *)
(* each zone and glue address of each of its secondaries and no other      *)
(* (dispatchNotifies), for any zones, views and dispatches.                *)
THEOREM EveryKeyOnce == NotifySpec => []NotifiedOnce
<1>1. NotifyInv => NotifiedOnce
  <2> SUFFICES ASSUME NotifyInv, NEW d \in Dispatches, NEW k \in Keys,
                      todo[d] = {}, seen[d] # {}
               PROVE  sends[d][k].starts =
                        IF \E z \in Loads[d] :
                             /\ k[1] = z.origin /\ k[2] \in z.ns /\ k[2] # z.mname
                             /\ [host |-> k[2], ip |-> k[3]] \in z.glue
                        THEN 1 ELSE 0
    BY DEF NotifiedOnce
  <2> DEFINE Wanted(z) == /\ k[1] = z.origin /\ k[2] \in z.ns /\ k[2] # z.mname
                          /\ [host |-> k[2], ip |-> k[3]] \in z.glue
  <2>1. seen[d] = KeysOf(All(d))
    <3>1. All(d) \ {} = All(d)
      OBVIOUS
    <3> QED
      BY <3>1 DEF NotifyInv, Progress
  <2>2. sends[d][k].starts = IF k \in seen[d] THEN 1 ELSE 0
    BY DEF NotifyInv, Started, Idle
  <2>3. ASSUME k \in KeysOf(All(d)) PROVE \E z \in Loads[d] : Wanted(z)
    <3>1. PICK i \in All(d) : k = <<i.origin, i.host, i.ip>>
      BY <2>3 DEF KeysOf
    <3>2. PICK z \in Loads[d] : i \in Items(z)
      BY <3>1 DEF All
    <3>3. PICK h \in NotifyTargets(z) :
            i \in {[view |-> z.view, origin |-> z.origin, host |-> h, ip |-> ip] :
                     ip \in resolveInZoneGlue(z, h)}
      BY <3>2 DEF Items
    <3>4. PICK g \in z.glue :
            /\ g.host = h
            /\ i = [view |-> z.view, origin |-> z.origin, host |-> h, ip |-> g.ip]
      BY <3>3 DEF resolveInZoneGlue
    <3>5. k[1] = z.origin /\ k[2] = h /\ k[3] = g.ip
      BY <3>1, <3>4
    <3>6. g = [host |-> h, ip |-> g.ip]
      BY <3>2, <3>4, NotifyAssumption DEF Dispatches
    <3> QED
      BY <3>2, <3>3, <3>5, <3>6 DEF NotifyTargets
  <2>4. ASSUME NEW z \in Loads[d], Wanted(z) PROVE k \in KeysOf(All(d))
    <3>1. k = <<k[1], k[2], k[3]>>
      BY DEF Keys
    <3> DEFINE i == [view |-> z.view, origin |-> z.origin, host |-> k[2],
                     ip |-> k[3]]
    <3>2. k[3] \in resolveInZoneGlue(z, k[2])
      BY <2>4 DEF resolveInZoneGlue
    <3>3. i \in Items(z)
      BY <2>4, <3>2 DEF Items, NotifyTargets
    <3>4. i \in All(d)
      BY <3>3 DEF All
    <3>5. k = <<i.origin, i.host, i.ip>>
      BY <2>4, <3>1
    <3> QED
      BY <3>4, <3>5 DEF KeysOf
  <2> QED
    BY <2>1, <2>2, <2>3, <2>4
<1> QED
  BY <1>1, NotifyInvariance, PTL

(* A goroutine of sendNotifyWithBackoff that was not cancelled gives up    *)
(* only after every attempt or, at the deadline, before the last, and none *)
(* outlives the deadline by more than one exchange, for every backoff that *)
(* fits into the deadline as the code's does.                              *)
THEOREM BudgetHolds == NotifySpec => []RetryBudget
<1>1. NotifyInv => RetryBudget
  BY DEF NotifyInv, SendInv, RetryBudget, GivesUpLate, SendBounded
<1> QED
  BY <1>1, NotifyInvariance, PTL
=============================================================================
