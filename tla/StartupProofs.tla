--------------------------- MODULE StartupProofs ---------------------------
(***************************************************************************)
(* Proofs about Startup, Migrations and Lifecycle, for every number of     *)
(* processes, migrations, failures, crashes, requests and signals.         *)
(***************************************************************************)
EXTENDS Startup, WellFoundedInduction, TLAPS

(* The operator's side of the bargain.  No two files have one number; and, *)
(* stronger, the files that are not migrations have none.                  *)
DistinctNumbers == \A f, g \in Discovered : Number(f) = Number(g) => f = g

StrayUnnumbered == \A n \in Stray : n <= 0

-----------------------------------------------------------------------------
(* Migrations: files and sequences                                         *)

LEMMA NumberFacts ==
  /\ \A f \in Files : Number(f) \in Int
  /\ Discovered \subseteq Files
  /\ \A f \in Discovered : Number(f) \in Nat /\ Number(f) > 0
  /\ \A v \in Versions : \E f \in Discovered : Number(f) = v
<1>1. ASSUME NEW f \in Files PROVE Number(f) \in Int
  <2>1. CASE f \in {"migration"} \X Versions
    <3>1. Number(f) \in Versions
      BY <2>1 DEF Number
    <3>2. \A v \in Versions : v \in Nat
      BY MigrationsAssumption
    <3> QED
      BY <3>1, <3>2
  <2>2. CASE f \in {"stray"} \X Stray
    BY <2>2, MigrationsAssumption DEF Number
  <2> QED
    BY <2>1, <2>2 DEF Files
<1>2. \A v \in Versions : <<"migration", v>> \in Discovered /\ Number(<<"migration", v>>) = v
  BY MigrationsAssumption DEF Files, Number, Discovered
<1>3. \A f \in Discovered : Number(f) \in Nat /\ Number(f) > 0
  BY <1>1 DEF Discovered
<1> QED
  BY <1>1, <1>2, <1>3 DEF Discovered

LEMMA UnnumberedDistinct ==
  StrayUnnumbered =>
    /\ DistinctNumbers
    /\ \A f \in Discovered : Number(f) \in Versions
<1> SUFFICES ASSUME StrayUnnumbered
             PROVE  /\ DistinctNumbers
                    /\ \A f \in Discovered : Number(f) \in Versions
  OBVIOUS
<1>1. ASSUME NEW f \in Discovered PROVE f \in {"migration"} \X Versions
  <2>1. f \in {"stray"} \X Stray => Number(f) \in Int /\ Number(f) <= 0
    BY MigrationsAssumption DEF StrayUnnumbered, Number
  <2>2. Number(f) > 0
    BY DEF Discovered
  <2>3. f \notin {"stray"} \X Stray
    BY <2>1, <2>2
  <2> QED
    BY <2>3 DEF Discovered, Files
<1>2. \A f, g \in {"migration"} \X Versions : Number(f) = Number(g) => f = g
  BY DEF Number
<1>3. \A f \in {"migration"} \X Versions : Number(f) \in Versions
  BY DEF Number
<1> QED
  BY <1>1, <1>2, <1>3 DEF DistinctNumbers

LEMMA AppendFacts ==
  ASSUME NEW S, NEW s \in Seq(S), NEW e \in S
  PROVE  /\ Append(s, e) \in Seq(S) /\ Len(Append(s, e)) = Len(s) + 1
         /\ Len(s) \in Nat
         /\ \A i \in 1..Len(s) : Append(s, e)[i] = s[i]
         /\ Append(s, e)[Len(s) + 1] = e
OBVIOUS

LEMMA ToSetFacts ==
  ASSUME NEW S, NEW s \in Seq(S)
  PROVE  \A x : x \in ToSet(s) <=> \E i \in 1..Len(s) : s[i] = x
BY DEF ToSet

LEMMA ToSetAppend ==
  ASSUME NEW S, NEW s \in Seq(S), NEW e \in S
  PROVE  ToSet(Append(s, e)) = ToSet(s) \cup {e}
<1> DEFINE t == Append(s, e)
<1>1. t \in Seq(S)
  OBVIOUS
<1>2. \A x : x \in ToSet(t) <=> \E i \in 1..Len(t) : t[i] = x
  <2> HIDE DEF t
  <2> QED BY <1>1, ToSetFacts
<1>3. ASSUME NEW x \in ToSet(t) PROVE x \in ToSet(s) \cup {e}
  <2>1. PICK i \in 1..Len(t) : t[i] = x
    BY <1>2, <1>3
  <2>2. CASE i = Len(s) + 1
    BY <2>1, <2>2, AppendFacts
  <2>3. CASE i \in 1..Len(s)
    BY <2>1, <2>3, AppendFacts, ToSetFacts
  <2> QED
    BY <2>2, <2>3, AppendFacts
<1>4. ASSUME NEW x \in ToSet(s) PROVE x \in ToSet(t)
  <2>1. PICK i \in 1..Len(s) : s[i] = x
    BY <1>4, ToSetFacts
  <2>2. t[i] = x /\ i \in 1..Len(t)
    BY <2>1, AppendFacts
  <2> QED
    BY <2>2, <1>2
<1>5. e \in ToSet(t)
  <2>1. Len(t) \in 1..Len(t) /\ t[Len(t)] = e
    BY AppendFacts
  <2> QED
    BY <2>1, <1>2
<1> QED
  BY <1>3, <1>4, <1>5

(* The loop of apply_migrations ends only when nothing is left to run.     *)
LEMMA NothingPending ==
  ASSUME NEW cur \in Nat, Pending(cur) = {}
  PROVE  \A f \in Discovered : Number(f) <= cur
<1> SUFFICES ASSUME NEW h \in Discovered, Number(h) > cur
             PROVE  FALSE
  BY NumberFacts
<1> DEFINE above == {f \in Discovered : Number(f) > cur}
           T == {Number(f) : f \in above}
<1>1. T \subseteq Nat /\ T # {}
  BY NumberFacts
<1> DEFINE R == {ss \in Nat \X Nat : ss[1] < ss[2]}
<1>a. IsWellFoundedOn(R, Nat)
  BY NatLessThanWellFounded, Zenon DEF OpToRel
<1>2. PICK m \in T : \A n \in T : ~(<<n, m>> \in R)
  <2> HIDE DEF R, T
  <2> QED BY <1>1, <1>a, WFMin
<1>3. PICK f \in above : Number(f) = m
  BY <1>2
<1>4. ASSUME NEW g \in above PROVE Number(f) <= Number(g)
  <2>1. Number(g) \in T /\ Number(g) \in Nat /\ m \in Nat
    BY <1>1
  <2>2. <<Number(g), m>> \notin R
    BY <1>2, <2>1
  <2>3. ~(Number(g) < m)
    BY <2>1, <2>2
  <2> QED
    BY <1>3, <2>1, <2>3
<1>5. f \in Pending(cur)
  BY <1>3, <1>4 DEF Pending
<1> QED
  BY <1>5

-----------------------------------------------------------------------------
(* Migrations: types                                                       *)

Numbers == {0} \cup {Number(f) : f \in Files}

Labels == {"down", "version", "loop", "begun", "set", "commit", "rollback", "up",
           "failed"}

(* MigrationsTypeOK, made inductive: a process in a transaction has a file. *)
MigrationTypes ==
  /\ MigrationsTypeOK
  /\ tx \in [version : Numbers, applied : Seq(Files)]
  /\ \A p \in Procs : pc[p] \in {"begun", "set", "commit"} => file[p] \in Files

(* Whoever writes is alone.                                                *)
LEMMA OneWriter ==
  ASSUME MigrationsTypeOK, NEW p \in Procs, writer = p \/ writer = None
  PROVE  \A q \in Procs \ {p} : pc[q] \notin {"set", "commit"}
BY MigrationsAssumption DEF MigrationsTypeOK

(* What a step of process p leaves of the others.                          *)
LEMMA OthersKept ==
  ASSUME MigrationsTypeOK, NEW p \in Procs, Run(p) \/ StatementFails(p) \/ Crash(p)
  PROVE  /\ pc' \in [Procs -> Labels]
         /\ \A q \in Procs \ {p} :
              pc'[q] = pc[q] /\ current'[q] = current[q] /\ file'[q] = file[q]
<1>1. \E l \in Labels : pc' = [pc EXCEPT ![p] = l]
  BY DEF Run, Open, ReadVersion, Begin, Return, RunScript, TakeLock, BusyTimeout,
         SetUserVersion, SetStep, Commit, Rollback, Restart, StatementFails, Crash,
         Goto, Labels
<1>2. current' = current \/ \E n : current' = [current EXCEPT ![p] = n]
  BY DEF Run, Open, ReadVersion, Begin, Return, RunScript, TakeLock, BusyTimeout,
         SetUserVersion, SetStep, Commit, Rollback, Restart, StatementFails, Crash
<1>3. file' = file \/ \E f : file' = [file EXCEPT ![p] = f]
  BY DEF Run, Open, ReadVersion, Begin, Return, RunScript, TakeLock, BusyTimeout,
         SetUserVersion, SetStep, Commit, Rollback, Restart, StatementFails, Crash
<1> QED
  BY <1>1, <1>2, <1>3 DEF MigrationsTypeOK, Labels

(* The steps of a process that touch neither database nor transaction.     *)
LocalStep(p) ==
  \/ Open(p) \/ ReadVersion(p) \/ Begin(p) \/ Return(p)
  \/ BusyTimeout(p) \/ Rollback(p) \/ Restart(p)
  \/ StatementFails(p) \/ Crash(p)

LEMMA LocalMoves ==
  ASSUME MigrationTypes, NEW p \in Procs, LocalStep(p)
  PROVE  /\ version' = version /\ applied' = applied /\ tx' = tx
         /\ writer' = writer \/ (writer' = None /\ writer = p)
         /\ writer' = writer \/ pc'[p] \in {"failed", "down"}
         /\ failures' \in 0..MaxFailures /\ crashes' \in 0..MaxCrashes
         /\ pc'[p] \notin {"set", "commit"}
         /\ \/ current' = current
            \/ current' = [current EXCEPT ![p] = version] /\ pc'[p] = "loop"
         /\ \/ file' = file /\ pc'[p] # "begun"
            \/ /\ current' = current
               /\ \E f \in Pending(current[p]) : file' = [file EXCEPT ![p] = f]
         /\ pc'[p] = "up" => current' = current /\ Pending(current[p]) = {}
<1> USE DEF LocalStep, Open, ReadVersion, Begin, Return, BusyTimeout, Rollback,
            Restart, StatementFails, Crash, Goto, MigrationTypes, MigrationsTypeOK
<1>1. /\ version' = version /\ applied' = applied /\ tx' = tx
      /\ failures' \in 0..MaxFailures /\ crashes' \in 0..MaxCrashes
  BY MigrationsAssumption DEF schema
<1>2. /\ writer' = writer \/ (writer' = None /\ writer = p)
      /\ writer' = writer \/ pc'[p] \in {"failed", "down"}
      /\ pc'[p] \notin {"set", "commit"}
  BY DEF Unlock
<1>3. \/ current' = current
      \/ current' = [current EXCEPT ![p] = version] /\ pc'[p] = "loop"
  OBVIOUS
<1>4. \/ file' = file /\ pc'[p] # "begun"
      \/ /\ current' = current
         /\ \E f \in Pending(current[p]) : file' = [file EXCEPT ![p] = f]
  OBVIOUS
<1>5. pc'[p] = "up" => current' = current /\ Pending(current[p]) = {}
  OBVIOUS
<1> QED
  BY <1>1, <1>2, <1>3, <1>4, <1>5

LEMMA MigrationTypesInit == MigrationsInit => MigrationTypes
<1> SUFFICES ASSUME MigrationsInit PROVE MigrationTypes
  OBVIOUS
<1>1. tx \in [version : Numbers, applied : Seq(Files)]
  BY DEF MigrationsInit, Numbers
<1> QED
  BY <1>1, MigrationsAssumption DEF MigrationsInit, MigrationTypes, MigrationsTypeOK

LEMMA MigrationTypesStep ==
  ASSUME MigrationTypes, NEW p \in Procs, Run(p) \/ StatementFails(p) \/ Crash(p)
  PROVE  MigrationTypes'
<1> DEFINE Rest ==
      /\ version \in Numbers /\ applied \in Seq(Files)
      /\ tx \in [version : Numbers, applied : Seq(Files)]
      /\ writer \in Procs \cup {None}
      /\ current \in [Procs -> Numbers] /\ file \in [Procs -> Files \cup {None}]
      /\ failures \in 0..MaxFailures /\ crashes \in 0..MaxCrashes
<1>1. /\ pc' \in [Procs -> Labels]
      /\ \A q \in Procs \ {p} :
           pc'[q] = pc[q] /\ current'[q] = current[q] /\ file'[q] = file[q]
  BY OthersKept DEF MigrationTypes
<1>2. Rest
  BY DEF MigrationTypes, MigrationsTypeOK, Numbers
<1>3. SUFFICES /\ Rest'
               /\ \A q \in Procs : pc'[q] \in {"set", "commit"} => writer' = q
               /\ pc'[p] \in {"begun", "set", "commit"} => file'[p] \in Files
  BY <1>1 DEF MigrationTypes, MigrationsTypeOK, Numbers, Labels
<1>4. CASE LocalStep(p)
  <2>1. \A f \in Pending(current[p]) : f \in Files
    BY NumberFacts DEF Pending
  <2>2. /\ version' = version /\ applied' = applied /\ tx' = tx
        /\ failures' \in 0..MaxFailures /\ crashes' \in 0..MaxCrashes
    BY <1>4, LocalMoves
  <2>3. writer' \in Procs \cup {None} /\ current' \in [Procs -> Numbers]
    BY <1>2, <1>4, LocalMoves
  <2>4. /\ file' \in [Procs -> Files \cup {None}]
        /\ pc'[p] \in {"begun", "set", "commit"} => file'[p] \in Files
    BY <1>2, <1>4, <2>1, LocalMoves
  <2>5. ASSUME NEW q \in Procs, pc'[q] \in {"set", "commit"} PROVE writer' = q
    BY <1>1, <1>4, <2>5, LocalMoves DEF MigrationTypes, MigrationsTypeOK
  <2> QED
    BY <1>2, <2>2, <2>3, <2>4, <2>5
<1>5. CASE RunScript(p)
  <2>1. /\ pc[p] = "begun" /\ writer = None /\ writer' = p
        /\ version' = version /\ applied' = applied
        /\ current' = current /\ file' = file
        /\ failures' = failures /\ crashes' = crashes
        /\ \/ tx' = tx
           \/ tx' = [version |-> version, applied |-> Append(applied, file[p])]
    BY <1>5 DEF RunScript, TakeLock, schema
  <2>2. file[p] \in Files
    BY <2>1 DEF MigrationTypes
  <2>3. \A q \in Procs \ {p} : pc[q] \notin {"set", "commit"}
    BY <2>1, OneWriter DEF MigrationTypes
  <2>4. Append(applied, file[p]) \in Seq(Files)
    BY <1>2, <2>2
  <2>5. tx' \in [version : Numbers, applied : Seq(Files)]
    <3>1. CASE tx' = tx
      BY <1>2, <3>1
    <3>2. CASE tx' = [version |-> version, applied |-> Append(applied, file[p])]
      BY <1>2, <2>4, <3>2
    <3> QED
      BY <2>1, <3>1, <3>2
  <2>6. ASSUME NEW q \in Procs, pc'[q] \in {"set", "commit"} PROVE writer' = q
    BY <1>1, <2>1, <2>3, <2>6
  <2> QED
    BY <1>2, <2>1, <2>2, <2>5, <2>6
<1>6. CASE SetUserVersion(p)
  <2>1. /\ pc[p] = "set" /\ writer' = writer /\ pc'[p] = "commit"
        /\ version' = version /\ applied' = applied
        /\ current' = current /\ file' = file
        /\ failures' = failures /\ crashes' = crashes
        /\ tx' = [tx EXCEPT !.version = Number(file[p])]
    BY <1>6 DEF SetUserVersion, SetStep, Goto, MigrationTypes, MigrationsTypeOK
  <2>2. file[p] \in Files /\ Number(file[p]) \in Numbers /\ writer = p
    BY <2>1 DEF MigrationTypes, MigrationsTypeOK, Numbers
  <2>3. \A q \in Procs \ {p} : pc[q] \notin {"set", "commit"}
    BY <2>2, OneWriter DEF MigrationTypes
  <2>4. tx' \in [version : Numbers, applied : Seq(Files)]
    BY <1>2, <2>1, <2>2
  <2> QED
    BY <1>1, <1>2, <2>1, <2>2, <2>3, <2>4
<1>7. CASE Commit(p)
  <2>1. /\ pc[p] = "commit" /\ pc'[p] = "loop" /\ writer' = None
        /\ version' = tx.version /\ applied' = tx.applied /\ tx' = tx
        /\ current' = [current EXCEPT ![p] = Number(file[p])] /\ file' = file
        /\ failures' = failures /\ crashes' = crashes
    BY <1>7 DEF Commit, Goto, MigrationTypes, MigrationsTypeOK
  <2>2. Number(file[p]) \in Numbers /\ writer = p
    BY <2>1 DEF MigrationTypes, MigrationsTypeOK, Numbers
  <2>3. \A q \in Procs \ {p} : pc[q] \notin {"set", "commit"}
    BY <2>2, OneWriter DEF MigrationTypes
  <2> QED
    BY <1>1, <1>2, <2>1, <2>2, <2>3
<1> QED
  BY <1>4, <1>5, <1>6, <1>7 DEF Run, LocalStep

-----------------------------------------------------------------------------
(* Migrations: the inductive invariant                                     *)

(* The schema holds exactly the files up to user_version, in order.        *)
SchemaInv ==
  /\ version \in Nat
  /\ ToSet(applied) = {f \in Discovered : Number(f) <= version}
  /\ \A i, j \in 1..Len(applied) : i < j => Number(applied[i]) < Number(applied[j])

(* f is the next file to apply after version v.                            *)
NextFile(f, v) ==
  /\ f \in Discovered /\ Number(f) > v
  /\ \A g \in Discovered : Number(g) > v => Number(f) <= Number(g)

(* What process p knows: current may be old, but never ahead; the file it  *)
(* begins is the next one after current, and the one it writes is the next *)
(* after the version in the database.                                      *)
ProcInv(p) ==
  /\ current[p] \in Nat /\ current[p] <= version
  /\ pc[p] = "begun" => NextFile(file[p], current[p])
  /\ pc[p] \in {"set", "commit"} =>
       NextFile(file[p], version) /\ tx.applied = Append(applied, file[p])
  /\ pc[p] = "commit" => tx.version = Number(file[p])
  /\ pc[p] = "up" => \A f \in Discovered : Number(f) <= version

MigrationsInv == MigrationTypes /\ SchemaInv /\ \A p \in Procs : ProcInv(p)

LEMMA MigrationsInitInv == MigrationsInit => MigrationsInv
<1> SUFFICES ASSUME MigrationsInit PROVE MigrationsInv
  OBVIOUS
<1>1. ToSet(applied) = {}
  BY DEF MigrationsInit, ToSet
<1>2. SchemaInv
  BY <1>1, NumberFacts DEF SchemaInv, MigrationsInit
<1>3. \A p \in Procs : ProcInv(p)
  BY DEF ProcInv, MigrationsInit
<1> QED
  BY <1>2, <1>3, MigrationTypesInit DEF MigrationsInv

(* The steps that leave the database as it is: another process notices     *)
(* none of them, because only the holder of the lock changes tx.           *)
LEMMA QuietStep ==
  ASSUME MigrationsInv, NEW p \in Procs, Run(p) \/ StatementFails(p) \/ Crash(p),
         version' = version, applied' = applied,
         \/ tx' = tx
         \/ \A q \in Procs \ {p} : pc[q] \notin {"set", "commit"},
         ProcInv(p)'
  PROVE  MigrationsInv'
<1>1. SchemaInv'
  BY DEF MigrationsInv, SchemaInv
<1>2. ASSUME NEW q \in Procs \ {p} PROVE ProcInv(q)'
  <2>1. ProcInv(q) /\ pc'[q] = pc[q] /\ current'[q] = current[q] /\ file'[q] = file[q]
    BY OthersKept DEF MigrationsInv, MigrationTypes
  <2>2. pc[q] \in {"set", "commit"} => tx' = tx
    OBVIOUS
  <2> QED
    BY <2>1, <2>2 DEF ProcInv, NextFile
<1>3. MigrationTypes'
  BY MigrationTypesStep DEF MigrationsInv
<1> QED
  BY <1>1, <1>2, <1>3 DEF MigrationsInv

LEMMA LocalKeeps ==
  ASSUME MigrationsInv, NEW p \in Procs, LocalStep(p)
  PROVE  MigrationsInv' /\ version' = version
<1> USE DEF MigrationsInv, MigrationTypes
<1>1. current[p] \in Nat /\ current[p] <= version /\ version \in Nat
  BY DEF ProcInv, SchemaInv
<1>2. \A f \in Pending(current[p]) : NextFile(f, current[p])
  BY DEF Pending, NextFile
<1>3. current'[p] \in Nat /\ current'[p] <= version
  BY <1>1, LocalMoves DEF MigrationsTypeOK
<1>4. pc'[p] = "begun" => NextFile(file'[p], current'[p])
  BY <1>2, LocalMoves DEF MigrationsTypeOK
<1>5. pc'[p] = "up" => \A f \in Discovered : Number(f) <= version
  <2> SUFFICES ASSUME pc'[p] = "up", NEW f \in Discovered PROVE Number(f) <= version
    OBVIOUS
  <2>1. Number(f) <= current[p]
    BY <1>1, LocalMoves, NothingPending
  <2> QED
    BY <1>1, <2>1, NumberFacts
<1>6. ProcInv(p)'
  BY <1>3, <1>4, <1>5, LocalMoves DEF ProcInv, NextFile
<1> QED
  BY <1>6, LocalMoves, QuietStep DEF Run, LocalStep

(* The script runs only on a schema that lacks it, and then it is the next *)
(* one, however old the version is that the process read.                  *)
LEMMA RunScriptKeeps ==
  ASSUME MigrationsInv, NEW p \in Procs, RunScript(p)
  PROVE  MigrationsInv' /\ version' = version
<1> USE DEF MigrationsInv, MigrationTypes
<1>1. /\ pc[p] = "begun" /\ writer = None
      /\ version' = version /\ applied' = applied
      /\ current' = current /\ file' = file
  BY DEF RunScript, TakeLock, schema
<1>2. NextFile(file[p], current[p])
  BY <1>1 DEF ProcInv
<1>3. current[p] \in Nat /\ current[p] <= version /\ version \in Nat
  BY DEF ProcInv, SchemaInv
<1>4. ProcInv(p)'
  <2>1. CASE file[p] \in ToSet(applied)
    <3>1. pc'[p] = "rollback"
      BY <2>1 DEF RunScript, Goto, MigrationsTypeOK
    <3> QED
      BY <1>1, <1>3, <3>1 DEF ProcInv
  <2>2. CASE file[p] \notin ToSet(applied)
    <3>1. pc'[p] = "set" /\ tx'.applied = Append(applied, file[p])
      BY <2>2 DEF RunScript, Goto, MigrationsTypeOK
    <3>2. Number(file[p]) > version
      BY <1>2, <1>3, <2>2, NumberFacts DEF SchemaInv, NextFile
    <3>3. ASSUME NEW g \in Discovered, Number(g) > version
          PROVE  Number(file[p]) <= Number(g)
      <4>1. Number(g) > current[p]
        BY <1>3, <3>3, NumberFacts
      <4> QED
        BY <1>2, <4>1 DEF NextFile
    <3> QED
      BY <1>1, <1>2, <1>3, <3>1, <3>2, <3>3 DEF ProcInv, NextFile
  <2> QED
    BY <2>1, <2>2
<1>5. \A q \in Procs \ {p} : pc[q] \notin {"set", "commit"}
  BY <1>1, OneWriter
<1> QED
  BY <1>1, <1>4, <1>5, QuietStep DEF Run

(* PRAGMA user_version stays inside the transaction.                       *)
LEMMA SetUserVersionKeeps ==
  ASSUME MigrationsInv, NEW p \in Procs, SetUserVersion(p)
  PROVE  MigrationsInv' /\ version' = version
<1> USE DEF MigrationsInv, MigrationTypes
<1>1. /\ pc[p] = "set" /\ pc'[p] = "commit"
      /\ version' = version /\ applied' = applied
      /\ current' = current /\ file' = file
      /\ tx'.version = Number(file[p]) /\ tx'.applied = tx.applied
  BY DEF SetUserVersion, SetStep, Goto, MigrationsTypeOK
<1>2. ProcInv(p)'
  BY <1>1 DEF ProcInv, NextFile
<1>3. \A q \in Procs \ {p} : pc[q] \notin {"set", "commit"}
  BY <1>1, OneWriter DEF MigrationsTypeOK
<1> QED
  BY <1>1, <1>2, <1>3, QuietStep DEF Run

(* COMMIT adds the next file and moves user_version up to it.              *)
LEMMA CommitKeeps ==
  ASSUME DistinctNumbers, MigrationsInv, NEW p \in Procs, Commit(p)
  PROVE  MigrationsInv' /\ version' > version
<1> USE DEF MigrationsInv, MigrationTypes
<1> DEFINE f == file[p]
<1>1. /\ pc[p] = "commit" /\ writer' = None
      /\ version' = tx.version /\ applied' = tx.applied /\ tx' = tx
      /\ current' = [current EXCEPT ![p] = Number(f)] /\ file' = file
      /\ failures' = failures /\ crashes' = crashes
      /\ pc' = [pc EXCEPT ![p] = "loop"]
  BY DEF Commit, Goto
<1>2. /\ NextFile(f, version) /\ writer = p
      /\ version' = Number(f) /\ applied' = Append(applied, f)
  BY <1>1 DEF ProcInv, MigrationsTypeOK
<1>3. f \in Discovered /\ f \in Files /\ Number(f) \in Nat /\ Number(f) > version
  BY <1>2, NumberFacts DEF NextFile
<1>4. \A q \in Procs \ {p} : pc[q] \notin {"set", "commit"}
  BY <1>2, OneWriter
<1>5. MigrationTypes'
  BY MigrationTypesStep DEF Run
<1>6. SchemaInv'
  <2>1. version \in Nat /\ applied \in Seq(Files)
    BY DEF SchemaInv, MigrationsTypeOK
  <2>2. ToSet(applied') = ToSet(applied) \cup {f}
    BY <1>2, <1>3, <2>1, ToSetAppend
  <2>3. ToSet(applied') = {g \in Discovered : Number(g) <= version'}
    <3>1. ASSUME NEW g \in Discovered
          PROVE  Number(g) <= version' <=> Number(g) <= version \/ g = f
      <4>1. Number(g) > version => Number(f) <= Number(g)
        BY <1>2 DEF NextFile
      <4>2. Number(g) = Number(f) => g = f
        BY <1>3 DEF DistinctNumbers
      <4> QED
        BY <1>2, <1>3, <2>1, <4>1, <4>2, NumberFacts
    <3>2. ToSet(applied) = {g \in Discovered : Number(g) <= version}
      BY DEF SchemaInv
    <3> QED
      BY <1>3, <2>2, <3>1, <3>2
  <2>4. ASSUME NEW i \in 1..Len(applied'), NEW j \in 1..Len(applied'), i < j
        PROVE  Number(applied'[i]) < Number(applied'[j])
    <3>1. /\ Len(applied') = Len(applied) + 1 /\ Len(applied) \in Nat
          /\ \A k \in 1..Len(applied) : applied'[k] = applied[k]
          /\ applied'[Len(applied) + 1] = f
      BY <1>2, <1>3, <2>1, AppendFacts
    <3>2. i \in 1..Len(applied) /\ applied'[i] = applied[i]
      BY <2>4, <3>1
    <3>3. CASE j \in 1..Len(applied)
      <4>1. applied'[j] = applied[j]
        BY <3>1, <3>3
      <4> QED
        BY <2>4, <3>2, <3>3, <4>1 DEF SchemaInv
    <3>4. CASE j = Len(applied) + 1
      <4>1. applied'[j] = f
        BY <3>1, <3>4
      <4>2. applied[i] \in ToSet(applied)
        BY <2>1, <3>2, ToSetFacts
      <4>3. applied[i] \in Discovered /\ Number(applied[i]) <= version
        BY <4>2 DEF SchemaInv
      <4> QED
        BY <1>3, <2>1, <3>2, <4>1, <4>3, NumberFacts
    <3> QED
      BY <3>1, <3>3, <3>4
  <2> QED
    BY <1>2, <1>3, <2>3, <2>4 DEF SchemaInv
<1>7. ASSUME NEW q \in Procs PROVE ProcInv(q)'
  <2>1. version \in Nat /\ version' \in Nat /\ version < version'
    BY <1>2, <1>3 DEF SchemaInv
  <2>2. CASE q = p
    <3>1. pc'[p] = "loop" /\ current'[p] = Number(f)
      BY <1>1 DEF MigrationsTypeOK
    <3> QED
      BY <1>2, <1>3, <2>2, <3>1 DEF ProcInv
  <2>3. CASE q # p
    <3>1. /\ pc'[q] = pc[q] /\ current'[q] = current[q] /\ file'[q] = file[q]
          /\ pc[q] \notin {"set", "commit"}
      BY <1>1, <1>4, <2>3 DEF MigrationsTypeOK
    <3>2. /\ current[q] \in Nat /\ current[q] <= version
          /\ pc[q] = "begun" => NextFile(file[q], current[q])
          /\ pc[q] = "up" => \A g \in Discovered : Number(g) <= version
      BY DEF ProcInv
    <3>3. current'[q] <= version'
      BY <2>1, <3>1, <3>2
    <3>4. pc[q] = "up" => \A g \in Discovered : Number(g) <= version'
      BY <2>1, <3>2, NumberFacts
    <3> QED
      BY <3>1, <3>2, <3>3, <3>4 DEF ProcInv, NextFile
  <2> QED
    BY <2>2, <2>3
<1> QED
  BY <1>2, <1>3, <1>5, <1>6, <1>7

(* Every step of the migrations.                                           *)
LEMMA MigrationsStep ==
  ASSUME DistinctNumbers, MigrationsInv, NEW p \in Procs,
         Run(p) \/ StatementFails(p) \/ Crash(p)
  PROVE  MigrationsInv' /\ (version' = version \/ version' > version)
BY LocalKeeps, RunScriptKeeps, SetUserVersionKeeps, CommitKeeps DEF Run, LocalStep

-----------------------------------------------------------------------------
(* Lifecycle: the inductive invariant                                      *)

(* main brings things up in order: catalogue, DB thread, HTTP thread.      *)
Bringup ==
  /\ main \in {"migrate", "refresh", "db_start"} => db = "none" /\ http = "none"
  /\ main \in {"http_new", "http_start"} => http = "none"
  /\ main \notin {"migrate", "refresh", "db_start", "exited"} => db # "none"
  /\ main = "db_start" \/ db # "none" => snapshot
  /\ http # "none" => db # "none"
  /\ \A r \in Requests : conns[r] # "none" => http # "none"

(* ... and takes them down in order: the DB thread is told to stop, and    *)
(* flushes for the last time, only when nobody can queue anything.         *)
Takedown ==
  /\ main = "exited" <=> ~Alive
  /\ main \in {"stop_db", "join_db"} => http \in {"none", "done"}
  /\ Alive /\ db # "none" /\ ~running => main = "join_db"
  /\ db = "done" => ~running /\ queue = {} /\ http \in {"none", "done"}
  /\ outcome = "exit0" => db = "done"
  /\ \A r \in Requests : conns[r] = "answered" <=> r \in queue \cup stored

LifeInv == LifeTypeOK /\ Bringup /\ Takedown /\ ThreadsJoined

LEMMA LifeInitInv == LifeInit => LifeInv
<1> SUFFICES ASSUME LifeInit PROVE LifeInv
  OBVIOUS
<1>1. LifeTypeOK
  <2>1. conns \in [Requests -> {"none", "open", "serving", "answered"}]
    BY DEF LifeInit
  <2>2. queue \subseteq Requests /\ stored \subseteq Requests \ queue /\ installed \subseteq Signals
    BY DEF LifeInit
  <2>3. sent \in 0..MaxSignals
    BY LifecycleAssumption DEF LifeInit
  <2> QED
    BY <2>1, <2>2, <2>3 DEF LifeInit, LifeTypeOK
<1>2. Bringup
  BY DEF LifeInit, Bringup
<1>3. Takedown /\ ThreadsJoined
  BY DEF LifeInit, Takedown, ThreadsJoined, Alive
<1> QED
  BY <1>1, <1>2, <1>3 DEF LifeInv

(* Every step of the server's life.                                        *)
LEMMA LifeStep ==
  ASSUME LifeInv, LifeNext
  PROVE  LifeInv'
<1> USE DEF LifeInv, Alive, At, Ends, shared
<1>1. ASSUME Migrate PROVE LifeInv'
  <2> USE <1>1 DEF Migrate
  <2>1. LifeTypeOK'
    BY LifecycleAssumption DEF LifeTypeOK, Takedown, Signals
  <2>2. Bringup'
    BY DEF LifeTypeOK, Bringup, Takedown, Signals
  <2>3. Takedown'
    BY DEF LifeTypeOK, Bringup, Takedown, Signals
  <2>4. ThreadsJoined'
    BY DEF LifeTypeOK, Bringup, Takedown, ThreadsJoined
  <2> QED
    BY <2>1, <2>2, <2>3, <2>4
<1>2. ASSUME RefreshNow PROVE LifeInv'
  <2> USE <1>2 DEF RefreshNow
  <2>1. LifeTypeOK'
    BY LifecycleAssumption, ZenonT(30) DEF LifeTypeOK, Takedown, Signals
  <2>2. Bringup'
    BY DEF LifeTypeOK, Bringup, Takedown, Signals
  <2>3. Takedown'
    BY DEF LifeTypeOK, Bringup, Takedown, Signals
  <2>4. ThreadsJoined'
    BY DEF LifeTypeOK, Bringup, Takedown, ThreadsJoined
  <2> QED
    BY <2>1, <2>2, <2>3, <2>4
<1>3. ASSUME DbStart PROVE LifeInv'
  <2> USE <1>3 DEF DbStart
  <2>1. LifeTypeOK'
    BY LifecycleAssumption DEF LifeTypeOK, Takedown, Signals
  <2>2. Bringup'
    BY DEF LifeTypeOK, Bringup, Takedown, Signals
  <2>3. Takedown'
    BY DEF LifeTypeOK, Bringup, Takedown, Signals
  <2>4. ThreadsJoined'
    BY DEF LifeTypeOK, Bringup, Takedown, ThreadsJoined
  <2> QED
    BY <2>1, <2>2, <2>3, <2>4
<1>4. ASSUME HttpNew PROVE LifeInv'
  <2> USE <1>4 DEF HttpNew
  <2>1. LifeTypeOK'
    BY LifecycleAssumption DEF LifeTypeOK, Takedown, Signals
  <2>2. Bringup'
    BY DEF LifeTypeOK, Bringup, Takedown, Signals
  <2>3. Takedown'
    BY DEF LifeTypeOK, Bringup, Takedown, Signals
  <2>4. ThreadsJoined'
    BY DEF LifeTypeOK, Bringup, Takedown, ThreadsJoined
  <2> QED
    BY <2>1, <2>2, <2>3, <2>4
<1>5. ASSUME HttpStart PROVE LifeInv'
  <2> USE <1>5 DEF HttpStart
  <2>1. LifeTypeOK'
    BY LifecycleAssumption DEF LifeTypeOK, Takedown, Signals
  <2>2. Bringup'
    BY DEF LifeTypeOK, Bringup, Takedown, Signals
  <2>3. Takedown'
    <3>1. running
      BY DEF Takedown, Bringup
    <3>2. db # "done"
      BY <3>1 DEF Takedown
    <3> QED
      BY <3>1, <3>2 DEF Takedown
  <2>4. ThreadsJoined'
    BY DEF LifeTypeOK, Bringup, Takedown, ThreadsJoined
  <2> QED
    BY <2>1, <2>2, <2>3, <2>4
<1>6. ASSUME Install PROVE LifeInv'
  <2> USE <1>6 DEF Install
  <2>1. LifeTypeOK'
    BY LifecycleAssumption DEF LifeTypeOK, Takedown, Signals
  <2>2. Bringup'
    BY DEF LifeTypeOK, Bringup, Takedown, Signals
  <2>3. Takedown'
    BY DEF LifeTypeOK, Bringup, Takedown, Signals
  <2>4. ThreadsJoined'
    BY DEF LifeTypeOK, Bringup, Takedown, ThreadsJoined
  <2> QED
    BY <2>1, <2>2, <2>3, <2>4
<1>7. ASSUME Wait PROVE LifeInv'
  <2> USE <1>7 DEF Wait
  <2>1. LifeTypeOK'
    BY LifecycleAssumption DEF LifeTypeOK, Takedown, Signals
  <2>2. Bringup'
    BY DEF LifeTypeOK, Bringup, Takedown, Signals
  <2>3. Takedown'
    BY DEF LifeTypeOK, Bringup, Takedown, Signals
  <2>4. ThreadsJoined'
    BY DEF LifeTypeOK, Bringup, Takedown, ThreadsJoined
  <2> QED
    BY <2>1, <2>2, <2>3, <2>4
<1>8. ASSUME StopHttp PROVE LifeInv'
  <2> USE <1>8 DEF StopHttp
  <2>1. LifeTypeOK'
    BY LifecycleAssumption DEF LifeTypeOK, Takedown, Signals
  <2>2. Bringup'
    BY DEF LifeTypeOK, Bringup, Takedown, Signals
  <2>3. Takedown'
    BY DEF LifeTypeOK, Bringup, Takedown, Signals
  <2>4. ThreadsJoined'
    BY DEF LifeTypeOK, Bringup, Takedown, ThreadsJoined
  <2> QED
    BY <2>1, <2>2, <2>3, <2>4
<1>9. ASSUME JoinHttp PROVE LifeInv'
  <2> USE <1>9 DEF JoinHttp, PastHttp
  <2>1. LifeTypeOK'
    BY LifecycleAssumption DEF LifeTypeOK, Takedown, Signals
  <2>2. Bringup'
    BY DEF LifeTypeOK, Bringup, Takedown, Signals
  <2>3. Takedown'
    BY DEF LifeTypeOK, Bringup, Takedown, Signals
  <2>4. ThreadsJoined'
    BY DEF LifeTypeOK, Bringup, Takedown, ThreadsJoined
  <2> QED
    BY <2>1, <2>2, <2>3, <2>4
<1>10. ASSUME StopDb PROVE LifeInv'
  <2> USE <1>10 DEF StopDb
  <2>1. LifeTypeOK'
    BY LifecycleAssumption DEF LifeTypeOK, Takedown, Signals
  <2>2. Bringup'
    BY DEF LifeTypeOK, Bringup, Takedown, Signals
  <2>3. Takedown'
    BY DEF LifeTypeOK, Bringup, Takedown, Signals
  <2>4. ThreadsJoined'
    BY DEF LifeTypeOK, Bringup, Takedown, ThreadsJoined
  <2> QED
    BY <2>1, <2>2, <2>3, <2>4
<1>11. ASSUME JoinDb PROVE LifeInv'
  <2> USE <1>11 DEF JoinDb
  <2>1. LifeTypeOK'
    BY LifecycleAssumption DEF LifeTypeOK, Takedown, Signals
  <2>2. Bringup'
    BY DEF LifeTypeOK, Bringup, Takedown, Signals
  <2>3. Takedown'
    BY DEF LifeTypeOK, Bringup, Takedown, Signals
  <2>4. ThreadsJoined'
    BY DEF LifeTypeOK, Bringup, Takedown, ThreadsJoined
  <2> QED
    BY <2>1, <2>2, <2>3, <2>4
<1>12. ASSUME Notify PROVE LifeInv'
  <2> USE <1>12 DEF Notify, HandlerReturns
  <2>1. LifeTypeOK'
    BY LifecycleAssumption DEF LifeTypeOK, Takedown, Signals
  <2>2. Bringup'
    BY DEF LifeTypeOK, Bringup, Takedown, Signals
  <2>3. Takedown'
    BY DEF LifeTypeOK, Bringup, Takedown, Signals
  <2>4. ThreadsJoined'
    BY DEF LifeTypeOK, Bringup, Takedown, ThreadsJoined
  <2> QED
    BY <2>1, <2>2, <2>3, <2>4
<1>13. ASSUME SpuriousWakeup PROVE LifeInv'
  <2> USE <1>13 DEF SpuriousWakeup
  <2>1. LifeTypeOK'
    BY LifecycleAssumption DEF LifeTypeOK, Takedown, Signals
  <2>2. Bringup'
    BY DEF LifeTypeOK, Bringup, Takedown, Signals
  <2>3. Takedown'
    BY DEF LifeTypeOK, Bringup, Takedown, Signals
  <2>4. ThreadsJoined'
    BY DEF LifeTypeOK, Bringup, Takedown, ThreadsJoined
  <2> QED
    BY <2>1, <2>2, <2>3, <2>4
<1>14. ASSUME Kill PROVE LifeInv'
  <2> USE <1>14 DEF Kill
  <2>1. LifeTypeOK'
    BY LifecycleAssumption DEF LifeTypeOK, Takedown, Signals
  <2>2. Bringup'
    BY DEF LifeTypeOK, Bringup, Takedown, Signals
  <2>3. Takedown'
    BY DEF LifeTypeOK, Bringup, Takedown, Signals
  <2>4. ThreadsJoined'
    BY DEF LifeTypeOK, Bringup, Takedown, ThreadsJoined
  <2> QED
    BY <2>1, <2>2, <2>3, <2>4
<1>15. ASSUME Bind PROVE LifeInv'
  <2> USE <1>15 DEF Bind
  <2>1. LifeTypeOK'
    BY LifecycleAssumption DEF LifeTypeOK, Takedown, Signals
  <2>2. Bringup'
    BY DEF LifeTypeOK, Bringup, Takedown, Signals
  <2>3. Takedown'
    BY DEF LifeTypeOK, Bringup, Takedown, Signals
  <2>4. ThreadsJoined'
    BY DEF LifeTypeOK, Bringup, Takedown, ThreadsJoined
  <2> QED
    BY <2>1, <2>2, <2>3, <2>4
<1>16. ASSUME RunReturns PROVE LifeInv'
  <2> USE <1>16 DEF RunReturns
  <2>1. LifeTypeOK'
    BY LifecycleAssumption DEF LifeTypeOK, Takedown, Signals
  <2>2. Bringup'
    BY DEF LifeTypeOK, Bringup, Takedown, Signals
  <2>3. Takedown'
    BY DEF LifeTypeOK, Bringup, Takedown, Signals
  <2>4. ThreadsJoined'
    BY DEF LifeTypeOK, Bringup, Takedown, ThreadsJoined
  <2> QED
    BY <2>1, <2>2, <2>3, <2>4
<1>17. ASSUME DbOpen PROVE LifeInv'
  <2> USE <1>17 DEF DbOpen
  <2>1. LifeTypeOK'
    BY LifecycleAssumption DEF LifeTypeOK, Takedown, Signals
  <2>2. Bringup'
    BY DEF LifeTypeOK, Bringup, Takedown, Signals
  <2>3. Takedown'
    BY DEF LifeTypeOK, Bringup, Takedown, Signals
  <2>4. ThreadsJoined'
    BY DEF LifeTypeOK, Bringup, Takedown, ThreadsJoined
  <2> QED
    BY <2>1, <2>2, <2>3, <2>4
<1>18. ASSUME DbRound PROVE LifeInv'
  <2> USE <1>18 DEF DbRound, FlushEvents, Write
  <2>1. LifeTypeOK'
    BY LifecycleAssumption, ZenonT(30) DEF LifeTypeOK, Takedown, Signals
  <2>2. Bringup'
    BY DEF LifeTypeOK, Bringup, Takedown, Signals
  <2>3. Takedown'
    BY DEF LifeTypeOK, Bringup, Takedown, Signals
  <2>4. ThreadsJoined'
    BY DEF LifeTypeOK, Bringup, Takedown, ThreadsJoined
  <2> QED
    BY <2>1, <2>2, <2>3, <2>4
<1>19. ASSUME NEW s \in Signals, Signal(s) PROVE LifeInv'
  <2> USE <1>19 DEF Signal
  <2>1. LifeTypeOK'
    <3>1. sent' \in 0..MaxSignals
      BY LifecycleAssumption DEF LifeTypeOK
    <3>3. flag' \in BOOLEAN /\ handler' \in {"idle", "stored"}
      BY DEF LifeTypeOK
    <3>2. \/ outcome' = outcome /\ main' = main
          \/ outcome' = "killed" /\ main' = "exited"
      OBVIOUS
    <3> QED
      BY <3>1, <3>2, <3>3 DEF LifeTypeOK
  <2>2. Bringup'
    BY DEF LifeTypeOK, Bringup, Takedown, Signals
  <2>3. Takedown'
    BY DEF LifeTypeOK, Bringup, Takedown, Signals
  <2>4. ThreadsJoined'
    BY DEF LifeTypeOK, Bringup, Takedown, ThreadsJoined
  <2> QED
    BY <2>1, <2>2, <2>3, <2>4
<1>20. ASSUME NEW r \in Requests, Accept(r) PROVE LifeInv'
  <2> USE <1>20 DEF Accept, Conn
  <2>1. LifeTypeOK'
    BY LifecycleAssumption DEF LifeTypeOK, Takedown, Signals
  <2>2. Bringup'
    BY DEF LifeTypeOK, Bringup, Takedown, Signals
  <2>3. Takedown'
    BY DEF LifeTypeOK, Bringup, Takedown, Signals
  <2>4. ThreadsJoined'
    BY DEF LifeTypeOK, Bringup, Takedown, ThreadsJoined
  <2> QED
    BY <2>1, <2>2, <2>3, <2>4
<1>21. ASSUME NEW r \in Requests, DispatchBegin(r) PROVE LifeInv'
  <2> USE <1>21 DEF DispatchBegin, Conn
  <2>1. LifeTypeOK'
    BY LifecycleAssumption DEF LifeTypeOK, Takedown, Signals
  <2>2. Bringup'
    BY DEF LifeTypeOK, Bringup, Takedown, Signals
  <2>3. Takedown'
    BY DEF LifeTypeOK, Bringup, Takedown, Signals
  <2>4. ThreadsJoined'
    BY DEF LifeTypeOK, Bringup, Takedown, ThreadsJoined
  <2> QED
    BY <2>1, <2>2, <2>3, <2>4
<1>22. ASSUME NEW r \in Requests, DispatchEnd(r) PROVE LifeInv'
  <2> USE <1>22 DEF DispatchEnd, Conn
  <2>1. LifeTypeOK'
    BY LifecycleAssumption DEF LifeTypeOK, Takedown, Signals
  <2>2. Bringup'
    BY DEF LifeTypeOK, Bringup, Takedown, Signals
  <2>3. Takedown'
    BY DEF LifeTypeOK, Bringup, Takedown, Signals
  <2>4. ThreadsJoined'
    BY DEF LifeTypeOK, Bringup, Takedown, ThreadsJoined
  <2> QED
    BY <2>1, <2>2, <2>3, <2>4
<1> QED
  BY <1>1, <1>2, <1>3, <1>4, <1>5, <1>6, <1>7, <1>8, <1>9, <1>10, <1>11,
     <1>12, <1>13, <1>14, <1>15, <1>16, <1>17, <1>18, <1>19, <1>20, <1>21, <1>22
     DEF LifeNext, Main, Http, Db
-----------------------------------------------------------------------------
(* Startup: migrations and life together                                   *)

AllApplied == \A f \in Discovered : Number(f) <= version

(* Once main is past apply_migrations nothing is missing from the schema.  *)
ReadyInv == main \notin {"migrate", "exited"} \/ db # "none" => AllApplied

StartupInv == MigrationsInv /\ LifeInv /\ ReadyInv

(* A step belongs to one of the two parts.                                 *)
LEMMA TwoParts ==
  ASSUME Next
  PROVE  \/ /\ \E p \in Procs : Run(p) \/ StatementFails(p) \/ Crash(p)
            /\ UNCHANGED lifeVars
         \/ LifeNext /\ Living /\ UNCHANGED migrationVars
BY DEF Next, Migrating, Living

(* Nobody starts the DB thread before the migrations, or after the end.    *)
LEMMA DbThreadStarts ==
  ASSUME LifeInv, LifeNext
  PROVE  /\ main = "migrate" => db' = "none"
         /\ main = "exited" => FALSE
<1>1. db' = db \/ DbStart \/ db \in {"opening", "loop"}
  BY DEF LifeNext, Main, Http, Db, Migrate, RefreshNow, HttpNew, HttpStart, Install,
         Wait, StopHttp, JoinHttp, PastHttp, StopDb, JoinDb, Notify, HandlerReturns,
         SpuriousWakeup, Kill, Signal, Bind, RunReturns, Accept, DispatchBegin,
         DispatchEnd, Conn, DbOpen, DbRound, DbStart
<1>2. main = "migrate" => db = "none" /\ ~DbStart
  BY DEF LifeInv, Bringup, DbStart, At
<1>3. Alive
  BY DEF LifeNext, Main, Http, Db, Migrate, RefreshNow, DbStart, HttpNew, HttpStart,
         Install, Wait, StopHttp, JoinHttp, PastHttp, StopDb, JoinDb, Notify,
         HandlerReturns, SpuriousWakeup, Kill, Signal, Bind, RunReturns, Accept,
         DispatchBegin, DispatchEnd, Conn, DbOpen, DbRound, At
<1> QED
  BY <1>1, <1>2, <1>3 DEF LifeInv, Takedown

LEMMA LifeInvariant == Spec => []LifeInv
<1>1. Init => LifeInv
  BY LifeInitInv DEF Init
<1>2. LifeInv /\ [Next]_vars => LifeInv'
  <2> SUFFICES ASSUME LifeInv, [Next]_vars PROVE LifeInv'
    OBVIOUS
  <2>1. CASE LifeNext
    BY <2>1, LifeStep
  <2>2. CASE UNCHANGED lifeVars
    BY <2>2 DEF LifeInv, LifeTypeOK, Bringup, Takedown, ThreadsJoined, Alive, lifeVars,
                shared
  <2> QED
    BY <2>1, <2>2, TwoParts DEF vars
<1> QED
  BY <1>1, <1>2, PTL DEF Spec

LEMMA TypesInvariant == Spec => []MigrationTypes
<1>1. Init => MigrationTypes
  BY MigrationTypesInit DEF Init
<1>2. MigrationTypes /\ [Next]_vars => MigrationTypes'
  <2> SUFFICES ASSUME MigrationTypes, [Next]_vars PROVE MigrationTypes'
    OBVIOUS
  <2>1. CASE \E p \in Procs : Run(p) \/ StatementFails(p) \/ Crash(p)
    BY <2>1, MigrationTypesStep
  <2>2. CASE UNCHANGED migrationVars
    BY <2>2 DEF MigrationTypes, MigrationsTypeOK, migrationVars
  <2> QED
    BY <2>1, <2>2, TwoParts DEF vars
<1> QED
  BY <1>1, <1>2, PTL DEF Spec

(* One step of the whole.                                                  *)
LEMMA StartupStep ==
  ASSUME DistinctNumbers, StartupInv, [Next]_vars
  PROVE  StartupInv' /\ (version' = version \/ version' > version)
<1> USE DEF StartupInv
<1>1. ASSUME NEW p \in Procs, Run(p) \/ StatementFails(p) \/ Crash(p), UNCHANGED lifeVars
      PROVE  StartupInv' /\ (version' = version \/ version' > version)
  <2>1. MigrationsInv' /\ (version' = version \/ version' > version)
    BY <1>1, MigrationsStep
  <2>2. LifeInv'
    BY <1>1 DEF LifeInv, LifeTypeOK, Bringup, Takedown, ThreadsJoined, Alive, lifeVars,
                shared
  <2>3. main' = main /\ db' = db
    BY <1>1 DEF lifeVars
  <2>4. AllApplied => AllApplied'
    <3>1. version \in Nat /\ version' \in Nat
      BY <2>1 DEF MigrationsInv, SchemaInv
    <3> QED
      BY <2>1, <3>1, NumberFacts DEF AllApplied
  <2> QED
    BY <2>1, <2>2, <2>3, <2>4 DEF ReadyInv
<1>2. ASSUME LifeNext, Living, UNCHANGED migrationVars
      PROVE  StartupInv' /\ version' = version
  <2>1. version' = version /\ MigrationsInv'
    <3>1. /\ version' = version /\ applied' = applied /\ tx' = tx /\ writer' = writer
          /\ pc' = pc /\ current' = current /\ file' = file
          /\ failures' = failures /\ crashes' = crashes
      BY <1>2 DEF migrationVars
    <3>2. MigrationTypes' /\ SchemaInv'
      BY <3>1 DEF MigrationsInv, MigrationTypes, MigrationsTypeOK, SchemaInv
    <3>3. \A p \in Procs : ProcInv(p)'
      BY <3>1 DEF MigrationsInv, ProcInv, NextFile
    <3> QED
      BY <3>1, <3>2, <3>3 DEF MigrationsInv
  <2>2. LifeInv'
    BY <1>2, LifeStep
  <2>3. AllApplied' <=> AllApplied
    BY <2>1 DEF AllApplied
  <2>4. CASE main = "migrate"
    <3>1. db' = "none" /\ Alive
      BY <1>2, <2>4, DbThreadStarts DEF LifeInv, Takedown
    <3>2. CASE main' = "refresh" /\ pc[Server] = "up"
      BY <2>1, <2>2, <2>3, <3>2, StartupAssumption
         DEF ReadyInv, MigrationsInv, ProcInv, AllApplied
    <3>3. CASE outcome' = "exit1"
      <4>1. main' = "exited"
        BY <2>2, <3>3 DEF LifeInv, Takedown, Alive
      <4> QED
        BY <2>1, <2>2, <3>1, <4>1 DEF ReadyInv
    <3> QED
      BY <1>2, <2>4, <3>1, <3>2, <3>3 DEF Living, At, Migrated
  <2>5. CASE main # "migrate"
    <3>1. AllApplied
      BY <1>2, <2>5, DbThreadStarts DEF ReadyInv
    <3> QED
      BY <2>1, <2>2, <2>3, <3>1 DEF ReadyInv
  <2> QED
    BY <2>4, <2>5
<1>3. ASSUME UNCHANGED vars PROVE StartupInv' /\ version' = version
  <2>1. /\ version' = version /\ applied' = applied /\ tx' = tx /\ writer' = writer
        /\ pc' = pc /\ current' = current /\ file' = file
        /\ failures' = failures /\ crashes' = crashes
    BY <1>3 DEF vars, migrationVars
  <2>2. MigrationTypes' /\ SchemaInv'
    BY <2>1 DEF MigrationsInv, MigrationTypes, MigrationsTypeOK, SchemaInv
  <2>3. \A p \in Procs : ProcInv(p)'
    BY <2>1 DEF MigrationsInv, ProcInv, NextFile
  <2>4. LifeInv'
    BY <1>3 DEF vars, LifeInv, LifeTypeOK, Bringup, Takedown, ThreadsJoined, Alive,
                lifeVars, shared
  <2>5. ReadyInv'
    BY <1>3, <2>1 DEF vars, lifeVars, ReadyInv, AllApplied
  <2> QED
    BY <2>1, <2>2, <2>3, <2>4, <2>5 DEF MigrationsInv
<1> QED
  BY <1>1, <1>2, <1>3, TwoParts

LEMMA StartupInvariant ==
  ASSUME DistinctNumbers
  PROVE  Spec => []StartupInv
<1>1. Init => StartupInv
  <2> SUFFICES ASSUME Init PROVE StartupInv
    OBVIOUS
  <2>1. main = "migrate" /\ db = "none"
    BY DEF Init, LifeInit
  <2> QED
    BY <2>1, MigrationsInitInv, LifeInitInv DEF Init, StartupInv, ReadyInv
<1>2. StartupInv /\ [Next]_vars => StartupInv'
  BY StartupStep
<1> QED
  BY <1>1, <1>2, PTL DEF Spec

-----------------------------------------------------------------------------
(* The types of Migrations and Lifecycle hold whatever files there are; in *)
(* particular SQLite's write lock is held by the process in the write part *)
(* of its transaction, and no event is queued and written at once.         *)
THEOREM TypeCorrect == Spec => []TypeOK
<1>1. MigrationTypes /\ LifeInv => TypeOK
  BY DEF MigrationTypes, LifeInv, TypeOK
<1> QED
  BY <1>1, TypesInvariant, LifeInvariant, PTL

(* Every way out of main but a signal or an abort has joined the threads   *)
(* main started, also when a template, the bind or the migrations fail.    *)
THEOREM AlwaysJoined == Spec => []ThreadsJoined
<1>1. LifeInv => ThreadsJoined
  BY DEF LifeInv
<1> QED
  BY <1>1, LifeInvariant, PTL

(* HttpServer::stop before DbWorker::stop: a clean exit has written the    *)
(* event of every request that was answered.                               *)
THEOREM ExitKeepsEvents == Spec => []CleanExitKeepsEvents
<1>1. LifeInv => CleanExitKeepsEvents
  BY DEF LifeInv, Takedown, CleanExitKeepsEvents
<1> QED
  BY <1>1, LifeInvariant, PTL

(* apply_migrations: as long as only migrations are numbered, the scripts  *)
(* in the database are at every moment exactly those up to user_version,   *)
(* each run once and in order, however many processes race, fail or crash. *)
THEOREM SchemaSound ==
  ASSUME StrayUnnumbered
  PROVE  Spec => []SchemaMatchesVersion
<1>1. StartupInv => SchemaMatchesVersion
  <2> SUFFICES ASSUME StartupInv PROVE SchemaMatchesVersion
    OBVIOUS
  <2>1. SchemaInv
    BY DEF StartupInv, MigrationsInv
  <2>2. \A f \in Discovered : Number(f) \in Versions
    BY UnnumberedDistinct
  <2>3. {Number(f) : f \in ToSet(applied)} = {v \in Versions : v <= version}
    <3>1. ASSUME NEW f \in ToSet(applied) PROVE Number(f) \in {v \in Versions : v <= version}
      BY <2>1, <2>2, <3>1 DEF SchemaInv
    <3>2. ASSUME NEW v \in Versions, v <= version PROVE \E f \in ToSet(applied) : Number(f) = v
      BY <2>1, <3>2, NumberFacts DEF SchemaInv
    <3> QED
      BY <3>1, <3>2
  <2> QED
    BY <2>1, <2>3 DEF SchemaMatchesVersion, SchemaInv
<1> QED
  BY <1>1, UnnumberedDistinct, StartupInvariant, PTL

(* user_version is never set back, although a process decides what to run  *)
(* from a value read before its transaction: two files with one number     *)
(* would be needed for that.                                               *)
THEOREM VersionAdvances ==
  ASSUME DistinctNumbers
  PROVE  Spec => VersionOnlyAdvances
<1>1. StartupInv /\ [Next]_vars => [version' > version]_version
  BY StartupStep
<1> QED
  BY <1>1, StartupInvariant, PTL DEF Spec, VersionOnlyAdvances

(* main.cpp:69 and 80: no process gets past apply_migrations and the DB    *)
(* thread does not run while a migration is missing, and no visitor is     *)
(* served from the empty catalogue.                                        *)
THEOREM ServesWhenReady ==
  ASSUME DistinctNumbers
  PROVE  Spec => []ReadyBeforeTraffic
<1>1. StartupInv => ReadyBeforeTraffic
  <2> SUFFICES ASSUME StartupInv PROVE ReadyBeforeTraffic
    OBVIOUS
  <2>1. ASSUME db # "none" \/ (\E p \in Procs : pc[p] = "up"), NEW v \in Versions
        PROVE  v <= version /\ \E f \in ToSet(applied) : Number(f) = v
    <3>1. AllApplied
      BY <2>1 DEF StartupInv, ReadyInv, MigrationsInv, ProcInv, AllApplied
    <3>2. PICK f \in Discovered : Number(f) = v
      BY NumberFacts
    <3>3. f \in ToSet(applied)
      BY <3>1, <3>2 DEF StartupInv, MigrationsInv, SchemaInv, AllApplied
    <3> QED
      BY <3>1, <3>2, <3>3 DEF AllApplied
  <2>2. ASSUME NEW r \in Requests, conns[r] \in {"serving", "answered"}
        PROVE  snapshot /\ db # "none"
    BY <2>2 DEF StartupInv, LifeInv, LifeTypeOK, Bringup
  <2> QED
    BY <2>1, <2>2 DEF ReadyBeforeTraffic
<1> QED
  BY <1>1, StartupInvariant, PTL
=============================================================================
