--------------------------- MODULE VisitorProofs ---------------------------
(***************************************************************************)
(* Proofs about Visitor: the cookies, the tracker and the files of one     *)
(* browser, for every number of requests, cards, pages and writes.         *)
(***************************************************************************)
EXTENDS Visitor, FiniteSetTheorems, SequenceTheorems, TLAPS

(* A step belongs to one of the three parts.                               *)
LEMMA ThreeParts ==
  ASSUME [VisitorNext]_visitorVars
  PROVE  /\ CookieNext \/ UNCHANGED cookieVars
         /\ TrackerNext \/ UNCHANGED trackerVars
         /\ FileNext \/ UNCHANGED fileVars
BY DEF VisitorNext, visitorVars

-----------------------------------------------------------------------------
(* StaticFiles                                                             *)

(* What the handler has found so far is at least as new as the file was    *)
(* when the request arrived, and every copy with a validator is at least   *)
(* as new as its validator, because the validator is taken first.          *)
FileInv ==
  /\ writes \in Nat /\ since \in Nat /\ since <= writes
  /\ disk # NoFile => disk.write = writes
  /\ body \in Nat /\ body <= writes
  /\ mtime # NoFile => mtime \in Nat /\ mtime <= writes
  /\ pc \in {"size", "open", "answer", "not_modified"} /\ mtime # NoFile => mtime >= since
  /\ pc \in {"open", "answer"} /\ etag # NoFile => etag[1] = mtime
  /\ pc = "answer" => body >= since /\ (mtime # NoFile => body >= mtime)
  /\ cache # NoFile =>
       /\ cache.body \in Nat
       /\ cache.etag # NoFile /\ cache.etag[1] # NoFile => cache.etag[1] <= cache.body
  /\ NeverStale

LEMMA FileInvariant == VisitorSpec => []FileInv
<1>1. VisitorInit => FileInv
  BY DEF VisitorInit, FileInit, FileInv, NeverStale
<1>2. ASSUME FileInv, [VisitorNext]_visitorVars PROVE FileInv'
  <2>1. ASSUME NEW size \in FileSizes, Write(size) PROVE FileInv'
    BY <1>2, <2>1 DEF Write, Deployed, FileInv, NeverStale
  <2>2. ASSUME RemoveFile PROVE FileInv'
    BY <1>2, <2>2 DEF RemoveFile, Deployed, FileInv, NeverStale
  <2>3. ASSUME Get PROVE FileInv'
    BY <1>2, <2>3 DEF Get, FileInv, NeverStale
  <2>4. ASSUME LastWriteTime PROVE FileInv'
    BY <1>2, <2>4 DEF LastWriteTime, Handled, FileInv, NeverStale
  <2>5. ASSUME FileSize PROVE FileInv'
    BY <1>2, <2>5 DEF FileSize, Handled, FileInv, NeverStale
  <2>6. ASSUME OpenFile PROVE FileInv'
    BY <1>2, <2>6 DEF OpenFile, Handled, FileInv, NeverStale
  <2>7. ASSUME Answer PROVE FileInv'
    BY <1>2, <2>7 DEF Answer, Handled, FileInv, NeverStale
  <2>8. ASSUME UNCHANGED fileVars PROVE FileInv'
    BY <1>2, <2>8 DEF fileVars, FileInv, NeverStale
  <2> QED
    BY <1>2, <2>1, <2>2, <2>3, <2>4, <2>5, <2>6, <2>7, <2>8, ThreeParts DEF FileNext
<1> QED
  BY <1>1, <1>2, PTL DEF VisitorSpec

(* handle_file: the copy a 200 or a 304 leaves the visitor with is at      *)
(* least as new as the file was when the request arrived, whatever a       *)
(* deploy does between the looks at the disk.                              *)
THEOREM CopiesNeverStale == VisitorSpec => []NeverStale
<1>1. FileInv => NeverStale
  BY DEF FileInv
<1> QED
  BY <1>1, FileInvariant, PTL

-----------------------------------------------------------------------------
(* Identity: the visit                                                     *)

Value == Nat \cup {NoCookie}

RequestRecord ==
  [state : {"sent", "served", "done", "lost"}, aid : Value, sid : Value,
   newAid : BOOLEAN, at : Nat, got : Nat, alone : BOOLEAN]

CookieTypes ==
  /\ now \in Nat /\ minted \in Nat
  /\ jar \in [aid : [value : Value, until : Nat], sid : [value : Value, until : Nat]]
  /\ req \in Seq(RequestRecord)

(* Identifiers: those in use were drawn, a logged request has both, and a  *)
(* device that a request mints is not the device of an earlier request.    *)
Drawn ==
  /\ \A v \in {jar.aid.value, jar.sid.value} : v \in Nat => v <= minted
  /\ \A k \in 1..Len(req) :
       /\ req[k].aid \in Nat => req[k].aid <= minted
       /\ req[k].sid \in Nat => req[k].sid <= minted
       /\ req[k].state = "sent" => ~req[k].newAid
       /\ req[k].state # "sent" => req[k].aid \in Nat /\ req[k].sid \in Nat
  /\ \A j \in 1..Len(req) : \A k \in 1..(j - 1) :
       req[j].newAid => req[k].aid # req[j].aid

(* A request sent alone was sent when the earlier ones had ended.          *)
AloneInv ==
  \A j \in 1..Len(req) : req[j].alone =>
    \A k \in 1..(j - 1) : req[k].state \in {"done", "lost"}

(* Of the requests r, the first j were made one after the other.           *)
Steady(r, j) ==
  /\ \A k \in 1..j : r[k].alone
  /\ \A k \in 1..(j - 1) : r[k].state = "done"

(* Request j was sent before the device of the request before it expired.  *)
InTime(r, j) ==
  \E k \in 1..(j - 1) :
    r[k].newAid /\ r[k].aid = r[j - 1].aid /\ r[j].at < r[k].got + AnonTtl

(* What request j carries, or was given when it was served.                *)
VisitOK(r, j) ==
  /\ j = 1 => IF r[j].state = "sent" THEN r[j].aid = NoCookie ELSE r[j].newAid
  /\ j > 1 =>
       /\ r[j].at < r[j - 1].got + SessionTtl => r[j].sid = r[j - 1].sid
       /\ r[j].at >= r[j - 1].got + SessionTtl =>
            IF r[j].state = "sent" THEN r[j].sid = NoCookie ELSE r[j].sid # r[j - 1].sid
       /\ InTime(r, j) => r[j].aid = r[j - 1].aid /\ ~r[j].newAid
       /\ ~InTime(r, j) => IF r[j].state = "sent" THEN r[j].aid = NoCookie ELSE r[j].newAid

(* The cookies c that the answers to the first n requests leave.           *)
JarOf(r, c, n) ==
  /\ n = 0 => c.aid.until = 0 /\ c.sid.until = 0
  /\ n > 0 =>
       /\ c.sid.value = r[n].sid /\ c.sid.until = r[n].got + SessionTtl
       /\ \E k \in 1..n : /\ r[k].newAid /\ r[k].aid = r[n].aid
                          /\ c.aid.value = r[n].aid /\ c.aid.until = r[k].got + AnonTtl

Answered(r, n) == n = 0 \/ r[n].state = "done"

UnderWay(r, n) == n > 0 /\ r[n].state \in {"sent", "served"}

JarOK(r, c, n) ==
  Steady(r, n) => /\ Answered(r, n) => JarOf(r, c, n)
                  /\ UnderWay(r, n) => JarOf(r, c, n - 1)

VisitInv ==
  /\ CookieTypes /\ Drawn /\ AloneInv
  /\ \A j \in 1..Len(req) : Steady(req, j) => VisitOK(req, j)
  /\ JarOK(req, jar, Len(req))

(* All this depends on the first j requests alone.                         *)
LEMMA PrefixDecides ==
  ASSUME NEW r, NEW t, NEW j \in Nat, \A k \in 1..j : r[k] = t[k]
  PROVE  /\ Steady(r, j) <=> Steady(t, j)
         /\ j > 0 => (VisitOK(r, j) <=> VisitOK(t, j))
         /\ \A c : JarOf(r, c, j) <=> JarOf(t, c, j)
<1>1. \A k \in 1..(j - 1) : r[k] = t[k]
  OBVIOUS
<1>2. Steady(r, j) <=> Steady(t, j)
  BY <1>1 DEF Steady
<1>3. ASSUME j > 0 PROVE VisitOK(r, j) <=> VisitOK(t, j)
  <2>1. r[j] = t[j] /\ (j > 1 => r[j - 1] = t[j - 1])
    BY <1>3
  <2>2. j > 1 => (InTime(r, j) <=> InTime(t, j))
    BY <1>1, <2>1 DEF InTime
  <2> QED
    BY <2>1, <2>2 DEF VisitOK
<1>4. ASSUME NEW c PROVE JarOf(r, c, j) <=> JarOf(t, c, j)
  BY DEF JarOf
<1> QED
  BY <1>2, <1>3, <1>4

LEMMA CookieInitInv == CookieInit => VisitInv
<1> SUFFICES ASSUME CookieInit PROVE VisitInv
  OBVIOUS
<1> USE DEF CookieInit
<1>1. CookieTypes
  BY DEF CookieTypes, Value
<1>2. Drawn /\ AloneInv /\ \A j \in 1..Len(req) : Steady(req, j) => VisitOK(req, j)
  BY IdentityAssumption DEF Drawn, AloneInv
<1>3. JarOK(req, jar, Len(req))
  BY DEF JarOK, JarOf, UnderWay
<1> QED
  BY <1>1, <1>2, <1>3 DEF VisitInv

(* The facts the steps below start from.                                   *)
LEMMA RequestFacts ==
  ASSUME VisitInv
  PROVE  /\ Len(req) \in Nat /\ DOMAIN req = 1..Len(req)
         /\ \A k \in 1..Len(req) : req[k] \in RequestRecord
<1>1. req \in Seq(RequestRecord)
  BY DEF VisitInv, CookieTypes
<1> QED
  BY <1>1

LEMMA SendKeeps ==
  ASSUME VisitInv, Send
  PROVE  VisitInv'
<1> DEFINE n == Len(req)
           new == [state |-> "sent", aid |-> Live(jar.aid), sid |-> Live(jar.sid),
                   newAid |-> FALSE, at |-> now, got |-> 0, alone |-> InFlight = {}]
<1>1. /\ n \in Nat /\ DOMAIN req = 1..n
      /\ \A k \in 1..n : req[k] \in RequestRecord
  BY RequestFacts
<1>2. now' = now /\ jar' = jar /\ minted' = minted /\ req' = Append(req, new)
  BY DEF Send
<1>3. Live(jar.aid) \in Value /\ Live(jar.sid) \in Value
  BY DEF VisitInv, CookieTypes, Live, Value
<1>4. new \in RequestRecord
  BY <1>3 DEF VisitInv, CookieTypes, RequestRecord
<1>5. /\ Len(req') = n + 1 /\ req'[n + 1] = new
      /\ \A k \in 1..n : req'[k] = req[k]
  <2>1. req \in Seq(RequestRecord)
    BY DEF VisitInv, CookieTypes
  <2> QED
    BY <1>2, <1>4, <2>1
<1> HIDE DEF n
<1>6. CookieTypes'
  <2>1. req \in Seq(RequestRecord)
    BY DEF VisitInv, CookieTypes
  <2>2. req' \in Seq(RequestRecord)
    BY <1>2, <1>4, <2>1
  <2> QED
    BY <1>2, <2>2 DEF VisitInv, CookieTypes
<1>7. Drawn'
  <2>1. \A v \in {Live(jar.aid), Live(jar.sid)} : v \in Nat => v <= minted
    BY IdentityAssumption DEF VisitInv, Drawn, Live
  <2>2. ASSUME NEW k \in 1..(n + 1)
        PROVE  /\ req'[k].aid \in Nat => req'[k].aid <= minted
               /\ req'[k].sid \in Nat => req'[k].sid <= minted
               /\ req'[k].state = "sent" => ~req'[k].newAid
               /\ req'[k].state # "sent" => req'[k].aid \in Nat /\ req'[k].sid \in Nat
    <3>1. CASE k = n + 1
      BY <1>5, <2>1, <3>1
    <3>2. CASE k \in 1..n
      BY <1>5, <3>2 DEF VisitInv, Drawn, n
    <3> QED
      BY <1>1, <3>1, <3>2
  <2>3. ASSUME NEW j \in 1..(n + 1), NEW k \in 1..(j - 1), req'[j].newAid
        PROVE  req'[k].aid # req'[j].aid
    <3>1. j \in 1..n /\ k \in 1..n
      BY <1>1, <1>5, <2>3
    <3> QED
      BY <1>5, <2>3, <3>1 DEF VisitInv, Drawn, n
  <2>4. \A v \in {jar'.aid.value, jar'.sid.value} : v \in Nat => v <= minted'
    BY <1>2 DEF VisitInv, Drawn
  <2>5. \A j \in 1..Len(req') : \A k \in 1..(j - 1) :
          req'[j].newAid => req'[k].aid # req'[j].aid
    BY <1>5, <2>3
  <2>6. \A k \in 1..Len(req') :
          /\ req'[k].aid \in Nat => req'[k].aid <= minted'
          /\ req'[k].sid \in Nat => req'[k].sid <= minted'
          /\ req'[k].state = "sent" => ~req'[k].newAid
          /\ req'[k].state # "sent" => req'[k].aid \in Nat /\ req'[k].sid \in Nat
    BY <1>2, <1>5, <2>2
  <2> QED
    BY <2>4, <2>5, <2>6 DEF Drawn
<1>8. AloneInv'
  <2>1. InFlight = {} => \A k \in 1..n : req[k].state \in {"done", "lost"}
    BY <1>1 DEF InFlight, RequestRecord
  <2>2. req'[n + 1].alone = (InFlight = {})
    BY <1>5
  <2>3. ASSUME NEW j \in 1..(n + 1), req'[j].alone, NEW k \in 1..(j - 1)
        PROVE  req'[k].state \in {"done", "lost"}
    <3>1. k \in 1..n /\ req'[k] = req[k]
      BY <1>1, <1>5, <2>3
    <3>2. CASE j = n + 1
      BY <2>1, <2>2, <2>3, <3>1, <3>2
    <3>3. CASE j \in 1..n
      BY <1>5, <2>3, <3>1, <3>3 DEF VisitInv, AloneInv, n
    <3> QED
      BY <1>1, <3>2, <3>3
  <2> QED
    BY <1>5, <2>3 DEF AloneInv
<1>9. ASSUME NEW j \in 1..n
      PROVE  Steady(req', j) => VisitOK(req', j)
  BY <1>1, <1>5, <1>9, PrefixDecides DEF VisitInv, n
<1>10. ASSUME Steady(req', n + 1)
       PROVE  JarOf(req, jar, n) /\ VisitOK(req', n + 1)
  <2>1. Steady(req, n) /\ Answered(req, n)
    BY <1>1, <1>5, <1>10 DEF Steady, Answered
  <2>2. JarOf(req, jar, n)
    BY <2>1 DEF VisitInv, JarOK, n
  <2>3. /\ jar.aid.until \in Nat /\ jar.sid.until \in Nat /\ now \in Nat
        /\ SessionTtl \in Nat /\ AnonTtl \in Nat
    BY IdentityAssumption DEF VisitInv, CookieTypes
  <2>4. CASE n = 0
    BY <1>5, <2>2, <2>3, <2>4 DEF VisitOK, JarOf, Live
  <2>5. CASE n > 0
    <3>1. PICK m \in 1..n : /\ req[m].newAid /\ req[m].aid = req[n].aid
                            /\ jar.aid.value = req[n].aid
                            /\ jar.aid.until = req[m].got + AnonTtl
      BY <2>2, <2>5 DEF JarOf
    <3>2. ASSUME NEW k \in 1..n, req[k].newAid, req[k].aid = req[n].aid
          PROVE  k = m
      <4>1. ~(k < m) /\ ~(m < k)
        BY <1>1, <3>1, <3>2 DEF VisitInv, Drawn, n
      <4> QED
        BY <1>1, <4>1
    <3>3. InTime(req', n + 1) <=> now < jar.aid.until
      BY <1>1, <1>5, <2>5, <3>1, <3>2 DEF InTime
    <3>4. /\ jar.sid.value = req[n].sid /\ jar.sid.until = req[n].got + SessionTtl
          /\ req[n].got \in Nat
      BY <1>1, <2>2, <2>5 DEF JarOf, RequestRecord
    <3>5. /\ req'[n + 1].at = now /\ req'[n + 1].state = "sent" /\ ~req'[n + 1].newAid
          /\ req'[n + 1].aid = Live(jar.aid) /\ req'[n + 1].sid = Live(jar.sid)
          /\ (n + 1) - 1 = n /\ n \in 1..n /\ req'[n] = req[n] /\ n + 1 > 1
      BY <1>1, <1>5, <2>5
    <3>6. Live(jar.sid) = IF now < req[n].got + SessionTtl THEN req[n].sid ELSE NoCookie
      BY <3>4 DEF Live
    <3>7. Live(jar.aid) = IF InTime(req', n + 1) THEN req[n].aid ELSE NoCookie
      BY <3>1, <3>3 DEF Live
    <3>8. now >= req[n].got + SessionTtl <=> ~(now < req[n].got + SessionTtl)
      BY <2>3, <3>4
    <3>9. n + 1 # 1
      BY <1>1, <2>5
    <3> HIDE DEF new
    <3> QED
      BY <2>2, <3>5, <3>6, <3>7, <3>8, <3>9 DEF VisitOK
  <2> QED
    BY <1>1, <2>2, <2>4, <2>5
<1>11. JarOK(req', jar', n + 1)
  <2>1. ~Answered(req', n + 1) /\ (n + 1) - 1 = n
    BY <1>1, <1>5 DEF Answered
  <2>2. JarOf(req, jar, n) => JarOf(req', jar, n)
    BY <1>1, <1>5, PrefixDecides
  <2> QED
    BY <1>2, <1>10, <2>1, <2>2 DEF JarOK
<1> QED
  <2>1. ASSUME NEW j \in 1..(n + 1) PROVE Steady(req', j) => VisitOK(req', j)
    BY <1>1, <1>9, <1>10
  <2> QED
    BY <1>5, <1>6, <1>7, <1>8, <1>11, <2>1 DEF VisitInv

(* A request that is under way and changes is the last of those made one   *)
(* after the other: what was so of the earlier ones stays, and of the      *)
(* later ones nothing is claimed.                                          *)
Touched(i) ==
  /\ i \in 1..Len(req) /\ req[i].state \in {"sent", "served"}
  /\ Len(req') = Len(req) /\ req'[i].alone = req[i].alone
  /\ \A k \in 1..Len(req) : k # i => req'[k] = req[k]

LEMMA TouchLast ==
  ASSUME VisitInv, NEW i, Touched(i),
         Steady(req', i) => VisitOK(req', i),
         i = Len(req) => JarOK(req', jar', i)
  PROVE  /\ AloneInv'
         /\ \A j \in 1..Len(req') : Steady(req', j) => VisitOK(req', j)
         /\ JarOK(req', jar', Len(req'))
<1> DEFINE n == Len(req)
<1>1. n \in Nat /\ i \in 1..n /\ Len(req') = n
  BY RequestFacts DEF Touched
<1>2. ASSUME NEW j \in 1..n, j > i PROVE ~req'[j].alone
  <2>1. ~req[j].alone
    BY <1>1, <1>2 DEF VisitInv, AloneInv, Touched
  <2> QED
    BY <1>2, <2>1 DEF Touched
<1> HIDE DEF n
<1>3. ASSUME NEW j \in 1..n, j > i PROVE ~Steady(req', j)
  BY <1>1, <1>2, <1>3 DEF Steady
<1>4. ASSUME NEW j \in 1..n, j < i PROVE Steady(req', j) => VisitOK(req', j)
  <2>1. j \in Nat /\ \A k \in 1..j : req'[k] = req[k]
    BY <1>1, <1>4 DEF Touched, n
  <2> QED
    BY <1>1, <1>4, <2>1, PrefixDecides DEF VisitInv, n
<1>5. AloneInv'
  <2>1. ASSUME NEW j \in 1..n, req'[j].alone, NEW k \in 1..(j - 1)
        PROVE  req'[k].state \in {"done", "lost"}
    <3>1. j <= i
      BY <1>1, <1>2, <2>1
    <3>2. k \in 1..n /\ k # i /\ req[j].alone
      BY <1>1, <2>1, <3>1 DEF Touched, n
    <3>3. req[k].state \in {"done", "lost"}
      BY <3>2 DEF VisitInv, AloneInv, n
    <3> QED
      BY <3>2, <3>3 DEF Touched, n
  <2> QED
    BY <1>1, <2>1 DEF AloneInv
<1>6. JarOK(req', jar', n)
  BY <1>1, <1>3 DEF JarOK, n
<1> QED
  <2>1. ASSUME NEW j \in 1..n PROVE Steady(req', j) => VisitOK(req', j)
    BY <1>1, <1>3, <1>4
  <2> QED
    BY <1>1, <1>5, <1>6, <2>1

LEMMA IdentifyKeeps ==
  ASSUME VisitInv, NEW i \in DOMAIN req, Identify(i)
  PROVE  VisitInv'
<1> DEFINE n == Len(req)
           newAid == req[i].aid = NoCookie
           newSid == req[i].sid = NoCookie
           drawn == minted + (IF newAid THEN 1 ELSE 0)
<1>1. /\ n \in Nat /\ i \in 1..n /\ DOMAIN req = 1..n
      /\ \A k \in 1..n : req[k] \in RequestRecord
  BY RequestFacts
<1>2. now' = now /\ jar' = jar /\ minted' = drawn + (IF newSid THEN 1 ELSE 0)
  BY DEF Identify
<1>3. minted \in Nat /\ drawn \in Nat /\ minted' \in Nat /\ minted' >= drawn /\ drawn >= minted
  BY <1>2 DEF VisitInv, CookieTypes
<1>4. /\ req[i].state = "sent" /\ req \in Seq(RequestRecord)
      /\ req' = [req EXCEPT ![i].state = "served", ![i].newAid = newAid,
                            ![i].aid = IF newAid THEN drawn ELSE @,
                            ![i].sid = IF newSid THEN drawn + 1 ELSE @]
  BY DEF Identify, VisitInv, CookieTypes
<1>5. /\ req'[i].state = "served" /\ (req'[i].newAid <=> newAid)
      /\ req'[i].aid = IF newAid THEN drawn ELSE req[i].aid
      /\ req'[i].sid = IF newSid THEN drawn + 1 ELSE req[i].sid
      /\ req'[i].at = req[i].at /\ req'[i].got = req[i].got /\ req'[i].alone = req[i].alone
      /\ req'[i] \in RequestRecord
  <2> DEFINE x == [req[i] EXCEPT !.state = "served", !.newAid = newAid,
                                 !.aid = IF newAid THEN drawn ELSE @,
                                 !.sid = IF newSid THEN drawn + 1 ELSE @]
  <2>1. req[i] \in RequestRecord
    BY <1>1
  <2>2. req'[i] = x
    BY <1>1, <1>4
  <2>3. /\ x.state = "served" /\ (x.newAid <=> newAid)
        /\ x.aid = IF newAid THEN drawn ELSE req[i].aid
        /\ x.sid = IF newSid THEN drawn + 1 ELSE req[i].sid
        /\ x.at = req[i].at /\ x.got = req[i].got /\ x.alone = req[i].alone
    BY <2>1 DEF RequestRecord
  <2>4. x \in RequestRecord
    <3>1. /\ newAid \in BOOLEAN /\ (IF newAid THEN drawn ELSE req[i].aid) \in Value
          /\ (IF newSid THEN drawn + 1 ELSE req[i].sid) \in Value
      BY <1>3, <2>1 DEF RequestRecord, Value
    <3> HIDE DEF newAid, newSid, drawn
    <3> QED
      BY <2>1, <3>1 DEF RequestRecord
  <2> HIDE DEF x
  <2> QED
    BY <2>2, <2>3, <2>4
<1>6. /\ Len(req') = n /\ req' \in Seq(RequestRecord)
      /\ \A k \in 1..n : k # i => req'[k] = req[k]
  <2>1. PICK x : req' = [req EXCEPT ![i] = x]
    BY <1>1, <1>4, ZenonT(30)
  <2>2. x \in RequestRecord /\ req \in Seq(RequestRecord)
    BY <1>1, <1>4, <1>5, <2>1
  <2> QED
    BY <1>1, <2>1, <2>2
<1>7. CookieTypes'
  BY <1>2, <1>3, <1>6 DEF VisitInv, CookieTypes
<1>8. Touched(i)
  BY <1>1, <1>4, <1>5, <1>6 DEF Touched
<1> HIDE DEF n
<1>9. \A k \in 1..n : /\ req[k].aid \in Nat => req[k].aid <= minted
                      /\ req[k].sid \in Nat => req[k].sid <= minted
                      /\ req[k].newAid => req[k].aid \in Nat
                      /\ req[k].state # "sent" => req[k].aid \in Nat /\ req[k].sid \in Nat
                      /\ req[k].state = "sent" => ~req[k].newAid
  BY DEF VisitInv, Drawn, n
<1>10. req[i].aid \in Nat \cup {NoCookie} /\ req[i].sid \in Nat \cup {NoCookie}
  BY <1>1 DEF RequestRecord, Value
<1>11. /\ req'[i].aid \in Nat /\ req'[i].aid <= drawn /\ req'[i].sid \in Nat
       /\ req'[i].sid <= minted'
  BY <1>1, <1>2, <1>3, <1>5, <1>9, <1>10
<1>12. Drawn'
  <2>1. \A v \in {jar'.aid.value, jar'.sid.value} : v \in Nat => v <= minted'
    BY <1>2, <1>3 DEF VisitInv, Drawn
  <2>2. ASSUME NEW k \in 1..n
        PROVE  /\ req'[k].aid \in Nat => req'[k].aid <= minted'
               /\ req'[k].sid \in Nat => req'[k].sid <= minted'
               /\ req'[k].state = "sent" => ~req'[k].newAid
               /\ req'[k].state # "sent" => req'[k].aid \in Nat /\ req'[k].sid \in Nat
    <3>1. CASE k = i
      BY <1>3, <1>5, <1>11, <3>1
    <3>2. CASE k # i
      BY <1>3, <1>6, <1>9, <3>2
    <3> QED
      BY <3>1, <3>2
  <2>3. ASSUME NEW j \in 1..n, NEW k \in 1..(j - 1), req'[j].newAid
        PROVE  req'[k].aid # req'[j].aid
    <3>1. k \in 1..n /\ k # j
      BY <1>1
    <3>2. CASE j = i
      <4>1. req'[j].aid = minted + 1
        BY <1>3, <1>5, <2>3, <3>2
      <4> QED
        BY <1>3, <1>6, <1>9, <3>1, <3>2, <4>1, SMTT(30)
    <3>3. CASE j # i
      <4>1. req[j].newAid /\ req'[j].aid = req[j].aid /\ req[k].aid # req[j].aid
        BY <1>6, <2>3, <3>3 DEF VisitInv, Drawn, n
      <4>2. req[j].aid \in Nat /\ req[j].aid <= minted
        BY <1>9, <4>1
      <4> QED
        BY <1>3, <1>5, <1>6, <3>1, <4>1, <4>2
    <3> QED
      BY <3>2, <3>3
  <2>4. \A k \in 1..Len(req') :
          /\ req'[k].aid \in Nat => req'[k].aid <= minted'
          /\ req'[k].sid \in Nat => req'[k].sid <= minted'
          /\ req'[k].state = "sent" => ~req'[k].newAid
          /\ req'[k].state # "sent" => req'[k].aid \in Nat /\ req'[k].sid \in Nat
    BY <1>6, <2>2
  <2>5. \A j \in 1..Len(req') : \A k \in 1..(j - 1) :
          req'[j].newAid => req'[k].aid # req'[j].aid
    BY <1>6, <2>3
  <2> QED
    BY <2>1, <2>4, <2>5 DEF Drawn
<1>13. Steady(req', i) => Steady(req, i)
  BY <1>1, <1>5, <1>6 DEF Steady
<1>14. ASSUME Steady(req', i) PROVE VisitOK(req', i)
  <2>1. VisitOK(req, i)
    BY <1>1, <1>13, <1>14 DEF VisitInv, n
  <2>2. CASE i = 1
    BY <1>4, <1>5, <2>1, <2>2 DEF VisitOK
  <2>3. CASE i > 1
    <3>1. i - 1 \in 1..n /\ i - 1 # i /\ i - 1 \in 1..(i - 1)
      BY <1>1, <2>3
    <3>2. req'[i - 1] = req[i - 1] /\ req[i - 1].state = "done"
      BY <1>6, <1>13, <1>14, <3>1 DEF Steady
    <3>3. /\ req[i - 1].aid \in Nat /\ req[i - 1].sid \in Nat
          /\ req[i - 1].sid <= minted
      BY <1>9, <3>1, <3>2
    <3>4. InTime(req', i) <=> InTime(req, i)
      BY <1>1, <1>5, <1>6, <3>2 DEF InTime
    <3>5. /\ req[i].at < req[i - 1].got + SessionTtl => req[i].sid = req[i - 1].sid
          /\ req[i].at >= req[i - 1].got + SessionTtl => req[i].sid = NoCookie
          /\ InTime(req, i) => req[i].aid = req[i - 1].aid
          /\ ~InTime(req, i) => req[i].aid = NoCookie
      BY <1>4, <2>1, <2>3 DEF VisitOK
    <3>6. /\ req[i].sid = req[i - 1].sid => req'[i].sid = req'[i - 1].sid
          /\ req[i].sid = NoCookie => req'[i].sid # req'[i - 1].sid
          /\ req[i].aid = req[i - 1].aid => req'[i].aid = req'[i - 1].aid /\ ~req'[i].newAid
          /\ req[i].aid = NoCookie => req'[i].newAid
      BY <1>3, <1>5, <3>2, <3>3, IdentityAssumption
    <3> HIDE DEF newAid, newSid, drawn
    <3> QED
      BY <1>5, <2>3, <3>2, <3>4, <3>5, <3>6 DEF VisitOK
  <2> QED
    BY <1>1, <2>2, <2>3
<1>15. ASSUME i = Len(req) PROVE JarOK(req', jar', i)
  <2>1. ~Answered(req', i)
    BY <1>1, <1>5 DEF Answered
  <2>2. Steady(req', i) => JarOf(req, jar, i - 1)
    BY <1>1, <1>4, <1>13, <1>15 DEF VisitInv, JarOK, UnderWay
  <2>3. JarOf(req, jar, i - 1) => JarOf(req', jar, i - 1)
    <3>1. i - 1 \in Nat /\ \A k \in 1..(i - 1) : req'[k] = req[k]
      BY <1>1, <1>6
    <3> QED
      BY <3>1, PrefixDecides
  <2> QED
    BY <1>2, <2>1, <2>2, <2>3 DEF JarOK
<1> QED
  BY <1>7, <1>8, <1>12, <1>14, <1>15, TouchLast DEF VisitInv

(* An answer that arrives or is lost leaves the request's identity alone.  *)
LEMMA EndKeeps ==
  ASSUME VisitInv, NEW i \in DOMAIN req, Deliver(i) \/ Lose(i)
  PROVE  VisitInv'
<1> DEFINE n == Len(req)
<1>1. /\ n \in Nat /\ i \in 1..n /\ DOMAIN req = 1..n
      /\ \A k \in 1..n : req[k] \in RequestRecord
  BY RequestFacts
<1>2. now' = now /\ minted' = minted /\ now \in Nat /\ req[i].state = "served"
  BY DEF Deliver, Lose, VisitInv, CookieTypes
<1>3. jar' = jar \/ (Deliver(i) /\ jar' = ApplyIdentity(req[i]))
  BY DEF Deliver, Lose
<1>4. /\ req'[i].state \in {"done", "lost"}
      /\ Deliver(i) => req'[i].state = "done" /\ req'[i].got = now
      /\ ~Deliver(i) => req'[i].state = "lost" /\ jar' = jar
      /\ req'[i].newAid = req[i].newAid /\ req'[i].aid = req[i].aid
      /\ req'[i].sid = req[i].sid /\ req'[i].at = req[i].at /\ req'[i].alone = req[i].alone
      /\ req'[i] \in RequestRecord
  <2>1. CASE Deliver(i)
    <3>1. req' = [req EXCEPT ![i] = [@ EXCEPT !.state = "done", !.got = now]]
      BY <2>1 DEF Deliver
    <3> QED
      BY <1>1, <1>2, <2>1, <3>1 DEF RequestRecord
  <2>2. CASE Lose(i) /\ ~Deliver(i)
    <3>1. req' = [req EXCEPT ![i] = [@ EXCEPT !.state = "lost"]] /\ jar' = jar
      BY <2>2 DEF Lose
    <3> QED
      BY <1>1, <1>2, <2>2, <3>1 DEF RequestRecord
  <2> QED
    BY <2>1, <2>2
<1>5. /\ Len(req') = n /\ req' \in Seq(RequestRecord)
      /\ \A k \in 1..n : k # i => req'[k] = req[k]
  <2>1. req \in Seq(RequestRecord)
    BY DEF VisitInv, CookieTypes
  <2>2. \E x : req' = [req EXCEPT ![i] = x]
    BY DEF Deliver, Lose
  <2> QED
    BY <1>1, <1>4, <2>1, <2>2
<1>6. CookieTypes'
  <2>1. jar' \in [aid : [value : Value, until : Nat], sid : [value : Value, until : Nat]]
    BY <1>1, <1>2, <1>3, IdentityAssumption, SMTT(30)
       DEF VisitInv, CookieTypes, ApplyIdentity, Cookie, RequestRecord
  <2> QED
    BY <1>2, <1>5, <2>1 DEF VisitInv, CookieTypes
<1>7. Touched(i)
  BY <1>1, <1>2, <1>4, <1>5 DEF Touched
<1> HIDE DEF n
<1>8. Drawn'
  <2>1. \A v \in {jar'.aid.value, jar'.sid.value} : v \in Nat => v <= minted'
    BY <1>1, <1>2, <1>3 DEF VisitInv, Drawn, ApplyIdentity, Cookie, n
  <2>2. \A k \in 1..n : /\ req'[k].aid = req[k].aid /\ req'[k].sid = req[k].sid
                        /\ req'[k].newAid = req[k].newAid
                        /\ req'[k].state = "sent" <=> req[k].state = "sent"
    BY <1>1, <1>2, <1>4, <1>5
  <2>3. \A k \in 1..Len(req') :
          /\ req'[k].aid \in Nat => req'[k].aid <= minted'
          /\ req'[k].sid \in Nat => req'[k].sid <= minted'
          /\ req'[k].state = "sent" => ~req'[k].newAid
          /\ req'[k].state # "sent" => req'[k].aid \in Nat /\ req'[k].sid \in Nat
    BY <1>2, <1>5, <2>2 DEF VisitInv, Drawn, n
  <2>4. \A j \in 1..Len(req') : \A k \in 1..(j - 1) :
          req'[j].newAid => req'[k].aid # req'[j].aid
    <3>1. \A j \in 1..n : \A k \in 1..(j - 1) : k \in 1..n
      BY <1>1
    <3> QED
      BY <1>5, <2>2, <3>1 DEF VisitInv, Drawn, n
  <2> QED
    BY <2>1, <2>3, <2>4 DEF Drawn
<1>9. Steady(req', i) => Steady(req, i)
  BY <1>1, <1>4, <1>5 DEF Steady
<1>10. ASSUME Steady(req', i) PROVE VisitOK(req, i) /\ VisitOK(req', i)
  <2>1. VisitOK(req, i)
    BY <1>1, <1>9, <1>10 DEF VisitInv, n
  <2>2. \A k \in 1..(i - 1) : req'[k] = req[k]
    BY <1>1, <1>5
  <2>3. i > 1 => req'[i - 1] = req[i - 1] /\ (InTime(req', i) <=> InTime(req, i))
    BY <1>1, <1>4, <2>2 DEF InTime
  <2> QED
    BY <1>2, <1>4, <2>1, <2>3 DEF VisitOK
<1>11. ASSUME i = Len(req), Steady(req', i), Deliver(i)
       PROVE  JarOf(req', jar', i)
  <2>1. JarOf(req, jar, i - 1)
    BY <1>1, <1>2, <1>9, <1>11 DEF VisitInv, JarOK, UnderWay
  <2>2. jar' = ApplyIdentity(req[i])
    BY <1>11 DEF Deliver
  <2>3. jar'.sid.value = req'[i].sid /\ jar'.sid.until = req'[i].got + SessionTtl
    BY <1>4, <1>11, <2>2 DEF ApplyIdentity, Cookie
  <2>4. CASE req[i].newAid
    <3>1. jar'.aid.value = req'[i].aid /\ jar'.aid.until = req'[i].got + AnonTtl
      BY <1>4, <1>11, <2>2, <2>4 DEF ApplyIdentity, Cookie
    <3>2. i \in 1..i /\ req'[i].newAid
      BY <1>1, <1>4, <2>4
    <3> QED
      BY <1>1, <2>3, <3>1, <3>2 DEF JarOf
  <2>5. CASE ~req[i].newAid
    <3>1. i > 1 /\ req[i].aid = req[i - 1].aid
      BY <1>1, <1>2, <1>10, <1>11, <2>5 DEF VisitOK
    <3>2. PICK k \in 1..(i - 1) : /\ req[k].newAid /\ req[k].aid = req[i - 1].aid
                                  /\ jar.aid.value = req[i - 1].aid
                                  /\ jar.aid.until = req[k].got + AnonTtl
      BY <1>1, <2>1, <3>1 DEF JarOf
    <3>3. jar'.aid = jar.aid /\ k \in 1..i /\ req'[k] = req[k]
      BY <1>1, <1>5, <2>2, <2>5 DEF ApplyIdentity
    <3> QED
      BY <1>4, <2>3, <3>1, <3>2, <3>3 DEF JarOf
  <2> QED
    BY <2>4, <2>5
<1>12. ASSUME i = Len(req) PROVE JarOK(req', jar', i)
  <2>1. ~UnderWay(req', i)
    BY <1>4 DEF UnderWay
  <2>2. Answered(req', i) => Deliver(i)
    BY <1>1, <1>4 DEF Answered
  <2> QED
    BY <1>11, <1>12, <2>1, <2>2 DEF JarOK
<1> QED
  BY <1>6, <1>7, <1>8, <1>10, <1>12, TouchLast DEF VisitInv

LEMMA VisitInvariant == VisitorSpec => []VisitInv
<1>1. VisitorInit => VisitInv
  BY CookieInitInv DEF VisitorInit
<1>2. ASSUME VisitInv, [VisitorNext]_visitorVars PROVE VisitInv'
  <2>1. CASE Tick \/ UNCHANGED cookieVars
    <3>1. /\ jar' = jar /\ req' = req /\ minted' = minted /\ now' \in Nat
      BY <1>2, <2>1 DEF Tick, cookieVars, VisitInv, CookieTypes
    <3>2. CookieTypes' /\ Drawn' /\ AloneInv'
      BY <1>2, <3>1 DEF VisitInv, CookieTypes, Drawn, AloneInv
    <3> QED
      BY <1>2, <3>1, <3>2 DEF VisitInv
  <2>2. CASE CookieNext /\ ~Tick
    BY <1>2, <2>2, SendKeeps, IdentifyKeeps, EndKeeps DEF CookieNext
  <2> QED
    BY <1>2, <2>1, <2>2, ThreeParts
<1> QED
  BY <1>1, <1>2, PTL DEF VisitorSpec

(* identify and apply_identity: as long as the visitor waits for each      *)
(* answer and gets it, the visit breaks exactly when SessionTtl has passed *)
(* since the last answer, and the device exactly when AnonTtl has passed   *)
(* since the answer that set it.                                           *)
THEOREM VisitsBreakWhenIdle == VisitorSpec => []VisitBreaksWhenIdle
<1>1. VisitInv => VisitBreaksWhenIdle
  <2> SUFFICES ASSUME VisitInv, NEW i \in Logged, NEW j \in Logged, j = i + 1,
                      \A k \in 1..i : req[k].state = "done",
                      \A k \in 1..j : req[k].alone
               PROVE  /\ req[i].sid = req[j].sid <=> req[j].at < req[i].got + SessionTtl
                      /\ req[i].aid = req[j].aid <=>
                           \E k \in Logged : /\ req[k].newAid /\ req[k].aid = req[i].aid
                                             /\ req[j].at < req[k].got + AnonTtl
    BY DEF VisitBreaksWhenIdle
  <2> DEFINE n == Len(req)
  <2>1. /\ n \in Nat /\ DOMAIN req = 1..n
        /\ \A k \in 1..n : req[k] \in RequestRecord
    BY RequestFacts
  <2>2. /\ i \in 1..n /\ j \in 1..n /\ j > 1 /\ j - 1 = i /\ req[j].state # "sent"
        /\ Logged = {k \in 1..n : req[k].state # "sent"}
    BY <2>1 DEF Logged
  <2>3. Steady(req, j)
    BY <2>2 DEF Steady
  <2>4. VisitOK(req, j)
    BY <2>2, <2>3 DEF VisitInv
  <2>5. req[j].at \in Nat /\ req[i].got + SessionTtl \in Nat
    BY <2>1, <2>2, IdentityAssumption DEF RequestRecord
  <2>6. req[i].sid = req[j].sid <=> req[j].at < req[i].got + SessionTtl
    BY <2>2, <2>4, <2>5 DEF VisitOK
  <2>7. req[i].aid = req[j].aid <=> InTime(req, j)
    <3>1. req[j].newAid => req[i].aid # req[j].aid
      BY <2>1, <2>2 DEF VisitInv, Drawn
    <3> QED
      BY <2>2, <2>4, <3>1 DEF VisitOK
  <2>8. ASSUME NEW k \in 1..n, req[k].newAid, req[k].aid = req[i].aid
        PROVE  k \in 1..i
    BY <2>1, <2>2, <2>8 DEF VisitInv, Drawn
  <2>9. \A k \in 1..i : k \in Logged
    BY <2>1, <2>2
  <2>10. InTime(req, j) <=> \E k \in Logged : /\ req[k].newAid /\ req[k].aid = req[i].aid
                                              /\ req[j].at < req[k].got + AnonTtl
    <3>1. InTime(req, j) <=> \E k \in 1..i : /\ req[k].newAid /\ req[k].aid = req[i].aid
                                             /\ req[j].at < req[k].got + AnonTtl
      BY <2>2 DEF InTime
    <3> QED
      BY <2>2, <2>8, <2>9, <3>1
  <2> QED
    BY <2>6, <2>7, <2>10
<1> QED
  BY <1>1, VisitInvariant, PTL

-----------------------------------------------------------------------------
(* Identity: the device                                                    *)

(* Requests that were sent without a device: their answers bring one.      *)
Deviceless(r) == r.newAid \/ (r.state = "sent" /\ r.aid = NoCookie)

(* A request in flight that may bring a device was sent no later than the  *)
(* device in the jar was put there.                                        *)
DeviceInv ==
  /\ \A i \in DOMAIN req : req[i].at <= now
  /\ Live(jar.aid) # NoCookie =>
       \A i \in InFlight : Deviceless(req[i]) => req[i].at + AnonTtl <= jar.aid.until

LEMMA DeviceKept ==
  ASSUME VisitInv, DeviceInv, CookieNext \/ UNCHANGED cookieVars
  PROVE  DeviceInv'
<1>1. /\ now \in Nat /\ AnonTtl \in Nat /\ req \in Seq(RequestRecord)
      /\ jar \in [aid : [value : Value, until : Nat], sid : [value : Value, until : Nat]]
      /\ DOMAIN req = 1..Len(req) /\ Len(req) \in Nat
      /\ \A i \in DOMAIN req : req[i] \in RequestRecord /\ req[i].at \in Nat
  <2>1. /\ now \in Nat /\ AnonTtl \in Nat /\ req \in Seq(RequestRecord)
        /\ jar \in [aid : [value : Value, until : Nat], sid : [value : Value, until : Nat]]
    BY IdentityAssumption DEF VisitInv, CookieTypes
  <2>2. DOMAIN req = 1..Len(req) /\ Len(req) \in Nat /\ \A i \in DOMAIN req : req[i] \in RequestRecord
    BY <2>1
  <2>3. \A i \in DOMAIN req : req[i].at \in Nat
    BY <2>2 DEF RequestRecord
  <2> QED
    BY <2>1, <2>2, <2>3
<1>2. CASE Send
  <2> DEFINE r == [state |-> "sent", aid |-> Live(jar.aid), sid |-> Live(jar.sid),
                   newAid |-> FALSE, at |-> now, got |-> 0, alone |-> InFlight = {}]
  <2>1. /\ req' = Append(req, r) /\ now' = now /\ jar' = jar
        /\ r.at = now /\ r.aid = Live(jar.aid) /\ ~r.newAid /\ r.state = "sent"
    BY <1>2 DEF Send
  <2> HIDE DEF r
  <2>2. /\ DOMAIN req' = 1..(Len(req) + 1) /\ req'[Len(req) + 1] = r
        /\ \A i \in DOMAIN req : req'[i] = req[i]
    BY <1>1, <2>1
  <2>3. Live(jar.aid)' = Live(jar.aid)
    BY <2>1 DEF Live
  <2>4. \A i \in DOMAIN req' : i \in DOMAIN req \/ i = Len(req) + 1
    BY <1>1, <2>2
  <2>5. \A i \in DOMAIN req' : req'[i].at <= now'
    BY <1>1, <2>1, <2>2, <2>4 DEF DeviceInv
  <2>6. ASSUME Live(jar.aid)' # NoCookie, NEW i \in InFlight', Deviceless(req'[i])
        PROVE  req'[i].at + AnonTtl <= jar'.aid.until
    <3>1. i # Len(req) + 1
      BY <2>1, <2>2, <2>3, <2>6 DEF Deviceless
    <3>2. i \in InFlight /\ req'[i] = req[i]
      BY <2>2, <2>4, <2>6, <3>1 DEF InFlight
    <3> QED
      BY <2>1, <2>3, <2>6, <3>2 DEF DeviceInv
  <2> QED
    BY <2>5, <2>6 DEF DeviceInv
<1>3. CASE Tick \/ UNCHANGED cookieVars
  <2>1. now' \in Nat /\ now <= now' /\ UNCHANGED <<jar, req>>
    BY <1>1, <1>3 DEF Tick, cookieVars
  <2>2. Live(jar.aid)' # NoCookie => Live(jar.aid) # NoCookie
    BY <1>1, <2>1 DEF Live
  <2>3. InFlight' = InFlight
    BY <2>1 DEF InFlight
  <2> QED
    BY <1>1, <2>1, <2>2, <2>3 DEF DeviceInv
<1>4. ASSUME NEW k \in DOMAIN req, Identify(k) \/ Deliver(k) \/ Lose(k)
      PROVE  DeviceInv'
  <2>1. /\ now' = now /\ DOMAIN req' = DOMAIN req
        /\ \A i \in DOMAIN req : i # k => req'[i] = req[i]
        /\ req'[k].at = req[k].at
    BY <1>1, <1>4 DEF Identify, Deliver, Lose, RequestRecord
  <2>2. \A i \in DOMAIN req' : req'[i].at <= now'
    BY <2>1 DEF DeviceInv
  <2>3. ASSUME NEW i \in InFlight'
        PROVE  /\ i \in InFlight /\ req'[i].at = req[i].at
               /\ Deviceless(req'[i]) => Deviceless(req[i])
    <3>1. CASE i # k
      BY <2>1, <2>3, <3>1 DEF InFlight
    <3>2. CASE i = k
      <4>1. i \in DOMAIN req /\ req'[i].state \in {"sent", "served"}
        BY <2>1, <2>3 DEF InFlight
      <4>2. Identify(k)
        BY <1>1, <1>4, <3>2, <4>1 DEF Deliver, Lose, RequestRecord
      <4>3. /\ req[k].state = "sent" /\ req'[k].state = "served"
            /\ req'[k].newAid = (req[k].aid = NoCookie)
        BY <1>1, <4>2 DEF Identify, RequestRecord
      <4> QED
        BY <2>1, <3>2, <4>1, <4>3 DEF InFlight, Deviceless
    <3> QED
      BY <3>1, <3>2
  <2>4. CASE jar'.aid = jar.aid
    <3>1. Live(jar.aid)' = Live(jar.aid)
      BY <2>1, <2>4 DEF Live
    <3> QED
      BY <2>2, <2>3, <2>4, <3>1 DEF DeviceInv
  <2>5. CASE jar'.aid # jar.aid
    <3>1. jar'.aid.until = now + AnonTtl
      BY <1>4, <2>5 DEF Identify, Deliver, Lose, ApplyIdentity, Cookie
    <3>2. \A i \in InFlight' : req'[i].at + AnonTtl <= jar'.aid.until
      BY <1>1, <2>3, <3>1 DEF InFlight, DeviceInv
    <3> QED
      BY <2>2, <3>2 DEF DeviceInv
  <2> QED
    BY <2>4, <2>5
<1> QED
  BY <1>2, <1>3, <1>4 DEF CookieNext

(* identify, apply_identity: once the jar has a device, aid ends only by   *)
(* expiring or by an answer to a request that was sent before it was       *)
(* there: no late answer to any other request replaces it.                 *)
THEOREM DeviceStable == VisitorSpec => AidStable
<1>1. VisitorInit => DeviceInv
  BY DEF VisitorInit, CookieInit, DeviceInv, InFlight
<1>2. ASSUME VisitInv, DeviceInv, [VisitorNext]_visitorVars PROVE DeviceInv'
  BY <1>2, ThreeParts, DeviceKept
<1>3. ASSUME VisitInv, DeviceInv, [VisitorNext]_visitorVars PROVE AidKept
  <2> SUFFICES ASSUME Live(jar.aid) # NoCookie
               PROVE  \/ Live(jar.aid)' \in {Live(jar.aid), NoCookie}
                      \/ \E i \in InFlight : /\ req[i].newAid /\ req'[i].state = "done"
                                             /\ req[i].at + AnonTtl <= jar.aid.until
    BY DEF AidKept
  <2>1. ASSUME NEW i \in DOMAIN req, Deliver(i), req[i].newAid
        PROVE  /\ i \in InFlight /\ req'[i].state = "done"
               /\ req[i].at + AnonTtl <= jar.aid.until
    <3>1. i \in InFlight
      BY <2>1 DEF Deliver, InFlight
    <3>2. req'[i].state = "done"
      <4>1. req \in Seq(RequestRecord) /\ req[i] \in RequestRecord
        BY <1>3, <2>1 DEF VisitInv, CookieTypes
      <4> QED
        BY <2>1, <4>1 DEF Deliver, RequestRecord
    <3> QED
      BY <1>3, <2>1, <3>1, <3>2 DEF DeviceInv, Deviceless
  <2>2. ASSUME NEW i \in DOMAIN req, Deliver(i), ~req[i].newAid
        PROVE  Live(jar.aid)' = Live(jar.aid)
    <3>1. jar'.aid = jar.aid /\ now' = now
      BY <2>2 DEF Deliver, ApplyIdentity
    <3> QED
      BY <3>1 DEF Live
  <2>3. CASE ~\E i \in DOMAIN req : Deliver(i)
    <3>1. jar' = jar
      BY <1>3, <2>3, ThreeParts
         DEF CookieNext, Send, Tick, Identify, Lose, cookieVars
    <3>2. Live(jar.aid) = jar.aid.value
      BY <1>3 DEF Live
    <3>3. Live(jar.aid)' = IF now' < jar'.aid.until THEN jar'.aid.value ELSE NoCookie
      BY DEF Live
    <3> QED
      BY <3>1, <3>2, <3>3
  <2>4. ASSUME NEW i \in DOMAIN req, Deliver(i)
        PROVE  \/ Live(jar.aid)' \in {Live(jar.aid), NoCookie}
               \/ \E k \in InFlight : /\ req[k].newAid /\ req'[k].state = "done"
                                      /\ req[k].at + AnonTtl <= jar.aid.until
    BY <2>1, <2>2, <2>4
  <2> QED
    BY <2>3, <2>4
<1> QED
  BY <1>1, <1>2, <1>3, VisitInvariant, PTL DEF VisitorSpec, AidStable

-----------------------------------------------------------------------------
(* ImpressionTracker                                                       *)

Message == [page : Pages, items : Seq(Cards)]

TrackerTypes ==
  /\ page \in Pages /\ timers \subseteq Cards /\ observed \subseteq Cards
  /\ seen \in [Pages -> SUBSET Cards]
  /\ queue \in Seq(Cards) /\ IsInjective(queue)
  /\ wire \in Seq(Message) /\ \A k \in 1..Len(wire) : IsInjective(wire[k].items)
  /\ reported \in [Pages \X Cards -> {0, 1}]

(* Where a card of a page can be found.                                    *)
Queued(p, c) == p = page /\ c \in ToSet(queue)
Carried(k, p, c) == wire[k].page = p /\ c \in ToSet(wire[k].items)
Recorded(p, c) == reported[<<p, c>>] = 1
Gone(p, c) == <<p, c>> \in lost

OneBatch(p, c) ==
  \A k, l \in 1..Len(wire) : Carried(k, p, c) /\ Carried(l, p, c) => k = l

OnePlace(p, c) ==
  /\ ~(Queued(p, c) /\ Recorded(p, c)) /\ ~(Queued(p, c) /\ Gone(p, c))
  /\ ~(Recorded(p, c) /\ Gone(p, c))
  /\ \A k \in 1..Len(wire) :
       Carried(k, p, c) => ~Queued(p, c) /\ ~Recorded(p, c) /\ ~Gone(p, c)

Somewhere(p, c) ==
  \/ Queued(p, c) \/ Recorded(p, c) \/ Gone(p, c)
  \/ \E k \in 1..Len(wire) : Carried(k, p, c)

(* A card of a page is in at most one place, and in one exactly when it    *)
(* has been seen there.                                                    *)
TrackerInv ==
  /\ TrackerTypes
  /\ \A p \in Pages, c \in Cards :
       OneBatch(p, c) /\ OnePlace(p, c) /\ (c \in seen[p] <=> Somewhere(p, c))

(* A sequence without repetitions is no longer than the cards are many,    *)
(* and shorter when it misses one: enqueue never finds the queue full.     *)
LEMMA ShortBatch ==
  ASSUME NEW s \in Seq(Cards), IsInjective(s)
  PROVE  /\ Len(s) <= MaxBatch /\ Len(s) <= KMaxBatch
         /\ \A c \in Cards : c \notin ToSet(s) => Len(s) < MaxBatch
<1>1. Len(s) \in Nat /\ s \in [1..Len(s) -> Cards] /\ DOMAIN s = 1..Len(s)
  OBVIOUS
<1>2. Cardinality(1..Len(s)) = Len(s)
  BY <1>1, FS_Interval, SMTT(30)
<1>3. Cardinality(Cards) \in Nat
  BY TrackerAssumption, FS_CardinalityType
<1>4. Len(s) <= Cardinality(Cards)
  <2>1. s \in Injection(1..Len(s), Cards)
    BY <1>1 DEF Injection
  <2> QED
    BY <1>2, <2>1, FS_Injection, TrackerAssumption
<1>5. ASSUME NEW c \in Cards, c \notin ToSet(s) PROVE Len(s) < MaxBatch
  <2>1. s \in [1..Len(s) -> Cards \ {c}]
    BY <1>1, <1>5 DEF ToSet
  <2>2. s \in Injection(1..Len(s), Cards \ {c})
    BY <2>1 DEF Injection
  <2>3. /\ IsFiniteSet(Cards \ {c})
        /\ Cardinality(Cards \ {c}) = Cardinality(Cards) - 1
    BY FS_RemoveElement, TrackerAssumption
  <2>4. Len(s) <= Cardinality(Cards) - 1
    BY <1>2, <2>2, <2>3, FS_Injection
  <2> QED
    BY <1>1, <1>3, <2>4, TrackerAssumption
<1> QED
  BY <1>1, <1>3, <1>4, <1>5, TrackerAssumption

(* What RemoveAt leaves.                                                   *)
LEMMA Removed ==
  ASSUME NEW S, NEW s \in Seq(S), NEW k \in 1..Len(s)
  PROVE  /\ RemoveAt(s, k) \in Seq(S)
         /\ Len(RemoveAt(s, k)) = Len(s) - 1
         /\ \A i \in 1..(Len(s) - 1) :
              RemoveAt(s, k)[i] = IF i < k THEN s[i] ELSE s[i + 1]
<1> DEFINE a == SubSeq(s, 1, k - 1)
           b == SubSeq(s, k + 1, Len(s))
<1>1. Len(s) \in Nat /\ k - 1 \in 0..Len(s) /\ k \in Int
  OBVIOUS
<1>2. /\ a \in Seq(S) /\ Len(a) = k - 1
      /\ \A i \in 1..(k - 1) : a[i] = s[i]
  BY <1>1
<1>3. /\ b \in Seq(S) /\ Len(b) = Len(s) - k
      /\ \A i \in 1..(Len(s) - k) : b[i] = s[k + i]
  BY <1>1
<1> HIDE DEF a, b
<1>4. /\ a \o b \in Seq(S) /\ Len(a \o b) = Len(a) + Len(b)
      /\ \A i \in 1..(Len(a) + Len(b)) :
           (a \o b)[i] = IF i <= Len(a) THEN a[i] ELSE b[i - Len(a)]
  BY <1>2, <1>3, ConcatProperties
<1>5. RemoveAt(s, k) = a \o b
  BY DEF RemoveAt, a, b
<1>6. ASSUME NEW i \in 1..(Len(s) - 1)
      PROVE  (a \o b)[i] = IF i < k THEN s[i] ELSE s[i + 1]
  <2>1. CASE i < k
    BY <1>1, <1>2, <1>3, <1>4, <2>1
  <2>2. CASE i >= k
    <3> DEFINE m == i - (k - 1)
    <3>1. m \in 1..(Len(s) - k) /\ k + m = i + 1 /\ ~(i < k)
      BY <1>1, <2>2
    <3>2. (a \o b)[i] = b[m]
      BY <1>1, <1>2, <1>3, <1>4, <2>2, SMTT(30)
    <3> HIDE DEF m
    <3>3. b[m] = s[k + m]
      BY <1>3, <3>1
    <3> QED
      BY <3>1, <3>2, <3>3
  <2>3. i < k \/ i >= k
    BY <1>1
  <2> QED
    BY <2>1, <2>2, <2>3
<1> QED
  BY <1>1, <1>2, <1>3, <1>4, <1>5, <1>6, SMTT(30)

LEMMA TrackerFacts ==
  ASSUME TrackerInv
  PROVE  /\ Len(wire) \in Nat /\ DOMAIN wire = 1..Len(wire)
         /\ \A k \in 1..Len(wire) :
              /\ wire[k] \in Message /\ wire[k].page \in Pages
              /\ wire[k].items \in Seq(Cards) /\ IsInjective(wire[k].items)
         /\ wire \in Seq(Message)
<1>1. wire \in Seq(Message) /\ \A k \in 1..Len(wire) : IsInjective(wire[k].items)
  BY DEF TrackerInv, TrackerTypes
<1>2. /\ Len(wire) \in Nat /\ DOMAIN wire = 1..Len(wire)
      /\ \A k \in 1..Len(wire) : wire[k] \in Message
  BY <1>1
<1>3. \A b \in Message : b.page \in Pages /\ b.items \in Seq(Cards)
  BY DEF Message
<1> QED
  BY <1>1, <1>2, <1>3

(* What a card that is queued or already seen does when its timer fires.   *)
LEMMA DweltKeeps ==
  ASSUME TrackerInv, NEW d \in Cards, Dwelt(d)
  PROVE  TrackerInv'
<1>1. /\ page \in Pages /\ queue \in Seq(Cards) /\ IsInjective(queue)
      /\ seen \in [Pages -> SUBSET Cards] /\ timers \subseteq Cards /\ observed \subseteq Cards
  BY DEF TrackerInv, TrackerTypes
<1>2. /\ page' = page /\ wire' = wire /\ reported' = reported /\ lost' = lost
      /\ timers' \subseteq Cards /\ observed' \subseteq Cards
      /\ seen' = [seen EXCEPT ![page] = @ \cup {d}]
  BY <1>1 DEF Dwelt, Enqueue
<1>3. seen' \in [Pages -> SUBSET Cards]
  BY <1>1, <1>2
<1>4. CASE d \in seen[page]
  <2>1. queue' = queue
    BY <1>4 DEF Dwelt, Enqueue
  <2>2. seen' = seen
    BY <1>1, <1>2, <1>4
  <2> QED
    BY <1>2, <2>1, <2>2
       DEF TrackerInv, TrackerTypes, OneBatch, OnePlace, Somewhere, Queued, Carried,
           Recorded, Gone
<1>5. CASE d \notin seen[page]
  <2>1. ~Somewhere(page, d)
    BY <1>1, <1>5 DEF TrackerInv
  <2>2. d \notin ToSet(queue)
    BY <2>1 DEF Somewhere, Queued
  <2>3. queue' = Append(queue, d)
    <3>1. Len(queue) < MaxBatch /\ Len(queue) \in Nat
      BY <1>1, <2>2, ShortBatch
    <3> QED
      BY <1>5, <3>1, TrackerAssumption DEF Dwelt, Enqueue
  <2>4. queue' \in Seq(Cards) /\ IsInjective(queue')
    BY <1>1, <2>2, <2>3 DEF IsInjective, ToSet
  <2>5. ToSet(queue') = ToSet(queue) \cup {d}
    <3>1. /\ Len(queue) \in Nat /\ DOMAIN queue = 1..Len(queue)
          /\ DOMAIN queue' = 1..(Len(queue) + 1) /\ queue'[Len(queue) + 1] = d
          /\ \A i \in 1..Len(queue) : queue'[i] = queue[i]
      BY <1>1, <2>3
    <3> QED
      BY <3>1 DEF ToSet
  <2>6. TrackerTypes'
    BY <1>2, <1>3, <2>4 DEF TrackerInv, TrackerTypes
  <2>7. ASSUME NEW p \in Pages, NEW c \in Cards
        PROVE  OneBatch(p, c)' /\ OnePlace(p, c)' /\ (c \in seen'[p] <=> Somewhere(p, c)')
    <3>1. /\ Recorded(p, c)' <=> Recorded(p, c)
          /\ Gone(p, c)' <=> Gone(p, c)
          /\ \A k : Carried(k, p, c)' <=> Carried(k, p, c)
      BY <1>2 DEF Recorded, Gone, Carried
    <3>2. Queued(p, c)' <=> Queued(p, c) \/ (p = page /\ c = d)
      BY <1>2, <2>5 DEF Queued
    <3>3. c \in seen'[p] <=> c \in seen[p] \/ (p = page /\ c = d)
      BY <1>1, <1>2
    <3>4. OneBatch(p, c) /\ OnePlace(p, c) /\ (c \in seen[p] <=> Somewhere(p, c))
      BY DEF TrackerInv
    <3> QED
      BY <1>2, <2>1, <3>1, <3>2, <3>3, <3>4 DEF OneBatch, OnePlace, Somewhere
  <2> QED
    BY <2>6, <2>7 DEF TrackerInv
<1> QED
  BY <1>4, <1>5

(* Whatever is left of a page, its queue is empty afterwards.              *)
LEMMA EmptyQueue ==
  ASSUME NEW s, s = <<>>
  PROVE  s \in Seq(Cards) /\ IsInjective(s) /\ ToSet(s) = {}
BY DEF IsInjective, ToSet

LEMMA FlushKeeps ==
  ASSUME TrackerInv, Flush, page' \in Pages, timers' \subseteq Cards,
         observed' \subseteq Cards, UNCHANGED <<seen, reported, lost>>
  PROVE  TrackerInv'
<1>0. PICK n : n = Len(wire)
  OBVIOUS
<1>1. /\ n \in Nat /\ wire \in Seq(Message)
      /\ \A k \in 1..n : wire[k] \in Message /\ IsInjective(wire[k].items)
  BY <1>0, TrackerFacts
<1>2. /\ queue' = <<>> /\ queue' \in Seq(Cards) /\ IsInjective(queue') /\ ToSet(queue') = {}
  BY EmptyQueue DEF Flush
<1>3. Batch \in Message /\ IsInjective(Batch.items)
  BY DEF TrackerInv, TrackerTypes, Message, Batch
<1>4. CASE queue = <<>>
  <2>1. wire' = wire /\ ToSet(queue) = {}
    BY <1>4, EmptyQueue DEF Flush
  <2> QED
    BY <1>2, <2>1 DEF TrackerInv, TrackerTypes, OneBatch, OnePlace, Somewhere, Queued,
                      Carried, Recorded, Gone
<1>5. CASE queue # <<>>
  <2>1. wire' = Append(wire, Batch)
    BY <1>5 DEF Flush
  <2>2. /\ Len(wire') = n + 1 /\ wire'[n + 1] = Batch
        /\ \A k \in 1..n : wire'[k] = wire[k]
        /\ wire' \in Seq(Message)
    BY <1>0, <1>1, <1>3, <2>1
  <2>3. TrackerTypes'
    <3>1. \A k \in 1..Len(wire') : IsInjective(wire'[k].items)
      BY <1>1, <1>3, <2>2
    <3> QED
      BY <1>2, <2>2, <3>1 DEF TrackerInv, TrackerTypes
  <2>4. ASSUME NEW p \in Pages, NEW c \in Cards
        PROVE  OneBatch(p, c)' /\ OnePlace(p, c)' /\ (c \in seen'[p] <=> Somewhere(p, c)')
    <3>1. /\ Recorded(p, c)' <=> Recorded(p, c)
          /\ Gone(p, c)' <=> Gone(p, c)
          /\ seen'[p] = seen[p] /\ ~Queued(p, c)'
      BY <1>2 DEF Recorded, Gone, Queued
    <3>2. \A k \in 1..n : Carried(k, p, c)' <=> Carried(k, p, c)
      BY <2>2 DEF Carried
    <3>3. Carried(n + 1, p, c)' <=> Queued(p, c)
      BY <1>1, <2>2 DEF Carried, Batch, Queued
    <3>4. OneBatch(p, c) /\ OnePlace(p, c) /\ (c \in seen[p] <=> Somewhere(p, c))
      BY DEF TrackerInv
    <3>5. Len(wire') = n + 1 /\ n \in Nat /\ \A k \in 1..(n + 1) : k = n + 1 \/ k \in 1..n
      BY <1>1, <2>2
    <3>6. n + 1 \in 1..(n + 1) /\ \A k \in 1..n : k \in 1..(n + 1)
      BY <1>1
    <3>7. OneBatch(p, c)'
      BY <1>0, <3>2, <3>3, <3>4, <3>5 DEF OneBatch, OnePlace
    <3>8. OnePlace(p, c)'
      BY <1>0, <3>1, <3>2, <3>3, <3>4, <3>5 DEF OnePlace
    <3>9. c \in seen'[p] <=> Somewhere(p, c)'
      BY <1>0, <3>1, <3>2, <3>3, <3>4, <3>5, <3>6 DEF Somewhere
    <3> QED
      BY <3>7, <3>8, <3>9
  <2> QED
    BY <2>3, <2>4 DEF TrackerInv
<1> QED
  BY <1>4, <1>5

LEMMA TabKilledKeeps ==
  ASSUME TrackerInv, TabKilled
  PROVE  TrackerInv'
<1>1. /\ queue' = <<>> /\ queue' \in Seq(Cards) /\ IsInjective(queue') /\ ToSet(queue') = {}
  BY EmptyQueue DEF TabKilled
<1>2. /\ wire' = wire /\ seen' = seen /\ reported' = reported
      /\ lost' = lost \cup ({page} \X ToSet(queue))
      /\ page' \in Pages /\ timers' \subseteq Cards /\ observed' \subseteq Cards
  BY TrackerAssumption DEF TabKilled, NextPage, TrackerInv, TrackerTypes, Pages
<1>3. TrackerTypes'
  BY <1>1, <1>2 DEF TrackerInv, TrackerTypes
<1>4. ASSUME NEW p \in Pages, NEW c \in Cards
      PROVE  OneBatch(p, c)' /\ OnePlace(p, c)' /\ (c \in seen'[p] <=> Somewhere(p, c)')
  <2>1. /\ Recorded(p, c)' <=> Recorded(p, c)
        /\ \A k : Carried(k, p, c)' <=> Carried(k, p, c)
        /\ ~Queued(p, c)'
    BY <1>1, <1>2 DEF Recorded, Carried, Queued
  <2>2. Gone(p, c)' <=> Gone(p, c) \/ Queued(p, c)
    BY <1>2 DEF Gone, Queued
  <2>3. OneBatch(p, c) /\ OnePlace(p, c) /\ (c \in seen[p] <=> Somewhere(p, c))
    BY DEF TrackerInv
  <2> QED
    BY <1>2, <2>1, <2>2, <2>3 DEF OneBatch, OnePlace, Somewhere
<1> QED
  BY <1>3, <1>4 DEF TrackerInv

(* A batch that leaves the wire leaves the others on it.                   *)
LEMMA BatchLeaves ==
  ASSUME TrackerInv, NEW k \in DOMAIN wire, wire' = RemoveAt(wire, k)
  PROVE  /\ wire' \in Seq(Message)
         /\ \A l \in 1..Len(wire') : IsInjective(wire'[l].items)
         /\ \A p \in Pages, c \in Cards : OneBatch(p, c)'
         /\ \A l \in 1..Len(wire') : \E j \in 1..Len(wire) :
              j # k /\ \A p, c : Carried(l, p, c)' <=> Carried(j, p, c)
         /\ \A j \in 1..Len(wire) : j # k => \E l \in 1..Len(wire') :
              \A p, c : Carried(l, p, c)' <=> Carried(j, p, c)
<1>0. PICK n : n = Len(wire)
  OBVIOUS
<1>1. /\ n \in Nat /\ wire \in Seq(Message) /\ k \in 1..n
      /\ \A l \in 1..n : IsInjective(wire[l].items)
  BY <1>0, TrackerFacts
<1>2. /\ wire' \in Seq(Message) /\ Len(wire') = n - 1
      /\ \A l \in 1..(n - 1) : wire'[l] = IF l < k THEN wire[l] ELSE wire[l + 1]
  BY <1>0, <1>1, Removed
<1>3. ASSUME NEW l \in 1..(n - 1)
      PROVE  \E j \in 1..n : j = (IF l < k THEN l ELSE l + 1) /\ j # k /\ wire'[l] = wire[j]
  <2>1. CASE l < k
    BY <1>1, <1>2, <2>1
  <2>2. CASE ~(l < k)
    <3>1. l + 1 \in 1..n /\ l + 1 # k
      BY <1>1, <2>2
    <3> QED
      BY <1>1, <1>2, <2>2, <3>1
  <2> QED
    BY <2>1, <2>2
<1>4. ASSUME NEW j \in 1..n, j # k PROVE \E l \in 1..(n - 1) : wire'[l] = wire[j]
  <2>1. CASE j < k
    <3>1. j \in 1..(n - 1)
      BY <1>1, <2>1
    <3> QED
      BY <1>2, <2>1, <3>1
  <2>2. CASE j > k
    <3>1. j - 1 \in 1..(n - 1) /\ ~(j - 1 < k) /\ (j - 1) + 1 = j
      BY <1>1, <2>2
    <3>2. wire'[j - 1] = wire[(j - 1) + 1]
      BY <1>2, <3>1
    <3> QED
      BY <3>1, <3>2
  <2>3. j < k \/ j > k
    BY <1>1, <1>4
  <2> QED
    BY <2>1, <2>2, <2>3
<1>5. \A l \in 1..(n - 1) : \E j \in 1..n :
        j # k /\ \A p, c : Carried(l, p, c)' <=> Carried(j, p, c)
  BY <1>3 DEF Carried
<1>6. \A j \in 1..n : j # k => \E l \in 1..(n - 1) :
        \A p, c : Carried(l, p, c)' <=> Carried(j, p, c)
  BY <1>4 DEF Carried
<1>7. ASSUME NEW p \in Pages, NEW c \in Cards PROVE OneBatch(p, c)'
  <2> SUFFICES ASSUME NEW l \in 1..(n - 1), NEW m \in 1..(n - 1),
                      Carried(l, p, c)', Carried(m, p, c)'
               PROVE  l = m
    BY <1>2 DEF OneBatch
  <2>1. PICK i \in 1..n : i = (IF l < k THEN l ELSE l + 1) /\ wire'[l] = wire[i]
    BY <1>3
  <2>2. PICK j \in 1..n : j = (IF m < k THEN m ELSE m + 1) /\ wire'[m] = wire[j]
    BY <1>3
  <2>3. Carried(i, p, c) /\ Carried(j, p, c)
    BY <2>1, <2>2 DEF Carried
  <2>4. i = j
    BY <1>0, <2>3 DEF TrackerInv, OneBatch
  <2> QED
    BY <1>1, <2>1, <2>2, <2>4
<1>8. \A l \in 1..(n - 1) : IsInjective(wire'[l].items)
  BY <1>1, <1>3
<1> QED
  BY <1>0, <1>2, <1>5, <1>6, <1>7, <1>8

LEMMA AtMostOne ==
  ASSUME NEW S, \A x, y \in S : x = y
  PROVE  Cardinality(S) = IF S = {} THEN 0 ELSE 1
<1>1. CASE S = {}
  BY <1>1, FS_EmptySet
<1>2. CASE S # {}
  <2>1. PICK x : x \in S
    BY <1>2
  <2>2. S = {x}
    BY <2>1
  <2> QED
    BY <1>2, <2>2, FS_Singleton
<1> QED
  BY <1>1, <1>2

(* handle_beacon logs the whole of a batch, each card of it once.          *)
LEMMA LogsEachOnce ==
  ASSUME NEW s \in Seq(Cards), IsInjective(s), NEW c
  PROVE  Cardinality({j \in DOMAIN Accepted(s) : s[j] = c}) = IF c \in ToSet(s) THEN 1 ELSE 0
<1>1. Len(s) \in Nat /\ DOMAIN s = 1..Len(s) /\ Len(s) <= KMaxBatch
  BY ShortBatch
<1>2. DOMAIN Accepted(s) = 1..Len(s)
  <2>1. (IF Len(s) < KMaxBatch THEN Len(s) ELSE KMaxBatch) = Len(s)
    <3>1. \A a, b \in Nat : a <= b => (IF a < b THEN a ELSE b) = a
      OBVIOUS
    <3>2. KMaxBatch \in Nat
      BY TrackerAssumption
    <3> QED
      BY <1>1, <3>1, <3>2
  <2>2. SubSeq(s, 1, Len(s)) = s
    BY <1>1
  <2> QED
    BY <1>1, <2>1, <2>2 DEF Accepted
<1> DEFINE S == {j \in 1..Len(s) : s[j] = c}
<1>3. \A x, y \in S : x = y
  BY <1>1 DEF IsInjective
<1>4. S = {} <=> c \notin ToSet(s)
  BY <1>1 DEF ToSet
<1> HIDE DEF S
<1>5. Cardinality(S) = IF c \in ToSet(s) THEN 1 ELSE 0
  BY <1>3, <1>4, AtMostOne
<1> QED
  BY <1>2, <1>5 DEF S

LEMMA ReceiveKeeps ==
  ASSUME TrackerInv, NEW k \in DOMAIN wire, Receive(k)
  PROVE  TrackerInv'
<1>1. /\ wire' = RemoveAt(wire, k) /\ page' = page /\ seen' = seen /\ queue' = queue
      /\ lost' = lost /\ timers' = timers /\ observed' = observed
      /\ reported' = [x \in Pages \X Cards |-> reported[x] +
           (IF x[1] = wire[k].page
            THEN Cardinality({j \in DOMAIN Accepted(wire[k].items) : wire[k].items[j] = x[2]})
            ELSE 0)]
  BY DEF Receive, view
<1>2. /\ k \in 1..Len(wire) /\ wire[k].items \in Seq(Cards) /\ IsInjective(wire[k].items)
  BY TrackerFacts
<1>3. ASSUME NEW p \in Pages, NEW c \in Cards
      PROVE  reported'[<<p, c>>] = reported[<<p, c>>] + (IF Carried(k, p, c) THEN 1 ELSE 0)
  <2>1. reported'[<<p, c>>] = reported[<<p, c>>] +
          (IF p = wire[k].page
           THEN Cardinality({j \in DOMAIN Accepted(wire[k].items) : wire[k].items[j] = c})
           ELSE 0)
    BY <1>1
  <2> QED
    BY <1>2, <2>1, LogsEachOnce DEF Carried
<1>4. ASSUME NEW p \in Pages, NEW c \in Cards
      PROVE  /\ OneBatch(p, c)' /\ OnePlace(p, c)' /\ (c \in seen'[p] <=> Somewhere(p, c)')
             /\ reported'[<<p, c>>] \in {0, 1}
  <2>1. OneBatch(p, c) /\ OnePlace(p, c) /\ (c \in seen[p] <=> Somewhere(p, c))
    BY DEF TrackerInv
  <2>2. reported[<<p, c>>] \in {0, 1}
    BY DEF TrackerInv, TrackerTypes
  <2>3. ~(Recorded(p, c) /\ Carried(k, p, c))
    BY <1>2, <2>1 DEF OnePlace
  <2>4. /\ reported'[<<p, c>>] \in {0, 1}
        /\ Recorded(p, c)' <=> Recorded(p, c) \/ Carried(k, p, c)
    BY <1>3, <2>2, <2>3 DEF Recorded
  <2>5. /\ Gone(p, c)' <=> Gone(p, c)
        /\ Queued(p, c)' <=> Queued(p, c)
    BY <1>1 DEF Gone, Queued
  <2>6. /\ OneBatch(p, c)'
        /\ \A l \in 1..Len(wire') : \E j \in 1..Len(wire) :
             j # k /\ (Carried(l, p, c)' <=> Carried(j, p, c))
        /\ \A j \in 1..Len(wire) : j # k => \E l \in 1..Len(wire') :
             Carried(l, p, c)' <=> Carried(j, p, c)
    BY <1>1, BatchLeaves
  <2>7. OnePlace(p, c)'
    BY <1>2, <2>1, <2>4, <2>5, <2>6 DEF OnePlace, OneBatch
  <2>8. c \in seen'[p] <=> Somewhere(p, c)'
    BY <1>1, <1>2, <2>1, <2>4, <2>5, <2>6 DEF Somewhere
  <2> QED
    BY <2>4, <2>6, <2>7, <2>8
<1>5. TrackerTypes'
  <2>1. reported' \in [Pages \X Cards -> {0, 1}]
    <3>1. DOMAIN reported' = Pages \X Cards /\ reported' = [x \in Pages \X Cards |-> reported'[x]]
      BY <1>1
    <3> QED
      BY <1>4, <3>1
  <2>2. /\ wire' \in Seq(Message)
        /\ \A l \in 1..Len(wire') : IsInjective(wire'[l].items)
    BY <1>1, BatchLeaves
  <2> QED
    BY <1>1, <2>1, <2>2 DEF TrackerInv, TrackerTypes
<1> QED
  BY <1>4, <1>5 DEF TrackerInv

LEMMA SendFailsKeeps ==
  ASSUME TrackerInv, NEW k \in DOMAIN wire, SendFails(k)
  PROVE  TrackerInv'
<1>1. /\ wire' = RemoveAt(wire, k) /\ page' = page /\ seen' = seen /\ queue' = queue
      /\ reported' = reported /\ timers' = timers /\ observed' = observed
      /\ lost' = lost \cup ({wire[k].page} \X ToSet(wire[k].items))
  BY DEF SendFails, view
<1>2. k \in 1..Len(wire)
  BY TrackerFacts
<1>3. ASSUME NEW p \in Pages, NEW c \in Cards
      PROVE  OneBatch(p, c)' /\ OnePlace(p, c)' /\ (c \in seen'[p] <=> Somewhere(p, c)')
  <2>1. OneBatch(p, c) /\ OnePlace(p, c) /\ (c \in seen[p] <=> Somewhere(p, c))
    BY DEF TrackerInv
  <2>2. Gone(p, c)' <=> Gone(p, c) \/ Carried(k, p, c)
    BY <1>1 DEF Gone, Carried
  <2>3. /\ Recorded(p, c)' <=> Recorded(p, c)
        /\ Queued(p, c)' <=> Queued(p, c)
    BY <1>1 DEF Recorded, Queued
  <2>4. /\ OneBatch(p, c)'
        /\ \A l \in 1..Len(wire') : \E j \in 1..Len(wire) :
             j # k /\ (Carried(l, p, c)' <=> Carried(j, p, c))
        /\ \A j \in 1..Len(wire) : j # k => \E l \in 1..Len(wire') :
             Carried(l, p, c)' <=> Carried(j, p, c)
    BY <1>1, BatchLeaves
  <2>5. OnePlace(p, c)'
    BY <1>2, <2>1, <2>2, <2>3, <2>4 DEF OnePlace, OneBatch
  <2>6. c \in seen'[p] <=> Somewhere(p, c)'
    BY <1>1, <1>2, <2>1, <2>2, <2>3, <2>4 DEF Somewhere
  <2> QED
    BY <2>4, <2>5, <2>6
<1>4. TrackerTypes'
  <2>1. /\ wire' \in Seq(Message)
        /\ \A l \in 1..Len(wire') : IsInjective(wire'[l].items)
    BY <1>1, BatchLeaves
  <2> QED
    BY <1>1, <2>1 DEF TrackerInv, TrackerTypes
<1> QED
  BY <1>3, <1>4 DEF TrackerInv

LEMMA TrackerInvariant == VisitorSpec => []TrackerInv
<1>1. VisitorInit => TrackerInv
  <2> SUFFICES ASSUME TrackerInit PROVE TrackerInv
    BY DEF VisitorInit
  <2>1. queue = <<>> /\ ToSet(queue) = {} /\ IsInjective(queue) /\ queue \in Seq(Cards)
    BY EmptyQueue DEF TrackerInit
  <2>2. Len(wire) = 0 /\ 1..Len(wire) = {} /\ wire \in Seq(Message)
    BY DEF TrackerInit
  <2>3. page \in Pages
    BY TrackerAssumption DEF TrackerInit, Pages
  <2>4. TrackerTypes
    BY <2>1, <2>2, <2>3 DEF TrackerInit, TrackerTypes
  <2>5. ASSUME NEW p \in Pages, NEW c \in Cards
        PROVE  OneBatch(p, c) /\ OnePlace(p, c) /\ (c \in seen[p] <=> Somewhere(p, c))
    BY <2>1, <2>2 DEF TrackerInit, OneBatch, OnePlace, Somewhere, Queued, Recorded, Gone
  <2> QED
    BY <2>4, <2>5 DEF TrackerInv
<1>2. ASSUME TrackerInv, [VisitorNext]_visitorVars PROVE TrackerInv'
  <2>1. ASSUME UNCHANGED <<page, seen, queue, wire, reported, lost, observed>>,
               timers' \subseteq Cards
        PROVE  TrackerInv'
    <3>1. TrackerTypes'
      BY <1>2, <2>1 DEF TrackerInv, TrackerTypes
    <3>2. ASSUME NEW p \in Pages, NEW c \in Cards
          PROVE  OneBatch(p, c)' /\ OnePlace(p, c)' /\ (c \in seen'[p] <=> Somewhere(p, c)')
      BY <1>2, <2>1 DEF TrackerInv, OneBatch, OnePlace, Somewhere, Queued, Carried,
                        Recorded, Gone
    <3> QED
      BY <3>1, <3>2 DEF TrackerInv
  <2>2. page \in Pages /\ timers \subseteq Cards /\ observed \subseteq Cards
    BY <1>2 DEF TrackerInv, TrackerTypes
  <2>3. ASSUME NEW c \in Cards, Enter(c) \/ Leave(c) PROVE TrackerInv'
    BY <2>1, <2>2, <2>3 DEF Enter, Leave
  <2>4. ASSUME Show \/ UNCHANGED trackerVars PROVE TrackerInv'
    BY <2>1, <2>2, <2>4 DEF Show, view, trackerVars
  <2>5. ASSUME Interval \/ Hide \/ LeavePage PROVE TrackerInv'
    <3>1. /\ Flush /\ UNCHANGED <<seen, reported, lost>>
          /\ page' \in Pages /\ timers' \subseteq Cards /\ observed' \subseteq Cards
      BY <2>2, <2>5, TrackerAssumption DEF Interval, Hide, LeavePage, NextPage, view, Pages
    <3> QED
      BY <1>2, <3>1, FlushKeeps
  <2> QED
    BY <1>2, <2>3, <2>4, <2>5, ThreeParts, DweltKeeps, TabKilledKeeps, ReceiveKeeps,
       SendFailsKeeps DEF TrackerNext
<1> QED
  BY <1>1, <1>2, PTL DEF VisitorSpec

(* app.js and handle_beacon: a card seen on a page is queued, under way,   *)
(* logged or lost exactly once, whatever is flushed, failing or killed.    *)
THEOREM SeenOnce == VisitorSpec => []SeenOncePerPage
<1>1. TrackerInv => SeenOncePerPage
  <2> SUFFICES ASSUME TrackerInv, NEW p \in Pages, NEW c \in Cards
               PROVE  Traces(p, c) = IF c \in seen[p] THEN 1 ELSE 0
    BY DEF SeenOncePerPage
  <2> DEFINE Q == {i \in DOMAIN queue : p = page /\ queue[i] = c}
             W == {x \in (DOMAIN wire) \X (1..MaxBatch) :
                     /\ wire[x[1]].page = p /\ x[2] \in DOMAIN wire[x[1]].items
                     /\ wire[x[1]].items[x[2]] = c}
             L == {<<p, c>>} \cap lost
  <2>1. OneBatch(p, c) /\ OnePlace(p, c) /\ (c \in seen[p] <=> Somewhere(p, c))
    BY DEF TrackerInv
  <2>2. /\ Len(wire) \in Nat /\ DOMAIN wire = 1..Len(wire)
        /\ \A k \in 1..Len(wire) :
             wire[k].items \in Seq(Cards) /\ IsInjective(wire[k].items)
    BY TrackerFacts
  <2>3. reported[<<p, c>>] = IF Recorded(p, c) THEN 1 ELSE 0
    BY DEF TrackerInv, TrackerTypes, Recorded
  <2>4. Cardinality(Q) = IF Queued(p, c) THEN 1 ELSE 0
    <3>1. \A x, y \in Q : x = y
      BY DEF TrackerInv, TrackerTypes, IsInjective
    <3>2. Q = {} <=> ~Queued(p, c)
      BY DEF Queued, ToSet
    <3> HIDE DEF Q
    <3> QED
      BY <3>1, <3>2, AtMostOne
  <2>5. Cardinality(L) = IF Gone(p, c) THEN 1 ELSE 0
    <3>1. \A x, y \in L : x = y
      OBVIOUS
    <3>2. L = {} <=> ~Gone(p, c)
      BY DEF Gone
    <3> HIDE DEF L
    <3> QED
      BY <3>1, <3>2, AtMostOne
  <2>6. Cardinality(W) = IF \E k \in 1..Len(wire) : Carried(k, p, c) THEN 1 ELSE 0
    <3>1. ASSUME NEW x \in W PROVE x[1] \in 1..Len(wire) /\ Carried(x[1], p, c)
      BY <2>2 DEF Carried, ToSet
    <3>2. ASSUME NEW x \in W, NEW y \in W PROVE x = y
      <4>1. x[1] = y[1]
        BY <2>1, <3>1 DEF OneBatch
      <4>2. x[2] = y[2]
        BY <2>2, <3>1, <4>1 DEF IsInjective
      <4> QED
        BY <4>1, <4>2
    <3>3. ASSUME NEW k \in 1..Len(wire), Carried(k, p, c) PROVE W # {}
      <4>1. PICK i \in DOMAIN wire[k].items : wire[k].items[i] = c
        BY <3>3 DEF Carried, ToSet
      <4>2. i \in 1..MaxBatch
        <5>1. /\ Len(wire[k].items) \in Nat /\ Len(wire[k].items) <= MaxBatch
              /\ DOMAIN wire[k].items = 1..Len(wire[k].items)
          BY <2>2, ShortBatch
        <5> QED
          BY <5>1, TrackerAssumption
      <4>3. <<k, i>> \in W
        BY <2>2, <3>3, <4>1, <4>2 DEF Carried
      <4> QED
        BY <4>3
    <3>4. W = {} <=> ~\E k \in 1..Len(wire) : Carried(k, p, c)
      BY <3>1, <3>3
    <3> HIDE DEF W
    <3> QED
      BY <3>2, <3>4, AtMostOne
  <2>7. Traces(p, c) = reported[<<p, c>>] + Cardinality(Q) + Cardinality(W) + Cardinality(L)
    BY DEF Traces
  <2> HIDE DEF Q, W, L
  <2> QED
    BY <2>1, <2>3, <2>4, <2>5, <2>6, <2>7 DEF OnePlace, Somewhere
<1> QED
  BY <1>1, TrackerInvariant, PTL
=============================================================================
