------------------------------ MODULE Identity ------------------------------
(***************************************************************************)
(* The identity cookies of one browser (identify, apply_identity in        *)
(* handlers.cpp): aid names the device, sid the visit.  A request carries  *)
(* the cookies that are in the jar and alive when it is sent; the server   *)
(* keeps no state and mints what is missing; the answer sets sid always    *)
(* and aid only when it was minted.  Requests of several tabs overlap and  *)
(* their answers arrive in any order or not at all.                        *)
(***************************************************************************)
EXTENDS Naturals, Sequences, FiniteSets

CONSTANTS
  AnonTtl, SessionTtl,  (* Config::anon_cookie_ttl, session_idle_ttl       *)
  NoCookie,             (* no cookie                                       *)
  MaxRequests,          (* bound: requests sent                            *)
  MaxInFlight,          (* requests the browser has open at once           *)
  MaxTime,              (* bound: the clock                                *)
  AnswersLost           (* answers may be lost                             *)

ASSUME IdentityAssumption ==
  /\ AnonTtl \in Nat \ {0} /\ SessionTtl \in Nat \ {0} /\ AnswersLost \in BOOLEAN
  /\ MaxRequests \in Nat /\ MaxInFlight \in Nat /\ MaxTime \in Nat
  /\ NoCookie \notin Nat

VARIABLES
  now,      (* the clock                                                   *)
  jar,      (* the browser's cookies: value and the time each expires      *)
  req,      (* per request sent: state, cookies, when it was sent and      *)
            (* answered; history: none was in flight when it was sent      *)
  minted    (* identifiers drawn so far: random_id never repeats           *)

cookieVars == <<now, jar, req, minted>>

(* A cookie of the jar, while it is alive.                                 *)
Live(c) == IF now < c.until THEN c.value ELSE NoCookie

InFlight == {i \in DOMAIN req : req[i].state \in {"sent", "served"}}

-----------------------------------------------------------------------------
Send ==
  /\ Len(req) < MaxRequests /\ Cardinality(InFlight) < MaxInFlight
  /\ req' = Append(req, [state |-> "sent", aid |-> Live(jar.aid), sid |-> Live(jar.sid),
                         newAid |-> FALSE, at |-> now, got |-> 0,
                         alone |-> InFlight = {}])
  /\ UNCHANGED <<now, jar, minted>>

(* identify: a missing cookie is minted.  aid and sid of an event are      *)
(* those of the identity.                                                  *)
Identify(i) ==
  /\ req[i].state = "sent"
  /\ LET newAid == req[i].aid = NoCookie
         newSid == req[i].sid = NoCookie
         drawn  == minted + (IF newAid THEN 1 ELSE 0)
     IN  /\ req' = [req EXCEPT ![i].state = "served",
                               ![i].newAid = newAid,
                               ![i].aid = IF newAid THEN drawn ELSE @,
                               ![i].sid = IF newSid THEN drawn + 1 ELSE @]
         /\ minted' = drawn + (IF newSid THEN 1 ELSE 0)
  /\ UNCHANGED <<now, jar>>

Cookie(v, ttl) == [value |-> v, until |-> now + ttl]

(* apply_identity, as the browser stores it.  The bugs: the device is sent *)
(* again with every answer; the visit only when it is new.                 *)
SetCookiesAlways(r) ==
  [aid |-> Cookie(r.aid, AnonTtl), sid |-> Cookie(r.sid, SessionTtl)]

SetCookiesOnce(r) ==
  IF r.newAid THEN SetCookiesAlways(r)
  ELSE [jar EXCEPT !.sid = IF r.sid = jar.sid.value THEN @ ELSE Cookie(r.sid, SessionTtl)]

ApplyIdentity(r) ==
  [aid |-> IF r.newAid THEN Cookie(r.aid, AnonTtl) ELSE jar.aid,
   sid |-> Cookie(r.sid, SessionTtl)]

Deliver(i) ==
  /\ req[i].state = "served"
  /\ jar' = ApplyIdentity(req[i])
  /\ req' = [req EXCEPT ![i].state = "done", ![i].got = now]
  /\ UNCHANGED <<now, minted>>

Lose(i) ==
  /\ AnswersLost /\ req[i].state = "served"
  /\ req' = [req EXCEPT ![i].state = "lost"]
  /\ UNCHANGED <<now, jar, minted>>

Tick == now < MaxTime /\ now' = now + 1 /\ UNCHANGED <<jar, req, minted>>

-----------------------------------------------------------------------------
CookieInit ==
  /\ now = 0 /\ minted = 0 /\ req = <<>>
  /\ jar = [aid |-> [value |-> NoCookie, until |-> 0], sid |-> [value |-> NoCookie, until |-> 0]]

CookieNext ==
  \/ Send \/ Tick
  \/ \E i \in DOMAIN req : Identify(i) \/ Deliver(i) \/ Lose(i)

CookieSpec == CookieInit /\ [][CookieNext]_cookieVars

-----------------------------------------------------------------------------
(* The log: the identities events were written under.                      *)
Logged == {i \in DOMAIN req : req[i].state # "sent"}

(* The device in the jar stays or expires, or gives way to the answer to a *)
(* request that was sent before the jar had it and brings another one.     *)
AidKept ==
  Live(jar.aid) # NoCookie =>
    \/ Live(jar.aid)' \in {Live(jar.aid), NoCookie}
    \/ \E i \in InFlight : /\ req[i].newAid /\ req'[i].state = "done"
                           /\ req[i].at + AnonTtl <= jar.aid.until

(* Once the jar has a device, aid ends by expiring or by the answer to a   *)
(* request that was sent before the jar had it: of several first requests  *)
(* in flight (each of them mints an aid) the last answer wins, and after   *)
(* them nothing brings another aid, although answers to requests that      *)
(* carried an older one still arrive (handlers.cpp:176 and 198).           *)
AidStable == [][AidKept]_cookieVars

(* handlers.cpp:199: the idle window slides.  As long as the visitor waits *)
(* for each answer and gets it, two requests in a row belong to one visit  *)
(* exactly when the second is sent within SessionTtl of the first one's    *)
(* answer, and to one device exactly when it is sent within AnonTtl of the *)
(* answer that set aid, which later answers do not prolong.                *)
VisitBreaksWhenIdle ==
  \A i, j \in Logged :
    j = i + 1 /\ (\A k \in 1..i : req[k].state = "done") /\ (\A k \in 1..j : req[k].alone) =>
      /\ req[i].sid = req[j].sid <=> req[j].at < req[i].got + SessionTtl
      /\ req[i].aid = req[j].aid <=>
           \E k \in Logged : /\ req[k].newAid /\ req[k].aid = req[i].aid
                             /\ req[j].at < req[k].got + AnonTtl
=============================================================================
