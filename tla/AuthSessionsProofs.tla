------------------------- MODULE AuthSessionsProofs -------------------------
(* Proofs about AuthSessions, for every number of requests, processes and
   links, and every lifetime of the cache and of the links.

   AuthInv is inductive.  Its parts that are not properties of the system say
   where an answer, a session or a change in progress stands relative to the
   changes that have committed: a lookup that began before a change may
   return the old password, but then its entry expires Ttl after it
   (CacheExpires), and a change has listed every link there was when it began
   by the time it commits (SpendsAll).                                     *)
EXTENDS AuthSessions, TLAPS, SequenceTheorems

(* A step of one request.                                                  *)
Step(q) ==
    \/ \E i \in Instances : Redeem(q, i) \/ ChangePassword(q, i) \/ Check(q, i)
    \/ Register(q) \/ Login(q) \/ Sign(q) \/ RequestReset(q) \/ InsertLink(q)
    \/ Stamp(q) \/ SpendLinks(q) \/ Commit(q) \/ Forget(q)
    \/ ReadChange(q) \/ ReadFails(q) \/ Fill(q) \/ Decide(q)

-----------------------------------------------------------------------------
(* Facts about the operators.                                              *)

LEMMA NoRequestType ==
    /\ NoRequest \in Request
    /\ NoRequest.pc = "idle" /\ NoRequest.start = 0 /\ NoRequest.stamp = 0
    /\ NoRequest.knows = 0 /\ NoRequest.value = 0
BY DEF NoRequest, Request

LEMMA AsSequence ==
    ASSUME NEW S, NEW n \in Nat, NEW f \in [1 .. n -> S]
    PROVE  f \in Seq(S) /\ Len(f) = n
BY SeqDef

(* Ending links leaves the others as they are.                             *)
LEMMA SpendFacts ==
    ASSUME links \in Seq(Link), NEW rows
    PROVE  /\ Spend(rows) \in Seq(Link) /\ Len(Spend(rows)) = Len(links)
           /\ \A i \in 1 .. Len(links) :
                 Spend(rows)[i].state = "unused" => Live(i) /\ i \notin rows
<1>1. Len(links) \in Nat /\ \A i \in 1 .. Len(links) : links[i] \in Link
  OBVIOUS
<1>2. \A i \in 1 .. Len(links) : /\ [links[i] EXCEPT !.state = "used"] \in Link
                                 /\ [links[i] EXCEPT !.state = "used"].state = "used"
  BY <1>1 DEF Link
<1>3. Spend(rows) \in [1 .. Len(links) -> Link]
  BY <1>1, <1>2 DEF Spend
<1>4. Spend(rows) \in Seq(Link) /\ Len(Spend(rows)) = Len(links)
  BY <1>1, <1>3, AsSequence
<1>5. \A i \in 1 .. Len(links) : Spend(rows)[i].state = "unused" => Live(i) /\ i \notin rows
  BY <1>2 DEF Spend, Live
<1> QED
  BY <1>4, <1>5

(* What a step does to the database: changes are appended, and a link that
   has ended stays so.                                                     *)
LEMMA DatabaseStep ==
    ASSUME TypeOK, Next
    PROVE  /\ links' \in Seq(Link) /\ Len(links) <= Len(links')
           /\ \A i \in 1 .. Len(links) : Live(i)' => Live(i)
           /\ now' \in Nat /\ now <= now'
           /\ \/ UNCHANGED changes
              \/ \E q \in Requests : Commit(q) /\ now' = now
<1>1. links \in Seq(Link) /\ Len(links) \in Nat /\ now \in Nat
  BY DEF TypeOK
<1>2. ASSUME NEW rows, links' = Spend(rows)
      PROVE  /\ links' \in Seq(Link) /\ Len(links) <= Len(links')
             /\ \A i \in 1 .. Len(links) : Live(i)' => Live(i)
  BY <1>1, <1>2, SpendFacts DEF Live
<1>3. CASE \E q \in Requests : Commit(q)
  <2>1. PICK q \in Requests : Commit(q)
    BY <1>3
  <2>2. links' = Spend(request[q].rows) /\ now' = now
    BY <2>1 DEF Commit
  <2> QED
    BY <1>1, <1>2, <2>1, <2>2
<1>4. CASE \E q \in Requests : InsertLink(q)
  <2>1. PICK q \in Requests : InsertLink(q)
    BY <1>4
  <2> DEFINE old == Spend(request[q].rows)
             new == [state |-> "unused", expires |-> now + LinkTtl]
  <2>2. old \in Seq(Link) /\ Len(old) = Len(links) /\ new \in Link
    BY <1>1, SpendFacts, TtlsAreNatural DEF Link
  <2>3. \A i \in 1 .. Len(links) : old[i].state = "unused" => Live(i)
    BY <1>1, SpendFacts
  <2>4. links' = Append(old, new) /\ UNCHANGED <<now, changes>>
    BY <2>1 DEF InsertLink
  <2> HIDE DEF old, new
  <2>5. /\ links' \in Seq(Link) /\ Len(links') = Len(links) + 1
        /\ \A i \in 1 .. Len(links) : links'[i] = old[i]
    BY <1>1, <2>2, <2>4
  <2> QED
    BY <1>1, <2>3, <2>4, <2>5 DEF Live
<1>5. CASE PurgeExpired
  <2>1. \A i \in 1 .. Len(links) : /\ [links[i] EXCEPT !.state = "deleted"] \in Link
                                   /\ [links[i] EXCEPT !.state = "deleted"].state = "deleted"
                                   /\ links[i] \in Link
    <3>1. \A i \in 1 .. Len(links) : links[i] \in Link
      BY <1>1
    <3> QED
      BY <3>1 DEF Link
  <2>2. links' \in [1 .. Len(links) -> Link] /\ UNCHANGED <<now, changes>>
    BY <1>5, <2>1 DEF PurgeExpired
  <2>3. links' \in Seq(Link) /\ Len(links') = Len(links)
    BY <1>1, <2>2, AsSequence
  <2>4. \A i \in 1 .. Len(links) : links'[i].state = "unused" => links[i].state = "unused"
    BY <1>5, <2>1 DEF PurgeExpired
  <2> QED
    BY <1>1, <2>2, <2>3, <2>4 DEF Live
<1>6. CASE Tick
  BY <1>1, <1>6 DEF Tick, db, Live
<1>7. ASSUME NEW q \in Requests, Step(q), ~ Commit(q), ~ InsertLink(q)
      PROVE  UNCHANGED <<now, links, changes>>
  BY <1>7 DEF Step, Redeem, ChangePassword, Check, Register, Login, Sign, RequestReset, Stamp,
              SpendLinks, Forget, ReadChange, ReadFails, Fill, Decide, db
<1>8. CASE \E q \in Requests : Step(q)
  BY <1>1, <1>3, <1>4, <1>7, <1>8 DEF Live
<1> QED
  BY <1>5, <1>6, <1>8 DEF Next, Step

(* Only the request that acts changes.                                     *)
LEMMA OthersStay ==
    ASSUME TypeOK, NEW q \in Requests, Step(q)
    PROVE  /\ request' = [request EXCEPT ![q] = request'[q]]
           /\ \A x \in Requests \ {q} : request'[x] = request[x]
BY DEF Step, Redeem, ChangePassword, Check, Register, Login, Sign, RequestReset, InsertLink, Stamp,
       SpendLinks, Commit, Forget, ReadChange, ReadFails, Fill, Decide, Begin, Goto, Answer, TypeOK

(* Changes are appended to, each with an instant no later than now.        *)
LEMMA ChangesStep ==
    ASSUME TypeOK, Next
    PROVE  /\ changes' \in Seq(Change) /\ Password <= Password'
           /\ \A n \in 1 .. Password : changes'[n] = changes[n]
           /\ \A n \in 1 .. Password' : changes'[n].stamp <= changes'[n].at /\ changes'[n].at <= now'
           /\ \A q \in Requests : Commit(q) =>
                 /\ Password' = Password + 1 /\ changes'[Password + 1].stamp = request[q].stamp
                 /\ changes'[Password + 1].out = request[q].out /\ changes'[Password + 1].at = now
           /\ Password' # Password => \E q \in Requests : Commit(q) /\ now' = now
<1>1. /\ changes \in Seq(Change) /\ Len(changes) \in Nat /\ now \in Nat /\ now' \in Nat /\ now <= now'
      /\ \A n \in 1 .. Len(changes) : changes[n].stamp <= changes[n].at /\ changes[n].at <= now
      /\ \A n \in 1 .. Len(changes) : changes[n].stamp \in Nat /\ changes[n].at \in Nat
  <2>1. \A n \in 1 .. Len(changes) : changes[n] \in Change
    BY DEF TypeOK
  <2>2. now' \in Nat /\ now <= now'
    BY DatabaseStep
  <2>3. \A n \in 1 .. Len(changes) : changes[n].stamp \in Nat /\ changes[n].at \in Nat
    BY <2>1 DEF Change
  <2> QED
    BY <2>2, <2>3 DEF TypeOK
<1>2. CASE UNCHANGED changes
  <2>1. ASSUME NEW q \in Requests, Commit(q) PROVE FALSE
    <3>1. Len(changes') = Len(changes) + 1
      BY <1>1, <2>1 DEF Commit
    <3> QED
      BY <1>1, <1>2, <3>1
  <2> QED
    BY <1>1, <1>2, <2>1 DEF Password
<1>3. ASSUME NEW q \in Requests, Commit(q)
      PROVE  /\ changes' \in Seq(Change) /\ Password' = Password + 1
             /\ \A n \in 1 .. Password : changes'[n] = changes[n]
             /\ changes'[Password + 1].stamp = request[q].stamp
             /\ changes'[Password + 1].out = request[q].out /\ changes'[Password + 1].at = now
             /\ request[q].stamp <= now
  <2> DEFINE c == [stamp |-> request[q].stamp, out |-> request[q].out, at |-> now]
  <2>1. changes' = Append(changes, c)
    BY <1>3 DEF Commit
  <2>2. c \in Change /\ request[q].stamp <= now
    BY DEF TypeOK, Request, Change
  <2>3. c.stamp = request[q].stamp /\ c.out = request[q].out /\ c.at = now
    OBVIOUS
  <2> HIDE DEF c
  <2>4. /\ changes' \in Seq(Change) /\ Len(changes') = Len(changes) + 1
        /\ changes'[Len(changes) + 1] = c
        /\ \A n \in 1 .. Len(changes) : changes'[n] = changes[n]
    BY <1>1, <2>1, <2>2
  <2> QED
    BY <2>2, <2>3, <2>4 DEF Password
<1>4. CASE \E q \in Requests : Commit(q) /\ now' = now
  <2>1. PICK q \in Requests : Commit(q) /\ now' = now
    BY <1>4
  <2>2. \A n \in 1 .. Password' : n \in 1 .. Password \/ n = Password + 1
    BY <1>1, <1>3, <2>1 DEF Password
  <2>3. \A n \in 1 .. Password' : changes'[n].stamp <= changes'[n].at /\ changes'[n].at <= now'
    BY <1>1, <1>3, <2>1, <2>2 DEF Password
  <2> QED
    BY <1>1, <1>3, <2>1, <2>3 DEF Password
<1> QED
  BY <1>2, <1>4, DatabaseStep

-----------------------------------------------------------------------------
(* Types.                                                                  *)

(* What the requests, the sessions and the caches hold keeps its type.     *)
LEMMA RequestType ==
    ASSUME TypeOK, NEW q \in Requests, Step(q)
    PROVE  /\ request'[q] \in Request
           /\ request'[q].start <= now /\ request'[q].stamp <= now
           /\ request'[q].knows <= Password' /\ request'[q].value <= Password
<1> DEFINE r == request[q]
<1>1. /\ r \in Request /\ r.start <= now /\ r.stamp <= now /\ r.knows <= Password /\ r.value <= Password
      /\ now \in Nat /\ Password \in Nat /\ Len(links) \in Nat
      /\ r.start \in Nat /\ r.stamp \in Nat /\ r.knows \in Nat /\ r.value \in Nat
  BY DEF TypeOK, Password, Request
<1>2. /\ NoRequest \in Request /\ NoRequest.pc = "idle" /\ NoRequest.start = 0 /\ NoRequest.stamp = 0
      /\ NoRequest.knows = 0 /\ NoRequest.value = 0
  BY NoRequestType
<1>3. Password <= Password' /\ Password' \in Nat
  <2>1. Next
    BY DEF Step, Next
  <2> QED
    BY <1>1, <2>1, ChangesStep DEF Password
<1>4. ASSUME Answer(q)
      PROVE  request'[q] = NoRequest
  BY <1>4 DEF Answer, TypeOK
<1>5. ASSUME NEW pc \in {"sign", "decide"}, Goto(q, pc)
      PROVE  /\ request'[q] \in Request /\ request'[q].start = r.start /\ request'[q].stamp = r.stamp
             /\ request'[q].knows = r.knows /\ request'[q].value = r.value
  BY <1>1, <1>5 DEF Goto, TypeOK, Request
<1>6. ASSUME NEW new, Begin(q, new)
      PROVE  request'[q] = new
  BY <1>6 DEF Begin, TypeOK
<1>7. CASE Sign(q) \/ InsertLink(q) \/ ReadFails(q) \/ Decide(q)
  BY <1>1, <1>2, <1>3, <1>4, <1>7 DEF Sign, InsertLink, ReadFails, Decide
<1>8. CASE Register(q) \/ Forget(q) \/ Fill(q)
  BY <1>1, <1>3, <1>5, <1>8 DEF Register, Forget, Fill
<1>9. CASE Login(q)
  <2>1. request'[q] = [NoRequest EXCEPT !.pc = "sign", !.knows = Password]
    BY <1>6, <1>9 DEF Login
  <2>2. request'[q] \in Request
    BY <1>1, <1>2, <2>1 DEF Request
  <2>3. /\ request'[q].start = 0 /\ request'[q].stamp = 0
        /\ request'[q].value = 0 /\ request'[q].knows = Password
    BY <1>2, <2>1 DEF Request
  <2> QED
    BY <1>1, <1>3, <2>2, <2>3
<1>10. CASE RequestReset(q)
  <2>1. request'[q] = [NoRequest EXCEPT !.pc = "link", !.rows = Unused]
    BY <1>6, <1>10 DEF RequestReset
  <2>2. Unused \subseteq Nat
    BY <1>1 DEF Unused
  <2>4. request'[q] \in Request
    BY <1>1, <1>2, <2>1, <2>2 DEF Request
  <2>5. /\ request'[q].start = 0 /\ request'[q].stamp = 0
        /\ request'[q].value = 0 /\ request'[q].knows = 0
    BY <1>1, <1>2, <2>1, <2>2 DEF Request
  <2> QED
    BY <1>1, <1>3, <2>4, <2>5
<1>11. CASE \E i \in Instances : Redeem(q, i)
  <2>1. PICK i \in Instances, l \in 1 .. Len(links) :
           request'[q] = [NoRequest EXCEPT !.pc = "stamp", !.in = i, !.link = l]
    BY <1>6, <1>11 DEF Redeem
  <2>2. l \in Nat
    BY <1>1, <2>1
  <2>4. request'[q] \in Request
    BY <1>1, <1>2, <2>1, <2>2 DEF Request
  <2>5. /\ request'[q].start = 0 /\ request'[q].stamp = 0
        /\ request'[q].value = 0 /\ request'[q].knows = 0
    BY <1>1, <1>2, <2>1, <2>2 DEF Request
  <2> QED
    BY <1>1, <1>3, <2>4, <2>5
<1>12. CASE \E i \in Instances : ChangePassword(q, i)
  <2>1. PICK i \in Instances : request'[q] = [NoRequest EXCEPT !.pc = "stamp", !.in = i]
    BY <1>6, <1>12 DEF ChangePassword
  <2>4. request'[q] \in Request
    BY <1>1, <1>2, <2>1 DEF Request
  <2>5. /\ request'[q].start = 0 /\ request'[q].stamp = 0
        /\ request'[q].value = 0 /\ request'[q].knows = 0
    BY <1>1, <1>2, <2>1 DEF Request
  <2> QED
    BY <1>1, <1>3, <2>4, <2>5
<1>13. CASE Stamp(q) \/ SpendLinks(q)
  <2>1. Unused \cup {r.link} \subseteq Nat
    BY <1>1 DEF Unused, Request
  <2>2. request'[q] \in Request
    <3>1. CASE Stamp(q)
      <4>1. request'[q] = [r EXCEPT !.pc = "spend", !.stamp = now, !.out = Len(links)]
        BY <3>1 DEF Stamp, TypeOK
      <4> QED
        BY <1>1, <4>1 DEF Request
    <3>2. CASE SpendLinks(q)
      <4>1. request'[q] = [r EXCEPT !.pc = "commit", !.rows = Unused \cup {r.link}]
        BY <3>2 DEF SpendLinks, TypeOK
      <4> QED
        BY <1>1, <2>1, <4>1 DEF Request
    <3> QED
      BY <1>13, <3>1, <3>2
  <2>3. /\ request'[q].start = r.start /\ request'[q].stamp \in {r.stamp, now}
        /\ request'[q].value = r.value /\ request'[q].knows = r.knows
    BY <1>1, <1>13 DEF Stamp, SpendLinks, TypeOK, Request
  <2> QED
    BY <1>1, <1>3, <2>2, <2>3
<1>14. CASE Commit(q)
  <2>1. request'[q] = [NoRequest EXCEPT !.pc = "forget", !.in = r.in, !.knows = Password + 1]
    BY <1>14 DEF Commit, TypeOK, Password
  <2>2. r.in \in Instances \cup {None} /\ Password' = Password + 1
    BY <1>1, <1>14, ChangesStep DEF Request, Next
  <2>4. request'[q] \in Request
    <3>1. Password + 1 \in Nat
      BY <1>1
    <3> HIDE DEF r
    <3> QED
      BY <1>2, <2>1, <2>2, <3>1 DEF Request
  <2>5. /\ request'[q].start = 0 /\ request'[q].stamp = 0
        /\ request'[q].value = 0 /\ request'[q].knows = Password + 1
    BY <1>1, <1>2, <2>1, <2>2 DEF Request
  <2> QED
    BY <1>1, <1>3, <2>2, <2>4, <2>5
<1>15. CASE \E i \in Instances : Check(q, i)
  <2>1. PICK i \in Instances, s \in sessions, hit \in BOOLEAN :
           /\ hit => cache[i] # None
           /\ request'[q] = [NoRequest EXCEPT !.pc = IF hit THEN "decide" ELSE "read", !.in = i,
                               !.start = now, !.session = s, !.past = LongReplaced,
                               !.value = IF hit THEN cache[i].value ELSE 0]
    BY <1>6, <1>15 DEF Check
  <2> DEFINE pc == IF hit THEN "decide" ELSE "read"
             value == IF hit THEN cache[i].value ELSE 0
  <2>2. LongReplaced \in SUBSET Int /\ s \in Session \cup {None}
    BY <1>1 DEF LongReplaced, TypeOK
  <2>3. value \in Nat /\ value <= Password /\ pc \in {"decide", "read"}
    BY <1>1, <2>1 DEF TypeOK, Cached
  <2>4. request'[q] = [NoRequest EXCEPT !.pc = pc, !.in = i, !.start = now, !.session = s,
                                        !.past = LongReplaced, !.value = value]
    BY <2>1
  <2> HIDE DEF pc, value
  <2>5. request'[q] \in Request
    BY <1>1, <1>2, <2>2, <2>3, <2>4 DEF Request
  <2>6. /\ request'[q].start = now /\ request'[q].stamp = 0
        /\ request'[q].value = value /\ request'[q].knows = 0
    BY <1>2, <2>4 DEF Request
  <2> QED
    BY <1>1, <1>3, <2>3, <2>5, <2>6
<1>16. CASE ReadChange(q)
  <2>1. request'[q] \in Request
    BY <1>1, <1>16 DEF ReadChange, TypeOK, Request
  <2>2. /\ request'[q].start = r.start /\ request'[q].stamp = r.stamp
        /\ request'[q].value = Password /\ request'[q].knows = r.knows
    BY <1>1, <1>16 DEF ReadChange, TypeOK, Request
  <2> QED
    BY <1>1, <1>3, <2>1, <2>2
<1> QED
  BY <1>7, <1>8, <1>9, <1>10, <1>11, <1>12, <1>13, <1>14, <1>15, <1>16 DEF Step

(* A session is signed with the password its request knows; a refused one
   is given up.                                                            *)
LEMMA SessionsStep ==
    ASSUME TypeOK, NEW q \in Requests, Step(q), NEW s \in sessions'
    PROVE  s \in sessions \/ s = [issued |-> now, knows |-> request[q].knows]
BY DEF Step, Redeem, ChangePassword, Check, Register, Login, Sign, RequestReset, InsertLink, Stamp,
       SpendLinks, Commit, Forget, ReadChange, ReadFails, Fill, Decide

(* A cached answer is emptied, or filled from a lookup that has returned.  *)
LEMMA CacheStep ==
    ASSUME TypeOK, NEW q \in Requests, Step(q), NEW i \in Instances
    PROVE  \/ cache'[i] = cache[i] \/ cache'[i] = None
           \/ /\ Fill(q)
              /\ cache'[i] = [value |-> request[q].value, expires |-> request[q].start + Ttl]
BY DEF Step, Redeem, ChangePassword, Check, Register, Login, Sign, RequestReset, InsertLink, Stamp,
       SpendLinks, Commit, Forget, ReadChange, ReadFails, Fill, Decide, TypeOK

LEMMA TypeStep ==
    ASSUME TypeOK, Next
    PROVE  TypeOK'
<1>1. /\ now' \in Nat /\ now <= now' /\ now \in Nat /\ Password \in Nat /\ Password' \in Nat
      /\ Password <= Password'
  BY DatabaseStep, ChangesStep DEF TypeOK, Password
<1>2. /\ changes' \in Seq(Change) /\ links' \in Seq(Link)
      /\ \A n \in 1 .. Len(changes)' : changes'[n].stamp <= changes'[n].at /\ changes'[n].at <= now'
  BY DatabaseStep, ChangesStep DEF Password
<1>3. ASSUME NEW q \in Requests, Step(q)
      PROVE  /\ sessions' \subseteq Session
             /\ \A s \in sessions' : s.issued <= now' /\ s.knows <= Password'
  <2>1. request[q].knows \in Nat /\ request[q].knows <= Password
    BY DEF TypeOK, Request
  <2>2. \A s \in sessions : s \in Session /\ s.issued \in Nat /\ s.knows \in Nat
                            /\ s.issued <= now /\ s.knows <= Password
    BY DEF TypeOK, Session
  <2> DEFINE new == [issued |-> now, knows |-> request[q].knows]
  <2>3. new \in Session /\ new.issued = now /\ new.knows <= Password /\ new.knows \in Nat
    BY <1>1, <2>1 DEF Session
  <2>4. \A s \in sessions' : s \in sessions \/ s = new
    BY <1>3, SessionsStep
  <2> HIDE DEF new
  <2> QED
    BY <1>1, <2>2, <2>3, <2>4
<1>4. ASSUME NEW q \in Requests, Step(q)
      PROVE  /\ cache' \in [Instances -> Cached \cup {None}]
             /\ \A i \in Instances : cache'[i] # None => cache'[i].value <= Password'
  <2>1. /\ request[q].value \in Nat /\ request[q].value <= Password /\ request[q].start + Ttl \in Nat
    BY TtlsAreNatural DEF TypeOK, Request
  <2> DEFINE new == [value |-> request[q].value, expires |-> request[q].start + Ttl]
  <2>2. new \in Cached /\ new.value = request[q].value
    BY <2>1 DEF Cached
  <2>3. \A i \in Instances : /\ cache[i] \in Cached \cup {None}
                            /\ cache[i] # None => cache[i].value \in Nat /\ cache[i].value <= Password
    BY DEF TypeOK, Cached
  <2>4. \A i \in Instances : cache'[i] = cache[i] \/ cache'[i] = None \/ cache'[i] = new
    BY <1>4, CacheStep
  <2>5. cache' \in [Instances -> Cached \cup {None}]
    <3>1. PICK i : \/ cache' = cache \/ cache' = [cache EXCEPT ![i] = None]
                   \/ cache' = [cache EXCEPT ![i] = new]
      BY <1>4 DEF Step, Redeem, ChangePassword, Check, Register, Login, Sign, RequestReset, InsertLink,
             Stamp, SpendLinks, Commit, Forget, ReadChange, ReadFails, Fill, Decide
    <3> HIDE DEF new
    <3>2. cache \in [Instances -> Cached \cup {None}]
      BY DEF TypeOK
    <3> QED
      BY <2>2, <3>1, <3>2
  <2> HIDE DEF new
  <2> QED
    BY <1>1, <2>1, <2>2, <2>3, <2>4, <2>5
<1>5. ASSUME NEW q \in Requests, Step(q)
      PROVE  /\ request' \in [Requests -> Request]
             /\ \A x \in Requests : /\ request'[x].start <= now' /\ request'[x].stamp <= now'
                                   /\ request'[x].knows <= Password' /\ request'[x].value <= Password'
  <2>1. \A x \in Requests : /\ request[x] \in Request
                            /\ request[x].start \in Nat /\ request[x].stamp \in Nat
                            /\ request[x].knows \in Nat /\ request[x].value \in Nat
                            /\ request[x].start <= now /\ request[x].stamp <= now
                            /\ request[x].knows <= Password /\ request[x].value <= Password
    BY DEF TypeOK, Request
  <2>2. /\ request'[q] \in Request
        /\ request'[q].start <= now /\ request'[q].stamp <= now
        /\ request'[q].knows <= Password' /\ request'[q].value <= Password
    BY <1>5, RequestType
  <2>3. /\ request' = [request EXCEPT ![q] = request'[q]]
        /\ \A x \in Requests \ {q} : request'[x] = request[x]
    BY <1>5, OthersStay
  <2>4. /\ request'[q].start \in Nat /\ request'[q].stamp \in Nat /\ request'[q].value \in Nat
    BY <2>2 DEF Request
  <2>5. request' \in [Requests -> Request]
    BY <2>2, <2>3 DEF TypeOK
  <2>6. ASSUME NEW x \in Requests
        PROVE  /\ request'[x].start <= now' /\ request'[x].stamp <= now'
               /\ request'[x].knows <= Password' /\ request'[x].value <= Password'
    <3>1. CASE x = q
      BY <1>1, <2>2, <2>4, <3>1
    <3>2. CASE x # q
      BY <1>1, <2>1, <2>3, <3>2
    <3> QED
      BY <3>1, <3>2
  <2> QED
    BY <2>5, <2>6
<1>6. CASE \E q \in Requests : Step(q)
  BY <1>1, <1>2, <1>3, <1>4, <1>5, <1>6 DEF TypeOK
<1>7. CASE PurgeExpired \/ Tick
  <2>1. UNCHANGED <<changes, sessions, cache, request>>
    BY <1>7 DEF PurgeExpired, Tick, db
  <2>2. \A s \in sessions : s.issued \in Nat /\ s.issued <= now
    BY DEF TypeOK, Session
  <2>3. \A x \in Requests : /\ request[x].start \in Nat /\ request[x].stamp \in Nat
                            /\ request[x].start <= now /\ request[x].stamp <= now
    BY DEF TypeOK, Request
  <2>4. /\ \A s \in sessions : s.issued <= now'
        /\ \A x \in Requests : request[x].start <= now' /\ request[x].stamp <= now'
    BY <1>1, <2>2, <2>3
  <2> QED
    BY <1>1, <1>2, <2>1, <2>4 DEF TypeOK, Password
<1> QED
  BY <1>6, <1>7 DEF Next, Step

-----------------------------------------------------------------------------
(* The invariant, part by part.                                            *)

(* The numbers of the state, as the steps below use them.                  *)
LEMMA Numbers ==
    ASSUME TypeOK, Next
    PROVE  /\ now \in Nat /\ now' \in Nat /\ now <= now' /\ Ttl \in Nat
           /\ Password \in Nat /\ Password' \in Nat /\ Password <= Password'
           /\ Len(links) \in Nat /\ Len(links') \in Nat /\ Len(links) <= Len(links')
           /\ \A n \in 1 .. Password : changes'[n] = changes[n] /\ changes[n] \in Change
           /\ Password' # Password =>
                 /\ Password' = Password + 1 /\ changes'[Password + 1].at = now
                 /\ \E q \in Requests : Commit(q)
<1>1. /\ now \in Nat /\ now' \in Nat /\ now <= now' /\ Ttl \in Nat
      /\ Len(links) \in Nat /\ Len(links') \in Nat /\ Len(links) <= Len(links')
      /\ Password \in Nat
  BY DatabaseStep, TtlsAreNatural DEF TypeOK, Password
<1>2. /\ Password' \in Nat /\ Password <= Password'
      /\ \A n \in 1 .. Password : changes'[n] = changes[n] /\ changes[n] \in Change
  BY ChangesStep DEF TypeOK, Password
<1>3. Password' # Password =>
         /\ Password' = Password + 1 /\ changes'[Password + 1].at = now
         /\ \E q \in Requests : Commit(q)
  BY ChangesStep
<1> QED
  BY <1>1, <1>2, <1>3

LEMMA SessionsFollowStep ==
    ASSUME TypeOK, SessionsFollow, Next
    PROVE  SessionsFollow'
<1>1. \A n \in 0 .. Password : ChangedAt(n)' = ChangedAt(n) /\ ChangedAt(n) <= now
  <2>1. ASSUME NEW n \in 1 .. Password
        PROVE  ChangedAt(n)' = ChangedAt(n) /\ ChangedAt(n) <= now
    <3>1. changes'[n] = changes[n] /\ changes[n] \in Change /\ n # 0 /\ now \in Nat
      BY Numbers
    <3>2. changes[n].stamp <= changes[n].at /\ changes[n].at <= now
      BY DEF TypeOK, Password
    <3>3. changes[n].stamp <= now
      BY <3>1, <3>2 DEF Change
    <3> QED
      BY <3>1, <3>3 DEF ChangedAt
  <2>2. ChangedAt(0)' = ChangedAt(0) /\ ChangedAt(0) <= now
    BY Numbers DEF ChangedAt
  <2> QED
    BY <2>1, <2>2, Numbers
<1>2. ASSUME NEW q \in Requests, Step(q), NEW s \in sessions'
      PROVE  ChangedAt(s.knows)' <= s.issued
  <2>1. CASE s \in sessions
    <3>1. s.knows \in 0 .. Password
      BY <2>1, Numbers DEF TypeOK, Session
    <3> QED
      BY <1>1, <2>1, <3>1 DEF SessionsFollow
  <2>2. CASE s = [issued |-> now, knows |-> request[q].knows]
    <3>1. request[q].knows \in 0 .. Password
      BY Numbers DEF TypeOK, Request
    <3> QED
      BY <1>1, <2>2, <3>1
  <2> QED
    BY <1>2, <2>1, <2>2, SessionsStep
<1>3. CASE PurgeExpired \/ Tick
  BY <1>3 DEF PurgeExpired, Tick, db, SessionsFollow, ChangedAt
<1> QED
  BY <1>2, <1>3 DEF Next, Step, SessionsFollow

(* An answer that was in force when its lookup began stays so dated.       *)
LEMMA StillDated ==
    ASSUME TypeOK, Next, NEW v \in Nat, NEW since \in Nat, since <= now,
           v < Password => since <= changes[v + 1].at
    PROVE  v < Password' => since <= changes'[v + 1].at
<1>1. CASE v < Password
  <2>1. v + 1 \in 1 .. Password
    BY <1>1, Numbers
  <2> QED
    BY <1>1, <2>1, Numbers
<1>2. CASE ~ (v < Password)
  <2>1. SUFFICES ASSUME v < Password' PROVE since <= changes'[v + 1].at
    OBVIOUS
  <2>2. Password' # Password /\ v = Password
    BY <1>2, <2>1, Numbers
  <2> QED
    BY <2>2, Numbers
<1> QED
  BY <1>1, <1>2

LEMMA LookupsStep ==
    ASSUME TypeOK, CacheExpires, LookupsAreFresh, CheckIsFresh, Next
    PROVE  LookupsAreFresh' /\ CheckIsFresh'
<1> DEFINE Good(x) == /\ request'[x].pc = "read" => \A n \in request'[x].past : n < Password'
                      /\ request'[x].pc = "fill" =>
                            /\ request'[x].value \notin request'[x].past
                            /\ request'[x].value < Password' =>
                                  request'[x].start <= changes'[request'[x].value + 1].at
                      /\ request'[x].pc = "decide" => request'[x].value \notin request'[x].past
<1>1. ASSUME NEW x \in Requests, request'[x] = request[x]
      PROVE  Good(x)
  <2>1. /\ request[x].value \in Nat /\ request[x].start \in Nat /\ request[x].past \in SUBSET Int
        /\ request[x].start <= now
    BY DEF TypeOK, Request
  <2>2. request[x].pc = "read" => \A n \in request[x].past : n < Password'
    BY <2>1, Numbers DEF LookupsAreFresh
  <2>3. request[x].pc = "fill" =>
           /\ request[x].value \notin request[x].past
           /\ request[x].value < Password' => request[x].start <= changes'[request[x].value + 1].at
    BY <2>1, StillDated DEF LookupsAreFresh
  <2> QED
    BY <1>1, <2>2, <2>3 DEF CheckIsFresh
<1>2. ASSUME NEW q \in Requests, Step(q)
      PROVE  Good(q)
  <2> DEFINE r == request[q]
  <2>1. NoRequest.pc = "idle"
    BY NoRequestType
  <2>2. CASE request'[q].pc \notin {"read", "fill", "decide"}
    BY <2>2
  <2>3. CASE ReadChange(q)
    <3>1. /\ request'[q].pc = "fill" /\ request'[q].value = Password /\ request'[q].past = r.past
          /\ Password' = Password
      BY <2>3 DEF ReadChange, TypeOK, Request, db, Password
    <3>2. \A n \in r.past : n < Password
      BY <2>3 DEF ReadChange, LookupsAreFresh
    <3> QED
      BY <3>1, <3>2, Numbers
  <2>4. CASE Fill(q)
    BY <2>4 DEF Fill, Goto, TypeOK, Request, LookupsAreFresh
  <2>5. CASE \E i \in Instances : Check(q, i)
    <3>1. PICK i \in Instances : Check(q, i)
      BY <2>5
    <3> DEFINE hit == cache[i] # None /\ cache[i].expires > now
    <3>2. PICK s : request'[q] = [NoRequest EXCEPT !.pc = IF hit THEN "decide" ELSE "read", !.in = i,
                               !.start = now, !.session = s, !.past = LongReplaced,
                               !.value = IF hit THEN cache[i].value ELSE 0]
      BY <3>1 DEF Check, Begin, TypeOK
    <3>3. Password' = Password
      BY <3>1 DEF Check, db, Password
    <3>4. \A n \in LongReplaced : n < Password /\ n \in Nat /\ changes[n + 1].at + Ttl <= now
      BY Numbers DEF LongReplaced, Password
    <3>5. CASE hit
      <4>1. request'[q].pc = "decide" /\ request'[q].value = cache[i].value
            /\ request'[q].past = LongReplaced
        BY <3>2, <3>5, NoRequestType DEF Request
      <4>2. cache[i].value \notin LongReplaced
        <5>1. SUFFICES ASSUME cache[i].value \in LongReplaced PROVE FALSE
          OBVIOUS
        <5>2. cache[i].expires <= changes[cache[i].value + 1].at + Ttl
          BY <3>4, <3>5, <5>1 DEF CacheExpires
        <5>3. changes[cache[i].value + 1].at + Ttl <= now
          BY <3>4, <5>1
        <5>4. /\ cache[i].expires \in Nat /\ cache[i].value \in Nat
          BY <3>5 DEF TypeOK, Cached
        <5>5. changes[cache[i].value + 1].at \in Nat
          <6>1. cache[i].value + 1 \in 1 .. Password
            BY <3>4, <5>1, <5>4, Numbers
          <6> QED
            BY <6>1, Numbers DEF Change
        <5>6. now \in Nat /\ Ttl \in Nat /\ cache[i].expires > now
          BY <3>5, Numbers
        <5> HIDE DEF hit
        <5> QED
          BY <5>2, <5>3, <5>4, <5>5, <5>6
      <4> QED
        BY <4>1, <4>2
    <3>6. CASE ~ hit
      <4>1. request'[q].pc = "read" /\ request'[q].past = LongReplaced
        BY <3>2, <3>6, NoRequestType DEF Request
      <4> QED
        BY <3>3, <3>4, <4>1
    <3> QED
      BY <3>5, <3>6
  <2>6. CASE ~ ReadChange(q) /\ ~ Fill(q) /\ ~ \E i \in Instances : Check(q, i)
    <3>1. request'[q].pc \notin {"read", "fill", "decide"}
      <4>1. NoRequest \in Request
        BY NoRequestType
      <4>8. ASSUME NEW new, Begin(q, new) PROVE request'[q] = new
        BY <4>8 DEF Begin, TypeOK
      <4>2. CASE \E i \in Instances : Redeem(q, i)
        <5>1. PICK i, l : request'[q] = [NoRequest EXCEPT !.pc = "stamp", !.in = i, !.link = l]
          BY <4>2, <4>8 DEF Redeem
        <5> QED
          BY <4>1, <5>1 DEF Request
      <4>3. CASE \E i \in Instances : ChangePassword(q, i)
        <5>1. PICK i : request'[q] = [NoRequest EXCEPT !.pc = "stamp", !.in = i]
          BY <4>3 DEF ChangePassword, Begin, TypeOK
        <5> QED
          BY <4>1, <5>1 DEF Request
      <4>4. CASE Login(q) \/ RequestReset(q)
        <5>1. \E k : \/ request'[q] = [NoRequest EXCEPT !.pc = "sign", !.knows = k]
                     \/ request'[q] = [NoRequest EXCEPT !.pc = "link", !.rows = k]
          BY <4>4 DEF Login, RequestReset, Begin, TypeOK
        <5> QED
          BY <4>1, <5>1 DEF Request
      <4>5. CASE Register(q) \/ Forget(q) \/ Stamp(q) \/ SpendLinks(q)
        BY <4>5 DEF Register, Forget, Stamp, SpendLinks, Goto, TypeOK, Request
      <4>6. CASE Sign(q) \/ InsertLink(q) \/ ReadFails(q) \/ Decide(q)
        BY <2>1, <4>6 DEF Sign, InsertLink, ReadFails, Decide, Answer, TypeOK
      <4>7. CASE Commit(q)
        <5>1. PICK i, k : request'[q] = [NoRequest EXCEPT !.pc = "forget", !.in = i, !.knows = k]
          BY <4>7 DEF Commit, TypeOK
        <5> QED
          BY <4>1, <5>1 DEF Request
      <4> QED
        BY <1>2, <2>6, <4>2, <4>3, <4>4, <4>5, <4>6, <4>7 DEF Step
    <3> QED
      BY <3>1
  <2> QED
    BY <2>3, <2>4, <2>5, <2>6
<1>3. \A x \in Requests : Good(x)
  <2>1. CASE \E q \in Requests : Step(q)
    BY <1>1, <1>2, <2>1, OthersStay
  <2>2. CASE PurgeExpired \/ Tick
    BY <1>1, <2>2 DEF PurgeExpired, Tick
  <2> QED
    BY <2>1, <2>2 DEF Next, Step
<1> QED
  BY <1>3 DEF LookupsAreFresh, CheckIsFresh

LEMMA CacheExpiresStep ==
    ASSUME TypeOK, CacheExpires, LookupsAreFresh, Next
    PROVE  CacheExpires'
<1> SUFFICES ASSUME NEW i \in Instances, cache'[i] # None
             PROVE  /\ cache'[i].expires <= now' + Ttl
                    /\ cache'[i].value < Password' =>
                          cache'[i].expires <= changes'[cache'[i].value + 1].at + Ttl
  BY DEF CacheExpires
<1> DEFINE Dated(c) == c.value < Password' => c.expires <= changes'[c.value + 1].at + Ttl
<1>1. now \in Nat /\ now' \in Nat /\ now <= now' /\ Ttl \in Nat /\ Password \in Nat
  BY Numbers
<1>2. CASE cache'[i] = cache[i]
  <2> DEFINE c == cache[i]
  <2>1. c.value \in Nat /\ c.expires \in Nat /\ c.expires <= now + Ttl /\ c.value <= Password
    BY <1>2 DEF TypeOK, Cached, CacheExpires
  <2>2. CASE c.value < Password
    <3>1. c.expires <= changes[c.value + 1].at + Ttl
      BY <1>2, <2>2 DEF CacheExpires
    <3>2. changes'[c.value + 1] = changes[c.value + 1]
      <4>1. c.value + 1 \in 1 .. Password
        BY <1>1, <2>1, <2>2
      <4> QED
        BY <4>1, Numbers
    <3> QED
      BY <1>1, <1>2, <2>1, <3>1, <3>2
  <2>3. CASE ~ (c.value < Password)
    <3>1. c.value < Password' => changes'[c.value + 1].at = now
      <4>1. c.value = Password
        BY <1>1, <2>1, <2>3
      <4> QED
        BY <4>1, Numbers
    <3> QED
      BY <1>1, <1>2, <2>1, <3>1
  <2> QED
    BY <2>2, <2>3
<1>3. CASE \E q \in Requests : Fill(q) /\ cache'[i] = [value |-> request[q].value,
                                                      expires |-> request[q].start + Ttl]
  <2>1. PICK q \in Requests : Fill(q) /\ cache'[i] = [value |-> request[q].value,
                                                      expires |-> request[q].start + Ttl]
    BY <1>3
  <2> DEFINE r == request[q]
  <2>2. /\ r.value \in Nat /\ r.start \in Nat /\ r.start <= now
        /\ r.value < Password => r.start <= changes[r.value + 1].at
    BY <2>1 DEF TypeOK, Request, Fill, LookupsAreFresh
  <2>3. UNCHANGED <<changes, now>>
    BY <2>1 DEF Fill, db
  <2>4. r.value < Password => changes[r.value + 1].at \in Nat
    <3>1. r.value < Password => r.value + 1 \in 1 .. Password
      BY <1>1, <2>2
    <3> QED
      BY <3>1, Numbers DEF Change
  <2>5. cache'[i].value = r.value /\ cache'[i].expires = r.start + Ttl
    BY <2>1
  <2> HIDE DEF r
  <2> QED
    BY <1>1, <2>2, <2>3, <2>4, <2>5 DEF Password
<1>4. CASE PurgeExpired \/ Tick
  BY <1>2, <1>4 DEF PurgeExpired, Tick
<1> QED
  BY <1>2, <1>3, <1>4, CacheStep DEF Next, Step

LEMMA LinksStep ==
    ASSUME TypeOK, SpendsAll, ChangeEndsLinks, Next
    PROVE  SpendsAll' /\ ChangeEndsLinks'
<1> DEFINE Good(x) ==
             /\ request'[x].pc \in {"spend", "commit"} => request'[x].out <= Len(links')
             /\ request'[x].pc = "commit" =>
                   \A i \in 1 .. request'[x].out : Live(i)' => i \in request'[x].rows
<1>1. /\ Len(links) \in Nat /\ Len(links') \in Nat /\ Len(links) <= Len(links')
      /\ \A i \in 1 .. Len(links) : Live(i)' => Live(i)
  BY Numbers, DatabaseStep
<1>2. ASSUME NEW x \in Requests, request'[x] = request[x]
      PROVE  Good(x)
  <2>1. request[x].out \in Nat
    BY DEF TypeOK, Request
  <2>2. request[x].pc \in {"spend", "commit"} =>
           request[x].out <= Len(links) /\ request[x].out <= Len(links')
    BY <1>1, <2>1 DEF SpendsAll
  <2>3. request[x].pc = "commit" => \A i \in 1 .. request[x].out : Live(i)' => i \in request[x].rows
    BY <1>1, <2>1, <2>2 DEF SpendsAll
  <2> QED
    BY <1>2, <2>2, <2>3
<1>3. ASSUME NEW q \in Requests, Step(q)
      PROVE  Good(q)
  <2> DEFINE r == request[q]
  <2>1. CASE Stamp(q)
    <3>1. request'[q].pc = "spend" /\ request'[q].out = Len(links)
      BY <2>1 DEF Stamp, TypeOK, Request
    <3> QED
      BY <1>1, <3>1
  <2>2. CASE SpendLinks(q)
    <3>1. /\ request'[q].pc = "commit" /\ request'[q].out = r.out /\ Unused \subseteq request'[q].rows
          /\ links' = links /\ r.out \in Nat /\ r.out <= Len(links)
      BY <2>2 DEF SpendLinks, TypeOK, Request, db, SpendsAll
    <3>2. \A i \in 1 .. r.out : Live(i) => i \in Unused
      BY <1>1, <3>1 DEF Unused
    <3> QED
      BY <1>1, <3>1, <3>2 DEF Live
  <2>3. CASE ~ Stamp(q) /\ ~ SpendLinks(q)
    <3>1. request'[q].pc \notin {"spend", "commit"}
      <4>1. NoRequest \in Request /\ NoRequest.pc = "idle"
        BY NoRequestType
      <4>2. ASSUME NEW new, Begin(q, new) PROVE request'[q] = new
        BY <4>2 DEF Begin, TypeOK
      <4>3. CASE \E i \in Instances : Redeem(q, i)
        <5>1. PICK i, l : request'[q] = [NoRequest EXCEPT !.pc = "stamp", !.in = i, !.link = l]
          BY <4>2, <4>3 DEF Redeem
        <5> QED
          BY <4>1, <5>1 DEF Request
      <4>4. CASE \E i \in Instances : ChangePassword(q, i)
        <5>1. PICK i : request'[q] = [NoRequest EXCEPT !.pc = "stamp", !.in = i]
          BY <4>2, <4>4 DEF ChangePassword
        <5> QED
          BY <4>1, <5>1 DEF Request
      <4>5. CASE Login(q) \/ RequestReset(q)
        <5>1. \E k : \/ request'[q] = [NoRequest EXCEPT !.pc = "sign", !.knows = k]
                     \/ request'[q] = [NoRequest EXCEPT !.pc = "link", !.rows = k]
          BY <4>2, <4>5 DEF Login, RequestReset
        <5> QED
          BY <4>1, <5>1 DEF Request
      <4>6. CASE \E i \in Instances : Check(q, i)
        <5>1. PICK i \in Instances : Check(q, i)
          BY <4>6
        <5> DEFINE hit == cache[i] # None /\ cache[i].expires > now
        <5>2. PICK s : request'[q] = [NoRequest EXCEPT !.pc = IF hit THEN "decide" ELSE "read", !.in = i,
                               !.start = now, !.session = s, !.past = LongReplaced,
                               !.value = IF hit THEN cache[i].value ELSE 0]
          BY <4>2, <5>1 DEF Check
        <5> HIDE DEF hit
        <5> QED
          BY <4>1, <5>2 DEF Request
      <4>7. CASE Register(q) \/ Forget(q) \/ ReadChange(q) \/ Fill(q)
        BY <4>7 DEF Register, Forget, ReadChange, Fill, Goto, TypeOK, Request
      <4>8. CASE Sign(q) \/ InsertLink(q) \/ ReadFails(q) \/ Decide(q)
        BY <4>1, <4>8 DEF Sign, InsertLink, ReadFails, Decide, Answer, TypeOK
      <4>9. CASE Commit(q)
        <5>1. PICK i, k : request'[q] = [NoRequest EXCEPT !.pc = "forget", !.in = i, !.knows = k]
          BY <4>9 DEF Commit, TypeOK
        <5> QED
          BY <4>1, <5>1 DEF Request
      <4> QED
        BY <1>3, <2>3, <4>3, <4>4, <4>5, <4>6, <4>7, <4>8, <4>9 DEF Step
    <3> QED
      BY <3>1
  <2> QED
    BY <2>1, <2>2, <2>3
<1>4. \A x \in Requests : Good(x)
  <2>1. CASE \E q \in Requests : Step(q)
    BY <1>2, <1>3, <2>1, OthersStay
  <2>2. CASE PurgeExpired \/ Tick
    BY <1>2, <2>2 DEF PurgeExpired, Tick
  <2> QED
    BY <2>1, <2>2 DEF Next, Step
<1>5. ASSUME NEW n \in 1 .. Password'
      PROVE  changes'[n].out <= Len(links') /\ \A i \in 1 .. changes'[n].out : ~ Live(i)'
  <2>1. CASE n \in 1 .. Password
    <3>1. changes'[n] = changes[n] /\ changes[n].out \in Nat
      BY <2>1, Numbers DEF Change
    <3>2. changes[n].out <= Len(links) /\ \A i \in 1 .. changes[n].out : ~ Live(i)
      BY <2>1 DEF SpendsAll, ChangeEndsLinks, Password
    <3> QED
      BY <1>1, <3>1, <3>2
  <2>2. CASE n \notin 1 .. Password
    <3>1. n = Password + 1 /\ Password' # Password
      BY <2>2, Numbers
    <3>2. PICK q \in Requests : Commit(q)
      BY <3>1, Numbers
    <3> DEFINE out == request[q].out
    <3>3. changes'[n].out = out
      BY <3>1, <3>2, ChangesStep
    <3>4. /\ links' = Spend(request[q].rows) /\ out \in Nat /\ out <= Len(links)
          /\ \A i \in 1 .. out : Live(i) => i \in request[q].rows
      BY <3>2 DEF Commit, TypeOK, Request, SpendsAll
    <3>5. links \in Seq(Link)
      BY DEF TypeOK
    <3>6. \A i \in 1 .. Len(links) : Spend(request[q].rows)[i].state = "unused" =>
                                       Live(i) /\ i \notin request[q].rows
      BY <3>5, SpendFacts
    <3>7. \A i \in 1 .. Len(links) : Live(i)' => Live(i) /\ i \notin request[q].rows
      BY <3>4, <3>6 DEF Live
    <3> QED
      BY <1>1, <3>3, <3>4, <3>7
  <2> QED
    BY <2>1, <2>2
<1> QED
  BY <1>4, <1>5 DEF SpendsAll, ChangeEndsLinks, Password

-----------------------------------------------------------------------------
(* The theorems.                                                           *)

LEMMA AuthInit == Init => AuthInv
<1> SUFFICES ASSUME Init PROVE AuthInv
  OBVIOUS
<1>1. TypeOK
  BY NoRequestType DEF Init, TypeOK, Password
<1>2. SessionsFollow /\ CacheExpires /\ LookupsAreFresh /\ SpendsAll /\ CheckIsFresh /\ ChangeEndsLinks
  BY NoRequestType DEF Init, SessionsFollow, CacheExpires, LookupsAreFresh, SpendsAll, CheckIsFresh,
                       ChangeEndsLinks
<1> QED
  BY <1>1, <1>2 DEF AuthInv

LEMMA AuthStep == AuthInv /\ [Next]_vars => AuthInv'
<1> SUFFICES ASSUME AuthInv, [Next]_vars PROVE AuthInv'
  OBVIOUS
<1>1. CASE Next
  BY <1>1, TypeStep, SessionsFollowStep, CacheExpiresStep, LookupsStep, LinksStep DEF AuthInv
<1>2. CASE UNCHANGED vars
  BY <1>2 DEF vars, db, AuthInv, TypeOK, SessionsFollow, CacheExpires, LookupsAreFresh, SpendsAll,
              CheckIsFresh, ChangeEndsLinks, ChangedAt, Password, Live
<1> QED
  BY <1>1, <1>2

(* The inductive invariant of concurrent sign-ins, changes and checks.     *)
THEOREM AuthInvHolds == Spec => []AuthInv
BY AuthInit, AuthStep, PTL DEF Spec

(* What a check answers, in whichever process and however lookups and
   changes overlap, is at most Ttl old (auth.service.ts:36).               *)
THEOREM CheckIsFreshHolds == Spec => []CheckIsFresh
<1>1. AuthInv => CheckIsFresh
  BY DEF AuthInv
<1> QED
  BY <1>1, AuthInvHolds, PTL

(* A session obtained with the password in force is not refused, however
   changes and sign-ins overlap (tokens.ts).                               *)
THEOREM CurrentPasswordHoldsAlways == Spec => []CurrentPasswordHolds
<1>1. AuthInv => CurrentPasswordHolds
  <2> SUFFICES ASSUME AuthInv, NEW s \in sessions, s.knows = Password
               PROVE  ~ Revoked(s, Password)
    BY DEF CurrentPasswordHolds
  <2>1. ChangedAt(Password) <= s.issued /\ s.issued \in Nat
    BY DEF AuthInv, SessionsFollow, TypeOK, Session
  <2>2. ChangedAt(Password) \in Int
    <3>1. Password \in Nat /\ \A n \in 1 .. Password : changes[n].stamp \in Int
      <4>1. changes \in Seq(Change)
        BY DEF AuthInv, TypeOK
      <4>2. \A n \in 1 .. Len(changes) : changes[n] \in Change
        BY <4>1
      <4> QED
        BY <4>1, <4>2 DEF Change, Password
    <3> QED
      BY <3>1 DEF ChangedAt, Password
  <2> QED
    BY <2>1, <2>2 DEF Revoked
<1> QED
  BY <1>1, AuthInvHolds, PTL

(* A password change ends every reset link that was out when it began, also
   those that were handed out by an overlapping request (auth.service.ts:198). *)
THEOREM ChangeEndsLinksHolds == Spec => []ChangeEndsLinks
<1>1. AuthInv => ChangeEndsLinks
  BY DEF AuthInv
<1> QED
  BY <1>1, AuthInvHolds, PTL
=============================================================================
