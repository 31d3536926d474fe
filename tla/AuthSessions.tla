---------------------------- MODULE AuthSessions ----------------------------
(***************************************************************************)
(* One account: its password, its reset links, its sessions, and the       *)
(* revocation check of every API process (auth.service.ts, tokens.ts,      *)
(* auth.guard.ts).  Requests run concurrently in several processes, one    *)
(* database statement or await per step; a transaction takes effect when   *)
(* it commits and sees what had committed when its statement ran.          *)
(*                                                                         *)
(* A password is known by the number of the change that set it, 0 for the  *)
(* one given at registration.  Clocks of the processes agree.              *)
(***************************************************************************)
EXTENDS Integers, Sequences

CONSTANTS Requests,     \* concurrent API requests
          Instances,    \* API processes
          Ttl,          \* revocationCacheSeconds (0 by default)
          LinkTtl,      \* passwordResetTtlMinutes
          MaxTime,      \* bound: the clock
          MaxLinks,     \* bound: reset links
          MaxChanges,   \* bound: password changes
          MaxRequests,  \* bound: requests after the registration
          None

ASSUME TtlsAreNatural == Ttl \in Nat /\ LinkTtl \in Nat \ {0}

VARIABLES now,
          registered,   \* the users row exists
          changes,      \* committed password changes, the last one is in force
          links,        \* password_reset_tokens, in the order of their inserts
          sessions,     \* the sessions signed so far
          cache,        \* cache[i]: revocationCache of process i, or None
          request,      \* request[q]: the request in progress in q
          asked         \* requests made so far

db == <<registered, changes, links>>
vars == <<now, db, sessions, cache, request, asked>>

Change == [stamp : Nat, out : Nat, at : Nat]
Link == [state : {"unused", "used", "deleted"}, expires : Nat]
Session == [issued : Nat, knows : Nat]
Cached == [value : Nat, expires : Nat]

Request == [pc : {"idle", "sign", "link", "stamp", "spend", "commit", "forget", "read", "fill", "decide"},
            in : Instances \cup {None}, start : Nat, knows : Nat, link : Nat, rows : SUBSET Nat,
            stamp : Nat, out : Nat, session : Session \cup {None}, value : Nat, past : SUBSET Int]

Password == Len(changes)
ChangedAt(n) == IF n = 0 THEN -1 ELSE changes[n].stamp

Live(i) == links[i].state = "unused"
Usable(i) == Live(i) /\ links[i].expires > now
Unused == {i \in 1 .. Len(links) : Live(i)}

(* Mutant of Revoked: the instant of the change itself is refused too.     *)
RevokedToo(session, n) == ChangedAt(n) >= session.issued

(* isSessionRevoked, against the change that a lookup returned.            *)
Revoked(session, n) == ChangedAt(n) > session.issued

NoRequest == [pc |-> "idle", in |-> None, start |-> 0, knows |-> 0, link |-> 0, rows |-> {},
              stamp |-> 0, out |-> 0, session |-> None, value |-> 0, past |-> {}]

Begin(q, r) == /\ request[q].pc = "idle"
               /\ asked < MaxRequests /\ asked' = asked + 1
               /\ request' = [request EXCEPT ![q] = r]
Goto(q, pc) == request' = [request EXCEPT ![q].pc = pc]
Answer(q) == request' = [request EXCEPT ![q] = NoRequest]

-----------------------------------------------------------------------------
(* Signing in.                                                             *)

(* Two registrations of an address: the unique email refuses the second.   *)
Register(q) ==
    /\ request[q].pc = "idle" /\ ~ registered
    /\ registered' = TRUE
    /\ Goto(q, "sign")
    /\ UNCHANGED <<now, changes, links, sessions, cache, asked>>

(* The row as read; the comparison takes a while.                          *)
Login(q) ==
    /\ registered
    /\ Begin(q, [NoRequest EXCEPT !.pc = "sign", !.knows = Password])
    /\ UNCHANGED <<now, db, sessions, cache>>

Sign(q) ==
    /\ request[q].pc = "sign"
    /\ sessions' = sessions \cup {[issued |-> now, knows |-> request[q].knows]}
    /\ Answer(q)
    /\ UNCHANGED <<now, db, cache, asked>>

-----------------------------------------------------------------------------
(* Reset links.  requestPasswordReset ends the unused links and inserts one
   in a transaction; its two statements see different states.              *)

RequestReset(q) ==
    /\ registered
    /\ Len(links) < MaxLinks
    /\ Begin(q, [NoRequest EXCEPT !.pc = "link", !.rows = Unused])
    /\ UNCHANGED <<now, db, sessions, cache>>

Spend(rows) == [i \in 1 .. Len(links) |-> IF Live(i) /\ i \in rows
                                           THEN [links[i] EXCEPT !.state = "used"] ELSE links[i]]

InsertLink(q) ==
    /\ request[q].pc = "link"
    /\ Len(links) < MaxLinks
    /\ links' = Append(Spend(request[q].rows), [state |-> "unused", expires |-> now + LinkTtl])
    /\ Answer(q)
    /\ UNCHANGED <<now, registered, changes, sessions, cache, asked>>

(* resetPassword: the link is looked at before the hashing.                *)
Redeem(q, i) ==
    /\ \E l \in 1 .. Len(links) :
          /\ Usable(l)
          /\ Password < MaxChanges
          /\ Begin(q, [NoRequest EXCEPT !.pc = "stamp", !.in = i, !.link = l])
    /\ UNCHANGED <<now, db, sessions, cache>>

(* changePassword, by someone who knows the password in force.             *)
ChangePassword(q, i) ==
    /\ registered
    /\ Password < MaxChanges
    /\ Begin(q, [NoRequest EXCEPT !.pc = "stamp", !.in = i])
    /\ UNCHANGED <<now, db, sessions, cache>>

(* applyNewPassword: the hash is ready and the change gets its instant.    *)
Stamp(q) ==
    /\ request[q].pc = "stamp"
    /\ request' = [request EXCEPT ![q].pc = "spend", ![q].stamp = now, ![q].out = Len(links)]
    /\ UNCHANGED <<now, db, sessions, cache, asked>>

(* Mutant of SpendLinks: only the redeemed link is ended.                  *)
SpendOneLink(q) ==
    /\ request[q].pc = "spend"
    /\ request' = [request EXCEPT ![q].pc = "commit", ![q].rows = {request[q].link}]
    /\ UNCHANGED <<now, db, sessions, cache, asked>>

SpendLinks(q) ==
    /\ request[q].pc = "spend"
    /\ request' = [request EXCEPT ![q].pc = "commit", ![q].rows = Unused \cup {request[q].link}]
    /\ UNCHANGED <<now, db, sessions, cache, asked>>

(* out and at are for the properties: the links there were when the change
   began, and when it took effect.                                         *)
Commit(q) ==
    /\ request[q].pc = "commit"
    /\ Len(changes) < MaxChanges
    /\ changes' = Append(changes, [stamp |-> request[q].stamp, out |-> request[q].out, at |-> now])
    /\ links' = Spend(request[q].rows)
    /\ request' = [request EXCEPT ![q] = [NoRequest EXCEPT !.pc = "forget", !.in = request[q].in,
                                                           !.knows = Len(changes) + 1]]
    /\ UNCHANGED <<now, registered, sessions, cache, asked>>

(* forgetRevocation, in this process only; then the mail, and a session.   *)
Forget(q) ==
    /\ request[q].pc = "forget"
    /\ cache' = [cache EXCEPT ![request[q].in] = None]
    /\ Goto(q, "sign")
    /\ UNCHANGED <<now, db, sessions, asked>>

Expired == {i \in 1 .. Len(links) : links[i].expires < now}

PurgeExpired ==
    /\ \E i \in Expired : links[i].state # "deleted"
    /\ links' = [i \in 1 .. Len(links) |->
                    IF i \in Expired THEN [links[i] EXCEPT !.state = "deleted"] ELSE links[i]]
    /\ UNCHANGED <<now, registered, changes, sessions, cache, request, asked>>

-----------------------------------------------------------------------------
(* The guard: a cached answer that has not expired, or the database's.     *)

(* The passwords that were replaced Ttl ago or earlier.                    *)
LongReplaced == {n \in 0 .. Len(changes) - 1 : changes[n + 1].at + Ttl <= now}

Check(q, i) ==
    LET hit == cache[i] # None /\ cache[i].expires > now IN
    /\ \E s \in sessions :
          Begin(q, [NoRequest EXCEPT !.pc = IF hit THEN "decide" ELSE "read", !.in = i,
                       !.start = now, !.session = s, !.past = LongReplaced,
                       !.value = IF hit THEN cache[i].value ELSE 0])
    /\ UNCHANGED <<now, db, sessions, cache>>

ReadChange(q) ==
    /\ request[q].pc = "read"
    /\ request' = [request EXCEPT ![q].pc = "fill", ![q].value = Password]
    /\ UNCHANGED <<now, db, sessions, cache, asked>>

(* "Fails open on a database error."                                       *)
ReadFails(q) ==
    /\ request[q].pc = "read"
    /\ Answer(q)
    /\ UNCHANGED <<now, db, sessions, cache, asked>>

(* Mutant of Fill: the entry lives Ttl from its completion.                *)
FillLate(q) ==
    /\ request[q].pc = "fill"
    /\ cache' = [cache EXCEPT ![request[q].in] = [value |-> request[q].value, expires |-> now + Ttl]]
    /\ Goto(q, "decide")
    /\ UNCHANGED <<now, db, sessions, asked>>

(* The entry lives Ttl from the start of the lookup; nothing keeps it from
   overwriting what happened to the cache in the meantime.                 *)
Fill(q) ==
    /\ request[q].pc = "fill"
    /\ cache' = [cache EXCEPT ![request[q].in] =
                    [value |-> request[q].value, expires |-> request[q].start + Ttl]]
    /\ Goto(q, "decide")
    /\ UNCHANGED <<now, db, sessions, asked>>

(* The request is let through, or refused; the token itself lives on.      *)
Decide(q) ==
    /\ request[q].pc = "decide"
    /\ Answer(q)
    /\ UNCHANGED <<now, db, sessions, cache, asked>>

-----------------------------------------------------------------------------
Tick == now < MaxTime /\ now' = now + 1 /\ UNCHANGED <<db, sessions, cache, request, asked>>

Init == /\ now = 0 /\ registered = FALSE
        /\ changes = << >> /\ links = << >> /\ sessions = {}
        /\ cache = [i \in Instances |-> None]
        /\ request = [q \in Requests |-> NoRequest]
        /\ asked = 0

Next == \/ \E q \in Requests : \E i \in Instances :
              Redeem(q, i) \/ ChangePassword(q, i) \/ Check(q, i)
        \/ \E q \in Requests : \/ Register(q) \/ Login(q) \/ Sign(q) \/ RequestReset(q) \/ InsertLink(q)
                               \/ Stamp(q) \/ SpendLinks(q) \/ Commit(q) \/ Forget(q)
                               \/ ReadChange(q) \/ ReadFails(q) \/ Fill(q) \/ Decide(q)
        \/ PurgeExpired
        \/ Tick

Spec == Init /\ [][Next]_vars

-----------------------------------------------------------------------------
(* Properties.                                                             *)

TypeOK ==
    /\ now \in Nat
    /\ changes \in Seq(Change) /\ links \in Seq(Link) /\ sessions \subseteq Session
    /\ cache \in [Instances -> Cached \cup {None}]
    /\ request \in [Requests -> Request]
    /\ \A n \in 1 .. Len(changes) : changes[n].stamp <= changes[n].at /\ changes[n].at <= now
    /\ \A s \in sessions : s.issued <= now /\ s.knows <= Password
    /\ \A i \in Instances : cache[i] # None => cache[i].value <= Password
    /\ \A q \in Requests : /\ request[q].start <= now /\ request[q].stamp <= now
                           /\ request[q].knows <= Password /\ request[q].value <= Password

(* auth.service.ts:36: "At the default TTL of 0 the check is exact": a check
   that begins Ttl or more after a change, in whichever process, does not
   take its answer from before that change.                                *)
CheckIsFresh == \A q \in Requests : request[q].pc = "decide" => request[q].value \notin request[q].past

(* tokens.ts: "The session issued together with a password change is signed
   after the change is recorded, so it stays valid": no session obtained
   with the password in force is refused by the database's answer.         *)
CurrentPasswordHolds == \A s \in sessions : s.knows = Password => ~ Revoked(s, Password)

(* auth.service.ts:198: "any other outstanding reset links killed": no link
   that was out when a change began can be redeemed after it.              *)
ChangeEndsLinks ==
    \A n \in 1 .. Len(changes) : \A i \in 1 .. changes[n].out : ~ Live(i)

-----------------------------------------------------------------------------
(* The inductive invariant of the proofs, in AuthSessionsProofs.           *)

(* A session was signed no earlier than the change it knows.               *)
SessionsFollow == \A s \in sessions : ChangedAt(s.knows) <= s.issued

(* A cached answer that a change has overtaken expires Ttl after it.       *)
CacheExpires ==
    \A i \in Instances :
       cache[i] # None =>
          /\ cache[i].expires <= now + Ttl
          /\ cache[i].value < Password => cache[i].expires <= changes[cache[i].value + 1].at + Ttl

(* A lookup returns a password that was in force after its check began.    *)
LookupsAreFresh ==
    \A q \in Requests :
       LET r == request[q] IN
       /\ r.pc = "read" => \A n \in r.past : n < Password
       /\ r.pc = "fill" => /\ r.value \notin r.past
                           /\ r.value < Password => r.start <= changes[r.value + 1].at

(* A change ends the links there were when it began, and are not ended yet. *)
SpendsAll ==
    /\ \A n \in 1 .. Len(changes) : changes[n].out <= Len(links)
    /\ \A q \in Requests :
          LET r == request[q] IN
          /\ r.pc \in {"spend", "commit"} => r.out <= Len(links)
          /\ r.pc = "commit" => \A i \in 1 .. r.out : Live(i) => i \in r.rows

AuthInv == /\ TypeOK /\ SessionsFollow /\ CacheExpires /\ LookupsAreFresh /\ SpendsAll
           /\ CheckIsFresh /\ ChangeEndsLinks
=============================================================================
