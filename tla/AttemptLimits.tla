---------------------------- MODULE AttemptLimits ----------------------------
(***************************************************************************)
(* Two doors that count the attempts at a secret: the code mailed at       *)
(* sign-up (apps/accounts/views.py, SignupOTP) and the look-up of a report *)
(* by its verification code (apps/issues/views.py).  The first counts in a *)
(* column that is read, increased and saved without a lock, the second in  *)
(* the local-memory cache of a web process.                                *)
(***************************************************************************)
EXTENDS Naturals, FiniteSets, Tables

CONSTANTS Account,      \* people who sign up, each with one email address
          Counter,      \* one for each web process and network address
          Request,      \* requests that are served at the same time
          MaxAttempts,  \* five in the code
          MaxLookups    \* ten in the code

ASSUME LimitsAssumption == MaxAttempts \in Nat \ {0} /\ MaxLookups \in Nat \ {0}
ASSUME RequestAssumption == IsFiniteSet(Request) /\ Request # {}

VARIABLES enabled,   \* table Account -> BOOLEAN
          codes,     \* table Account -> CodeRow
          cache,     \* the cached count of each counter; 0 when there is none
          requests,  \* table Request -> where the request's code stands
          guesses,   \* history: the digests compared with each code
          raced,     \* history: accounts two verifications of which overlapped
          looked     \* history: look-ups evaluated since the count was created

vars == <<enabled, codes, cache, requests, guesses, raced, looked>>

(* attempts beyond the limit are all alike. *)
CodeRow == [attempts : 0..(MaxAttempts + 1), expired : BOOLEAN]

SignupRequest == [at : {"insert", "code", "enable"}, account : Account]
VerifyRequest == [at : {"guess"}, account : Account, attempts : 0..(MaxAttempts + 1),
                  right : BOOLEAN]
LookupRequest == [at : {"count", "set"}, counter : Counter, attempts : 0..MaxLookups]

At(r, step) == r \in DOMAIN requests /\ requests[r].at = step

Init ==
  /\ enabled = Empty
  /\ codes = Empty
  /\ cache = [c \in Counter |-> 0]
  /\ requests = Empty
  /\ guesses = [a \in Account |-> 0]
  /\ raced = {}
  /\ looked = [c \in Counter |-> 0]

-----------------------------------------------------------------------------
StartUnsaved(r, a) ==
  /\ r \notin DOMAIN requests
  /\ a \notin DOMAIN enabled
  /\ requests' = Put(requests, r, [at |-> "code", account |-> a])
  /\ UNCHANGED <<enabled, codes, cache, guesses, raced, looked>>

(* CitizenRegistrationForm.clean_email: no account with this address. *)
StartSignup(r, a) ==
  /\ r \notin DOMAIN requests
  /\ a \notin DOMAIN enabled
  /\ requests' = Put(requests, r, [at |-> "insert", account |-> a])
  /\ UNCHANGED <<enabled, codes, cache, guesses, raced, looked>>

(* The account is stored disabled; the unique index ends a slower request. *)
InsertAccount(r) ==
  /\ At(r, "insert")
  /\ LET a == requests[r].account
     IN IF a \in DOMAIN enabled
        THEN /\ requests' = Delete(requests, r)
             /\ UNCHANGED enabled
        ELSE /\ enabled' = Put(enabled, a, FALSE)
             /\ requests' = Put(requests, r, [at |-> "code", account |-> a])
  /\ UNCHANGED <<codes, cache, guesses, raced, looked>>

(* The only place where a code is made.  Its mail may or may not arrive. *)
IssueCode(r) ==
  /\ At(r, "code")
  /\ codes' = Put(codes, requests[r].account, [attempts |-> 0, expired |-> FALSE])
  /\ requests' = Delete(requests, r)
  /\ UNCHANGED <<enabled, cache, guesses, raced, looked>>

(* Ten minutes pass. *)
ExpireCode(a) ==
  /\ a \in DOMAIN codes
  /\ codes' = Put(codes, a, [codes[a] EXCEPT !.expired = TRUE])
  /\ UNCHANGED <<enabled, cache, requests, guesses, raced, looked>>

Guessing(a) == {r \in DOMAIN requests : At(r, "guess") /\ requests[r].account = a}

(* SignupVerifyView reads the account, if it is disabled, and its code.    *)
(* Without a code it refuses.                                              *)
ReadCode(r, a, right) ==
  /\ r \notin DOMAIN requests
  /\ a \in DOMAIN codes
  /\ ~enabled[a]
  /\ requests' = Put(requests, r, [at |-> "guess", account |-> a,
                                   attempts |-> codes[a].attempts, right |-> right])
  /\ raced' = IF Guessing(a) # {} THEN raced \cup {a} ELSE raced
  /\ UNCHANGED <<enabled, codes, cache, guesses, looked>>

CheckedBefore(a, attempts) == attempts - 1 <= MaxAttempts /\ ~codes[a].expired
NeverExpired(a, attempts)  == attempts <= MaxAttempts

StillGood(a, attempts) == attempts <= MaxAttempts /\ ~codes[a].expired

Increased(attempts) == IF attempts > MaxAttempts THEN attempts ELSE attempts + 1

(* verify_code: the increased count is saved, over whatever another        *)
(* request saved since, and decides whether the digests are compared.      *)
VerifyCode(r) ==
  /\ At(r, "guess")
  /\ LET a        == requests[r].account
         attempts == Increased(requests[r].attempts)
     IN /\ codes' = Put(codes, a, [codes[a] EXCEPT !.attempts = attempts])
        /\ guesses' = IF StillGood(a, attempts) /\ a \notin raced
                      THEN [guesses EXCEPT ![a] = @ + 1] ELSE guesses
        /\ requests' = IF StillGood(a, attempts) /\ requests[r].right
                       THEN Put(requests, r, [at |-> "enable", account |-> a])
                       ELSE Delete(requests, r)
  /\ UNCHANGED <<enabled, cache, raced, looked>>

EnableAccount(r) ==
  /\ At(r, "enable")
  /\ enabled' = Put(enabled, requests[r].account, TRUE)
  /\ requests' = Delete(requests, r)
  /\ UNCHANGED <<codes, cache, guesses, raced, looked>>

-----------------------------------------------------------------------------
(* PublicTrackingLookupView.post: the count is read; at the limit it is    *)
(* the end of the request.                                                 *)
ReadCount(r, c) ==
  /\ r \notin DOMAIN requests
  /\ cache[c] < MaxLookups
  /\ requests' = Put(requests, r, [at |-> "count", counter |-> c, attempts |-> cache[c]])
  /\ UNCHANGED <<enabled, codes, cache, guesses, raced, looked>>

CountWhatWasRead(r) ==
  /\ At(r, "count")
  /\ LET c == requests[r].counter
     IN /\ cache' = [cache EXCEPT ![c] = requests[r].attempts + 1]
        /\ looked' = [looked EXCEPT ![c] = @ + 1]
  /\ requests' = Delete(requests, r)
  /\ UNCHANGED <<enabled, codes, guesses, raced>>

(* The attempt is counted and then evaluated.  cache.add creates a count   *)
(* of 1, or does nothing if there is one by now; cache.incr increases the  *)
(* one there is, and fails if it expired in the meantime.                  *)
Count(r) ==
  /\ At(r, "count")
  /\ LET c == requests[r].counter
     IN \/ /\ requests[r].attempts = 0
           /\ cache' = [cache EXCEPT ![c] = IF @ = 0 THEN 1 ELSE @]
           /\ looked' = [looked EXCEPT ![c] = @ + 1]
           /\ requests' = Delete(requests, r)
        \/ /\ requests[r].attempts # 0 /\ cache[c] # 0
           /\ cache' = [cache EXCEPT ![c] = @ + 1]
           /\ looked' = [looked EXCEPT ![c] = @ + 1]
           /\ requests' = Delete(requests, r)
        \/ /\ requests[r].attempts # 0 /\ cache[c] = 0
           /\ requests' = Put(requests, r, [requests[r] EXCEPT !.at = "set"])
           /\ UNCHANGED <<cache, looked>>
  /\ UNCHANGED <<enabled, codes, guesses, raced>>

(* cache.set starts to count afresh, whatever the count is by now. *)
SetCount(r) ==
  /\ At(r, "set")
  /\ cache' = [cache EXCEPT ![requests[r].counter] = 1]
  /\ looked' = [looked EXCEPT ![requests[r].counter] = 1]
  /\ requests' = Delete(requests, r)
  /\ UNCHANGED <<enabled, codes, guesses, raced>>

(* Fifteen minutes pass, or the web process is started again. *)
ExpireCount(c) ==
  /\ cache[c] # 0
  /\ cache' = [cache EXCEPT ![c] = 0]
  /\ looked' = [looked EXCEPT ![c] = 0]
  /\ UNCHANGED <<enabled, codes, requests, guesses, raced>>

(* An error, or the death of a worker. *)
Abort(r) ==
  /\ r \in DOMAIN requests
  /\ requests' = Delete(requests, r)
  /\ UNCHANGED <<enabled, codes, cache, guesses, raced, looked>>

Next ==
  \/ \E r \in Request, a \in Account :
        StartSignup(r, a) \/ \E right \in BOOLEAN : ReadCode(r, a, right)
  \/ \E a \in Account : ExpireCode(a)
  \/ \E r \in Request, c \in Counter : ReadCount(r, c)
  \/ \E c \in Counter : ExpireCount(c)
  \/ \E r \in Request : \/ InsertAccount(r) \/ IssueCode(r) \/ VerifyCode(r)
                        \/ EnableAccount(r) \/ Count(r) \/ SetCount(r) \/ Abort(r)

Spec == Init /\ [][Next]_vars

-----------------------------------------------------------------------------
TypeOK ==
  /\ IsTable(enabled, Account, BOOLEAN)
  /\ IsTable(codes, Account, CodeRow)
  /\ DOMAIN codes \subseteq DOMAIN enabled
  /\ cache \in [Counter -> Nat]
  /\ IsTable(requests, Request, SignupRequest \cup VerifyRequest \cup LookupRequest)
  /\ guesses \in [Account -> Nat]
  /\ raced \subseteq Account
  /\ looked \in [Counter -> Nat]

(***************************************************************************)
(* At most MaxAttempts digests are ever compared with a sign-up code,      *)
(* unless verifications of it overlapped: only those can count as one, or  *)
(* put an old count back (SignupOTP.verify_code).                          *)
(***************************************************************************)
GuessesBounded == \A a \in Account : guesses[a] <= MaxAttempts \/ a \in raced

(***************************************************************************)
(* The code of a disabled account that nobody is working on is dead when   *)
(* it is locked, expired or was never stored.  The sign-up form refuses    *)
(* the address and no view sends a new code: the account is never enabled. *)
(***************************************************************************)
Dead(a) ==
  /\ a \in DOMAIN enabled
  /\ ~enabled[a]
  /\ \A r \in DOMAIN requests : At(r, "count") \/ At(r, "set") \/ requests[r].account # a
  /\ a \in DOMAIN codes => codes[a].expired \/ codes[a].attempts >= MaxAttempts

DeadForEver == \A a \in Account : [](Dead(a) => [](a \in DOMAIN enabled /\ ~enabled[a]))

(***************************************************************************)
(* As many look-ups as the limit are evaluated for one count, and a few    *)
(* more: each other request that runs at the same time can slip in twice,  *)
(* before the count is created and when one is left below the limit.  This *)
(* is the form that asks for a reference and a code; the tracking page it  *)
(* leads to counts nothing.                                                *)
(***************************************************************************)
LookupsBounded ==
  \A c \in Counter : looked[c] <= MaxLookups + 2 * (Cardinality(Request) - 1)
=============================================================================
