------------------------ MODULE AttemptLimitsProofs ------------------------
(***************************************************************************)
(* Theorems about AttemptLimits for every set of accounts, counters and    *)
(* requests and all limits; LookupsLimited counts requests, so it needs    *)
(* that there are finitely many.                                           *)
(***************************************************************************)
EXTENDS AttemptLimits, FiniteSetTheorems, TLAPS

(***************************************************************************)
(* An account gets one code: the request that will store it has inserted   *)
(* the account, and no other request is about to.                          *)
(***************************************************************************)
OneCode ==
  /\ DOMAIN codes \subseteq DOMAIN enabled
  /\ \A r \in DOMAIN requests : At(r, "code") =>
       /\ requests[r].account \in DOMAIN enabled \ DOMAIN codes
       /\ \A q \in DOMAIN requests :
            At(q, "code") /\ requests[q].account = requests[r].account => q = r
  /\ \A r \in DOMAIN requests : At(r, "guess") => requests[r].account \in DOMAIN codes
  /\ \A r \in DOMAIN requests : At(r, "enable") => requests[r].account \in DOMAIN enabled

(* Without a race, the stored count is what the only guess has read, and   *)
(* no comparison went uncounted.                                           *)
Counted ==
  /\ \A r \in DOMAIN requests :
       At(r, "guess") /\ requests[r].account \notin raced =>
         /\ requests[r].attempts = codes[requests[r].account].attempts
         /\ \A q \in DOMAIN requests :
              At(q, "guess") /\ requests[q].account = requests[r].account => q = r
  /\ \A a \in Account \ raced :
       /\ guesses[a] <= MaxAttempts
       /\ a \notin DOMAIN codes => guesses[a] = 0
       /\ a \in DOMAIN codes => guesses[a] <= codes[a].attempts

Inv == TypeOK /\ OneCode /\ Counted

-----------------------------------------------------------------------------
LEMMA RequestTypes ==
  ASSUME Inv, NEW r \in DOMAIN requests
  PROVE  /\ r \in Request
         /\ requests[r].at \in {"insert", "code", "enable"} => requests[r] \in SignupRequest
         /\ requests[r].at = "guess" => requests[r] \in VerifyRequest
         /\ requests[r].at \in {"count", "set"} => requests[r] \in LookupRequest
         /\ requests[r].at \in {"insert", "code", "enable", "guess", "count", "set"}
  BY DEF Inv, TypeOK, IsTable, SignupRequest, VerifyRequest, LookupRequest

LEMMA PutTyped ==
  ASSUME Inv, NEW r \in Request,
         NEW row \in SignupRequest \cup VerifyRequest \cup LookupRequest
  PROVE  IsTable(Put(requests, r, row), Request, SignupRequest \cup VerifyRequest \cup LookupRequest)
  BY DEF Inv, TypeOK, IsTable, Put

LEMMA DeleteTyped ==
  ASSUME Inv, NEW r
  PROVE  IsTable(Delete(requests, r), Request, SignupRequest \cup VerifyRequest \cup LookupRequest)
  BY DEF Inv, TypeOK, IsTable, Delete

(* A request that ends disturbs nothing else. *)
LEMMA EndInv ==
  ASSUME Inv, NEW r, requests' = Delete(requests, r),
         UNCHANGED <<enabled, codes, guesses, raced>>,
         cache' \in [Counter -> Nat], looked' \in [Counter -> Nat]
  PROVE  Inv'
  <1>1. \A q \in DOMAIN requests' : q \in DOMAIN requests /\ q # r /\ requests'[q] = requests[q]
    BY DEF Delete
  <1>2. TypeOK'
    BY DeleteTyped DEF Inv, TypeOK
  <1>3. OneCode'
    BY <1>1 DEF Inv, OneCode, At
  <1>4. Counted'
    BY <1>1 DEF Inv, Counted, At
  <1>5. QED
    BY <1>2, <1>3, <1>4 DEF Inv

(* A look-up request goes on, and no sign-up is touched. *)
LEMMA LookupInv ==
  ASSUME Inv, NEW r \in Request, r \in DOMAIN requests => At(r, "count"),
         NEW row \in LookupRequest, requests' = Put(requests, r, row),
         UNCHANGED <<enabled, codes, cache, guesses, raced, looked>>
  PROVE  Inv'
  <1>1. /\ requests'[r] = row /\ row.at \in {"count", "set"}
        /\ DOMAIN requests' = DOMAIN requests \cup {r}
        /\ \A q \in DOMAIN requests : q # r => requests'[q] = requests[q]
    BY DEF Put, LookupRequest
  <1>2. TypeOK'
    BY PutTyped DEF Inv, TypeOK
  <1>3. OneCode'
    BY <1>1 DEF Inv, OneCode, At
  <1>4. Counted'
    BY <1>1 DEF Inv, Counted, At
  <1>5. QED
    BY <1>2, <1>3, <1>4 DEF Inv

-----------------------------------------------------------------------------
LEMMA StartSignupInv ==
  ASSUME Inv, NEW r \in Request, NEW a \in Account, StartSignup(r, a)
  PROVE  Inv'
  <1> DEFINE row == [at |-> "insert", account |-> a]
  <1>1. row \in SignupRequest /\ row.at = "insert"
    BY DEF SignupRequest
  <1>2. /\ r \notin DOMAIN requests /\ requests' = Put(requests, r, row)
        /\ UNCHANGED <<enabled, codes, cache, guesses, raced, looked>>
    BY DEF StartSignup
  <1> HIDE DEF row
  <1>3. /\ requests'[r] = row /\ DOMAIN requests' = DOMAIN requests \cup {r}
        /\ \A q \in DOMAIN requests : q # r => requests'[q] = requests[q]
    BY <1>2 DEF Put
  <1>4. TypeOK'
    BY <1>1, <1>2, PutTyped DEF Inv, TypeOK
  <1>5. OneCode'
    BY <1>1, <1>2, <1>3 DEF Inv, OneCode, At
  <1>6. Counted'
    BY <1>1, <1>2, <1>3 DEF Inv, Counted, At
  <1>7. QED
    BY <1>4, <1>5, <1>6 DEF Inv

(* The unique index makes the inserting request the only one at "code". *)
LEMMA InsertAccountInv ==
  ASSUME Inv, NEW r \in Request, InsertAccount(r)
  PROVE  Inv'
  <1> DEFINE a == requests[r].account
             row == [at |-> "code", account |-> a]
  <1>1. r \in DOMAIN requests /\ requests[r].at = "insert"
        /\ UNCHANGED <<codes, cache, guesses, raced, looked>>
    BY DEF InsertAccount, At
  <1>2. a \in Account
    BY <1>1, RequestTypes DEF SignupRequest
  <1>3. CASE a \in DOMAIN enabled
    BY <1>1, <1>3, EndInv DEF InsertAccount, Inv, TypeOK
  <1>4. CASE a \notin DOMAIN enabled
    <2>1. enabled' = Put(enabled, a, FALSE) /\ requests' = Put(requests, r, row)
      BY <1>4 DEF InsertAccount
    <2>2. row \in SignupRequest /\ row.at = "code" /\ row.account = a
      BY <1>2 DEF SignupRequest
    <2> HIDE DEF row, a
    <2>3. /\ requests'[r] = row /\ DOMAIN requests' = DOMAIN requests
          /\ \A q \in DOMAIN requests : q # r => requests'[q] = requests[q]
      BY <1>1, <2>1 DEF Put
    <2>4. DOMAIN enabled' = DOMAIN enabled \cup {a} /\ IsTable(enabled', Account, BOOLEAN)
      BY <1>2, <2>1 DEF Put, Inv, TypeOK, IsTable
    <2>5. TypeOK'
      BY <1>1, <2>1, <2>2, <2>4, PutTyped DEF Inv, TypeOK
    <2>6. OneCode'
      BY <1>1, <1>4, <2>2, <2>3, <2>4 DEF Inv, OneCode, At
    <2>7. Counted'
      BY <1>1, <2>2, <2>3 DEF Inv, Counted, At
    <2>8. QED
      BY <2>5, <2>6, <2>7 DEF Inv
  <1>5. QED
    BY <1>3, <1>4

LEMMA IssueCodeInv ==
  ASSUME Inv, NEW r \in Request, IssueCode(r)
  PROVE  Inv'
  <1> DEFINE a == requests[r].account
             row == [attempts |-> 0, expired |-> FALSE]
  <1>1. /\ r \in DOMAIN requests /\ At(r, "code")
        /\ codes' = Put(codes, a, row) /\ requests' = Delete(requests, r)
        /\ UNCHANGED <<enabled, cache, guesses, raced, looked>>
    BY DEF IssueCode, At
  <1>2. a \in Account /\ a \in DOMAIN enabled \ DOMAIN codes
        /\ \A q \in DOMAIN requests : At(q, "code") /\ requests[q].account = a => q = r
    BY <1>1, RequestTypes DEF SignupRequest, Inv, OneCode, At
  <1>3. row \in CodeRow /\ row.attempts = 0
    BY LimitsAssumption DEF CodeRow
  <1> HIDE DEF a, row
  <1>4. \A q \in DOMAIN requests' : q \in DOMAIN requests /\ q # r /\ requests'[q] = requests[q]
    BY <1>1 DEF Delete
  <1>5. /\ DOMAIN codes' = DOMAIN codes \cup {a} /\ codes'[a] = row
        /\ \A b \in DOMAIN codes : codes'[b] = codes[b]
        /\ IsTable(codes', Account, CodeRow)
    BY <1>1, <1>2, <1>3 DEF Put, Inv, TypeOK, IsTable
  <1>6. TypeOK'
    BY <1>1, <1>2, <1>5, DeleteTyped DEF Inv, TypeOK
  <1>7. OneCode'
    BY <1>1, <1>2, <1>4, <1>5 DEF Inv, OneCode, At
  <1>8. Counted'
    <2>1. \A q \in DOMAIN requests : At(q, "guess") => requests[q].account # a
      BY <1>2 DEF Inv, OneCode
    <2>2. /\ \A b \in Account \ raced : guesses[b] <= MaxAttempts
          /\ a \notin raced => guesses[a] = 0
      BY <1>2 DEF Inv, Counted
    <2>3. ASSUME NEW q \in DOMAIN requests', At(q, "guess")', requests'[q].account \notin raced'
          PROVE  /\ requests'[q].attempts = codes'[requests'[q].account].attempts
                 /\ \A p \in DOMAIN requests' :
                      At(p, "guess")' /\ requests'[p].account = requests'[q].account => p = q
      <3>1. q \in DOMAIN requests /\ requests'[q] = requests[q] /\ At(q, "guess")
        BY <1>4, <2>3 DEF At
      <3>2. requests[q].account \in DOMAIN codes /\ requests[q].account # a
        BY <2>1, <3>1 DEF Inv, OneCode
      <3>3. requests[q].account \notin raced
        BY <1>1, <2>3, <3>1
      <3>4. codes'[requests[q].account] = codes[requests[q].account]
        BY <1>5, <3>2
      <3>5. /\ requests[q].attempts = codes[requests[q].account].attempts
            /\ \A p \in DOMAIN requests :
                 At(p, "guess") /\ requests[p].account = requests[q].account => p = q
        BY <3>1, <3>3 DEF Inv, Counted
      <3>6. QED
        BY <1>4, <3>1, <3>4, <3>5 DEF At
    <2>4. ASSUME NEW b \in Account \ raced
          PROVE  /\ b \notin DOMAIN codes' => guesses[b] = 0
                 /\ b \in DOMAIN codes' => guesses[b] <= codes'[b].attempts
      BY <1>3, <1>5, <2>2 DEF Inv, Counted
    <2>5. guesses' = guesses /\ raced' = raced
      BY <1>1
    <2>6. QED
      BY <2>2, <2>3, <2>4, <2>5 DEF Counted
  <1>9. QED
    BY <1>6, <1>7, <1>8 DEF Inv

(* Time changes neither the count of a code nor who guesses at it. *)
LEMMA ExpireCodeInv ==
  ASSUME Inv, NEW a \in Account, ExpireCode(a)
  PROVE  Inv'
  <1> DEFINE row == [codes[a] EXCEPT !.expired = TRUE]
  <1>1. /\ a \in DOMAIN codes /\ codes' = Put(codes, a, row)
        /\ UNCHANGED <<enabled, cache, requests, guesses, raced, looked>>
    BY DEF ExpireCode
  <1>2. row \in CodeRow /\ row.attempts = codes[a].attempts
    BY <1>1 DEF CodeRow, Inv, TypeOK, IsTable
  <1> HIDE DEF row
  <1>3. /\ DOMAIN codes' = DOMAIN codes
        /\ \A b \in DOMAIN codes : codes'[b].attempts = codes[b].attempts
        /\ IsTable(codes', Account, CodeRow)
    BY <1>1, <1>2 DEF Put, Inv, TypeOK, IsTable
  <1>4. TypeOK'
    BY <1>1, <1>3 DEF Inv, TypeOK
  <1>5. OneCode'
    BY <1>1, <1>3 DEF Inv, OneCode, At
  <1>6. Counted'
    BY <1>1, <1>3 DEF Inv, OneCode, Counted, At
  <1>7. QED
    BY <1>4, <1>5, <1>6 DEF Inv

(* The second reader of a code makes its account a raced one. *)
LEMMA ReadCodeInv ==
  ASSUME Inv, NEW r \in Request, NEW a \in Account, NEW right \in BOOLEAN,
         ReadCode(r, a, right)
  PROVE  Inv'
  <1> DEFINE row == [at |-> "guess", account |-> a,
                     attempts |-> codes[a].attempts, right |-> right]
  <1>1. /\ r \notin DOMAIN requests /\ a \in DOMAIN codes
        /\ requests' = Put(requests, r, row)
        /\ raced' = IF Guessing(a) # {} THEN raced \cup {a} ELSE raced
        /\ UNCHANGED <<enabled, codes, cache, guesses, looked>>
    BY DEF ReadCode
  <1>2. /\ row \in VerifyRequest /\ row.at = "guess" /\ row.account = a
        /\ row.attempts = codes[a].attempts
    BY <1>1 DEF VerifyRequest, CodeRow, Inv, TypeOK, IsTable
  <1> HIDE DEF row
  <1>3. /\ requests'[r] = row /\ DOMAIN requests' = DOMAIN requests \cup {r}
        /\ \A q \in DOMAIN requests : q # r /\ requests'[q] = requests[q]
    BY <1>1 DEF Put
  <1>4. raced \subseteq raced' /\ raced' \subseteq raced \cup {a}
    BY <1>1
  <1>5. TypeOK'
    BY <1>1, <1>2, <1>4, PutTyped DEF Inv, TypeOK
  <1>6. OneCode'
    BY <1>1, <1>2, <1>3 DEF Inv, OneCode, At
  <1>7. a \notin raced' => \A q \in DOMAIN requests : At(q, "guess") => requests[q].account # a
    BY <1>1 DEF Guessing
  <1>8. Counted'
    <2>1. ASSUME NEW q \in DOMAIN requests', At(q, "guess")', requests'[q].account \notin raced'
          PROVE  /\ requests'[q].attempts = codes'[requests'[q].account].attempts
                 /\ \A p \in DOMAIN requests' :
                      At(p, "guess")' /\ requests'[p].account = requests'[q].account => p = q
      <3>1. CASE q = r
        <4>1. requests'[q].account = a /\ requests'[q].attempts = codes'[a].attempts
          BY <1>1, <1>2, <1>3, <3>1
        <4>2. a \notin raced'
          BY <2>1, <4>1
        <4>3. QED
          BY <1>3, <1>7, <3>1, <4>1, <4>2 DEF At
      <3>2. CASE q # r
        <4>1. q \in DOMAIN requests /\ requests'[q] = requests[q] /\ At(q, "guess")
          BY <1>3, <2>1, <3>2 DEF At
        <4>2. requests[q].account \notin raced
          BY <1>4, <2>1, <4>1
        <4>3. /\ requests[q].attempts = codes[requests[q].account].attempts
              /\ \A p \in DOMAIN requests :
                   At(p, "guess") /\ requests[p].account = requests[q].account => p = q
          BY <4>1, <4>2 DEF Inv, Counted
        <4>4. requests[q].account # a
          BY <1>7, <2>1, <4>1
        <4>5. QED
          BY <1>1, <1>2, <1>3, <4>1, <4>3, <4>4 DEF At
      <3>3. QED
        BY <3>1, <3>2
    <2>2. guesses' = guesses /\ codes' = codes
      BY <1>1
    <2>3. QED
      BY <1>4, <2>1, <2>2 DEF Inv, Counted
  <1>9. QED
    BY <1>5, <1>6, <1>8 DEF Inv

LEMMA EnableAccountInv ==
  ASSUME Inv, NEW r \in Request, EnableAccount(r)
  PROVE  Inv'
  <1> DEFINE a == requests[r].account
  <1>1. /\ r \in DOMAIN requests /\ At(r, "enable")
        /\ enabled' = Put(enabled, a, TRUE) /\ requests' = Delete(requests, r)
        /\ UNCHANGED <<codes, cache, guesses, raced, looked>>
    BY DEF EnableAccount, At
  <1>2. a \in Account /\ a \in DOMAIN enabled
    BY <1>1, RequestTypes DEF SignupRequest, Inv, OneCode, At
  <1> HIDE DEF a
  <1>3. DOMAIN enabled' = DOMAIN enabled /\ IsTable(enabled', Account, BOOLEAN)
    BY <1>1, <1>2 DEF Put, Inv, TypeOK, IsTable
  <1>4. \A q \in DOMAIN requests' : q \in DOMAIN requests /\ q # r /\ requests'[q] = requests[q]
    BY <1>1 DEF Delete
  <1>5. TypeOK'
    BY <1>1, <1>3, DeleteTyped DEF Inv, TypeOK
  <1>6. OneCode'
    <2>1. codes' = codes
      BY <1>1
    <2>2. \A q \in DOMAIN requests' : \A step : At(q, step)' => At(q, step)
      BY <1>4 DEF At
    <2>3. QED
      BY <1>3, <1>4, <2>1, <2>2 DEF Inv, OneCode
  <1>7. Counted'
    BY <1>1, <1>4 DEF Inv, Counted, At
  <1>8. QED
    BY <1>5, <1>6, <1>7 DEF Inv

-----------------------------------------------------------------------------
LEMMA ReadCountInv ==
  ASSUME Inv, NEW r \in Request, NEW c \in Counter, ReadCount(r, c)
  PROVE  Inv'
  <1> DEFINE row == [at |-> "count", counter |-> c, attempts |-> cache[c]]
  <1>1. row \in LookupRequest
    BY LimitsAssumption DEF ReadCount, LookupRequest, Inv, TypeOK
  <1>2. r \notin DOMAIN requests /\ requests' = Put(requests, r, row)
        /\ UNCHANGED <<enabled, codes, cache, guesses, raced, looked>>
    BY DEF ReadCount
  <1> HIDE DEF row
  <1>3. QED
    BY <1>1, <1>2, LookupInv

LEMMA CountInv ==
  ASSUME Inv, NEW r \in Request, Count(r)
  PROVE  Inv'
  <1> DEFINE c == requests[r].counter
             row == [requests[r] EXCEPT !.at = "set"]
  <1>1. r \in DOMAIN requests /\ requests[r].at = "count"
        /\ UNCHANGED <<enabled, codes, guesses, raced>>
    BY DEF Count, At
  <1>2. requests[r] \in LookupRequest /\ c \in Counter
    BY <1>1, RequestTypes DEF LookupRequest
  <1>3. CASE requests' = Put(requests, r, row) /\ UNCHANGED <<cache, looked>>
    <2>1. row \in LookupRequest
      BY <1>2 DEF LookupRequest
    <2> HIDE DEF row
    <2>2. QED
      BY <1>1, <1>3, <2>1, LookupInv DEF At
  <1>4. CASE /\ requests' = Delete(requests, r)
             /\ cache' = [cache EXCEPT ![c] = IF @ = 0 THEN 1 ELSE @]
             /\ looked' = [looked EXCEPT ![c] = @ + 1]
    <2>1. cache' \in [Counter -> Nat] /\ looked' \in [Counter -> Nat]
      BY <1>2, <1>4 DEF Inv, TypeOK
    <2>2. QED
      BY <1>1, <1>4, <2>1, EndInv
  <1>5. CASE /\ requests' = Delete(requests, r)
             /\ cache' = [cache EXCEPT ![c] = @ + 1]
             /\ looked' = [looked EXCEPT ![c] = @ + 1]
    <2>1. cache' \in [Counter -> Nat] /\ looked' \in [Counter -> Nat]
      BY <1>2, <1>5 DEF Inv, TypeOK
    <2>2. QED
      BY <1>1, <1>5, <2>1, EndInv
  <1>6. QED
    BY <1>3, <1>4, <1>5 DEF Count

LEMMA SetCountInv ==
  ASSUME Inv, NEW r \in Request, SetCount(r)
  PROVE  Inv'
  <1>1. cache' \in [Counter -> Nat] /\ looked' \in [Counter -> Nat]
    BY DEF SetCount, Inv, TypeOK
  <1>2. QED
    BY <1>1, EndInv DEF SetCount

LEMMA ExpireCountInv ==
  ASSUME Inv, NEW c \in Counter, ExpireCount(c)
  PROVE  Inv'
  <1>1. /\ UNCHANGED <<enabled, codes, requests, guesses, raced>>
        /\ cache' \in [Counter -> Nat] /\ looked' \in [Counter -> Nat]
    BY DEF ExpireCount, Inv, TypeOK
  <1>2. TypeOK'
    BY <1>1 DEF Inv, TypeOK
  <1>3. OneCode'
    BY <1>1 DEF Inv, OneCode, At
  <1>4. Counted'
    BY <1>1 DEF Inv, Counted, At
  <1>5. QED
    BY <1>2, <1>3, <1>4 DEF Inv

LEMMA AbortInv ==
  ASSUME Inv, NEW r \in Request, Abort(r)
  PROVE  Inv'
  BY EndInv DEF Abort, Inv, TypeOK

(* A guess that no other overlapped is counted before it is compared.  One *)
(* that another overlapped counts for nothing in Counted.                  *)
LEMMA VerifyCodeInv ==
  ASSUME Inv, NEW r \in Request, VerifyCode(r)
  PROVE  Inv'
  <1> DEFINE a    == requests[r].account
             n    == Increased(requests[r].attempts)
             row  == [codes[a] EXCEPT !.attempts = n]
             next == [at |-> "enable", account |-> a]
             good == StillGood(a, n)
  <1>1. /\ r \in DOMAIN requests /\ At(r, "guess")
        /\ codes' = Put(codes, a, row)
        /\ guesses' = IF good /\ a \notin raced
                      THEN [guesses EXCEPT ![a] = @ + 1] ELSE guesses
        /\ \/ requests' = Put(requests, r, next)
           \/ requests' = Delete(requests, r)
        /\ UNCHANGED <<enabled, cache, raced, looked>>
    BY DEF VerifyCode, At
  <1>2. /\ a \in Account /\ a \in DOMAIN codes /\ a \in DOMAIN enabled
        /\ requests[r].attempts \in 0..(MaxAttempts + 1) /\ codes[a] \in CodeRow
    BY <1>1, RequestTypes DEF VerifyRequest, Inv, OneCode, TypeOK, IsTable, At
  <1>3. /\ n \in 0..(MaxAttempts + 1) /\ requests[r].attempts <= n
        /\ n <= MaxAttempts => n = requests[r].attempts + 1
    BY <1>2, LimitsAssumption DEF Increased
  <1>4. row \in CodeRow /\ row.attempts = n
    BY <1>2, <1>3 DEF CodeRow
  <1>5. next \in SignupRequest /\ next.at = "enable" /\ next.account = a
    BY <1>2 DEF SignupRequest
  <1>6. good => n <= MaxAttempts
    BY DEF StillGood
  <1>7. /\ a \notin raced => requests[r].attempts = codes[a].attempts
        /\ a \notin raced => \A q \in DOMAIN requests :
             At(q, "guess") /\ requests[q].account = a => q = r
    BY <1>1 DEF Inv, Counted
  <1> HIDE DEF a, n, row, next, good
  <1>8. /\ DOMAIN codes' = DOMAIN codes /\ codes'[a] = row
        /\ \A b \in DOMAIN codes : b # a => codes'[b] = codes[b]
        /\ IsTable(codes', Account, CodeRow)
    BY <1>1, <1>2, <1>4 DEF Put, Inv, TypeOK, IsTable
  <1>9. \A q \in DOMAIN requests' :
          /\ q \in DOMAIN requests
          /\ q # r => requests'[q] = requests[q]
          /\ q = r => requests'[q] = next
    BY <1>1 DEF Put, Delete
  <1>10. /\ guesses' \in [Account -> Nat]
         /\ \A b \in Account : b # a => guesses'[b] = guesses[b]
         /\ guesses'[a] = guesses[a] \/ (n <= MaxAttempts /\ guesses'[a] = guesses[a] + 1)
    BY <1>1, <1>2, <1>6 DEF Inv, TypeOK
  <1>11. TypeOK'
    <2>1. IsTable(requests', Request, SignupRequest \cup VerifyRequest \cup LookupRequest)
      BY <1>1, <1>5, PutTyped, DeleteTyped
    <2>2. QED
      BY <1>1, <1>8, <1>10, <2>1 DEF Inv, TypeOK
  <1>12. OneCode'
    <2>1. \A q \in DOMAIN requests' :
            /\ At(q, "code")' => q # r /\ At(q, "code")
            /\ At(q, "guess")' => q # r /\ At(q, "guess")
            /\ At(q, "enable")' => q = r \/ At(q, "enable")
      BY <1>5, <1>9 DEF At
    <2>2. enabled' = enabled
      BY <1>1
    <2>3. QED
      BY <1>2, <1>5, <1>8, <1>9, <2>1, <2>2 DEF Inv, OneCode
  <1>13. Counted'
    <2>1. raced' = raced
      BY <1>1
    <2>2. ASSUME NEW q \in DOMAIN requests', At(q, "guess")', requests'[q].account \notin raced
          PROVE  /\ requests'[q].attempts = codes'[requests'[q].account].attempts
                 /\ \A p \in DOMAIN requests' :
                      At(p, "guess")' /\ requests'[p].account = requests'[q].account => p = q
      <3>1. \A p \in DOMAIN requests' : At(p, "guess")' =>
              p # r /\ p \in DOMAIN requests /\ requests'[p] = requests[p] /\ At(p, "guess")
        BY <1>5, <1>9 DEF At
      <3>2. requests[q].account # a
        BY <1>7, <2>2, <3>1
      <3>3. requests[q].account \in DOMAIN codes
        BY <2>2, <3>1 DEF Inv, OneCode
      <3>4. codes'[requests[q].account] = codes[requests[q].account]
        BY <1>8, <3>2, <3>3
      <3>5. /\ requests[q].attempts = codes[requests[q].account].attempts
            /\ \A p \in DOMAIN requests :
                 At(p, "guess") /\ requests[p].account = requests[q].account => p = q
        BY <2>2, <3>1 DEF Inv, Counted
      <3>6. QED
        BY <2>2, <3>1, <3>4, <3>5
    <2>3. ASSUME NEW b \in Account \ raced
          PROVE  /\ guesses'[b] <= MaxAttempts
                 /\ b \notin DOMAIN codes' => guesses'[b] = 0
                 /\ b \in DOMAIN codes' => guesses'[b] <= codes'[b].attempts
      <3>1. /\ guesses[b] <= MaxAttempts
            /\ b \notin DOMAIN codes => guesses[b] = 0
            /\ b \in DOMAIN codes => guesses[b] <= codes[b].attempts
        BY DEF Inv, Counted
      <3>2. CASE b # a
        BY <1>8, <1>10, <3>1, <3>2
      <3>3. CASE b = a
        <4>1. codes[a].attempts <= n /\ (n <= MaxAttempts => n = codes[a].attempts + 1)
          BY <1>3, <1>7, <3>3
        <4>2. guesses[a] \in Nat /\ codes[a].attempts \in Nat
          BY <1>2 DEF Inv, TypeOK, CodeRow
        <4>3. guesses'[a] <= n /\ guesses'[a] <= MaxAttempts
          BY <1>2, <1>3, <1>10, <3>1, <3>3, <4>1, <4>2, LimitsAssumption
        <4>4. QED
          BY <1>2, <1>4, <1>8, <3>3, <4>3
      <3>4. QED
        BY <3>2, <3>3
    <2>4. QED
      BY <2>1, <2>2, <2>3 DEF Counted
  <1>14. QED
    BY <1>11, <1>12, <1>13 DEF Inv

-----------------------------------------------------------------------------
LEMMA InitInv ==
  ASSUME Init
  PROVE  Inv
  <1>1. TypeOK
    BY DEF Init, TypeOK, IsTable, Empty
  <1>2. OneCode /\ Counted
    BY LimitsAssumption DEF Init, OneCode, Counted, At, Empty
  <1>3. QED
    BY <1>1, <1>2 DEF Inv

LEMMA NextInv ==
  ASSUME Inv, [Next]_vars
  PROVE  Inv'
  <1>1. CASE Next
    BY <1>1, StartSignupInv, ReadCodeInv, ExpireCodeInv, ReadCountInv, ExpireCountInv,
       InsertAccountInv, IssueCodeInv, VerifyCodeInv, EnableAccountInv, CountInv,
       SetCountInv, AbortInv
       DEF Next
  <1>2. CASE UNCHANGED vars
    <2>1. TypeOK' /\ OneCode'
      BY <1>2 DEF vars, Inv, TypeOK, OneCode, At
    <2>2. Counted'
      BY <1>2 DEF vars, Inv, Counted, At
    <2>3. QED
      BY <2>1, <2>2 DEF Inv
  <1>3. QED
    BY <1>1, <1>2

LEMMA InvHolds == Spec => []Inv
  BY InitInv, NextInv, PTL DEF Spec

(* Every reachable state is well typed. *)
THEOREM TypeCorrect == Spec => []TypeOK
  <1>1. Inv => TypeOK
    BY DEF Inv
  <1>2. QED
    BY <1>1, InvHolds, PTL

(***************************************************************************)
(* SignupOTP.verify_code: however many requests guess at it, no more       *)
(* digests than the limit are compared with a code whose verifications     *)
(* never overlapped.                                                       *)
(***************************************************************************)
THEOREM GuessesLimited == Spec => []GuessesBounded
  <1>1. Inv => GuessesBounded
    BY DEF Inv, TypeOK, Counted, GuessesBounded
  <1>2. QED
    BY <1>1, InvHolds, PTL

-----------------------------------------------------------------------------
(* Whoever still guesses at the code of a lost account comes too late. *)
Spent(a) == a \in DOMAIN codes => codes[a].expired \/ codes[a].attempts >= MaxAttempts

TooLate(a, r) ==
  \/ At(r, "count") \/ At(r, "set")
  \/ requests[r].account # a
  \/ /\ At(r, "guess")
     /\ codes[a].expired \/ requests[r].attempts >= MaxAttempts

Disabled(a) == a \in DOMAIN enabled /\ ~enabled[a]

Lost(a) == Disabled(a) /\ Spent(a) /\ \A r \in DOMAIN requests : TooLate(a, r)

(* A step that only ends or starts requests that come too late. *)
LEMMA LostByRequests ==
  ASSUME NEW a, Lost(a), Disabled(a)', codes' = codes,
         \A q \in DOMAIN requests' :
           TooLate(a, q)' \/ (q \in DOMAIN requests /\ requests'[q] = requests[q])
  PROVE  Lost(a)'
  <1>1. Spent(a)'
    BY DEF Lost, Spent
  <1>2. ASSUME NEW q \in DOMAIN requests'
        PROVE  TooLate(a, q)'
    BY DEF Lost, TooLate, At
  <1>3. QED
    BY <1>1, <1>2 DEF Lost

LEMMA LostVerify ==
  ASSUME Inv, NEW a \in Account, Lost(a), NEW r \in Request, VerifyCode(r)
  PROVE  Lost(a)'
  <1> DEFINE b    == requests[r].account
             n    == Increased(requests[r].attempts)
             row  == [codes[b] EXCEPT !.attempts = n]
             next == [at |-> "enable", account |-> b]
  <1>1. /\ r \in DOMAIN requests /\ At(r, "guess") /\ enabled' = enabled
        /\ codes' = Put(codes, b, row)
        /\ requests' = IF StillGood(b, n) /\ requests[r].right
                       THEN Put(requests, r, next) ELSE Delete(requests, r)
    BY DEF VerifyCode, At
  <1>2. /\ b \in Account /\ b \in DOMAIN codes
        /\ requests[r].attempts \in 0..(MaxAttempts + 1) /\ codes[b] \in CodeRow
    BY <1>1, RequestTypes DEF VerifyRequest, Inv, OneCode, TypeOK, IsTable, At
  <1>3. /\ n \in 0..(MaxAttempts + 1)
        /\ requests[r].attempts >= MaxAttempts => n > MaxAttempts
    BY <1>2, LimitsAssumption DEF Increased
  <1>4. row.attempts = n /\ row.expired = codes[b].expired
    BY <1>2 DEF CodeRow
  <1>5. b = a => codes[a].expired \/ requests[r].attempts >= MaxAttempts
    BY <1>1 DEF Lost, TooLate, At
  <1>6. b = a => ~StillGood(b, n)
    BY <1>2, <1>3, <1>5, LimitsAssumption DEF StillGood
  <1>7. next.account = b
    OBVIOUS
  <1> HIDE DEF b, n, row, next
  <1>8. /\ a \in DOMAIN codes' <=> a \in DOMAIN codes
        /\ b # a /\ a \in DOMAIN codes => codes'[a] = codes[a]
        /\ b = a => codes'[a] = row
    BY <1>1, <1>2 DEF Put
  <1>9. Disabled(a)'
    BY <1>1 DEF Lost, Disabled
  <1>10. Spent(a)'
    BY <1>2, <1>3, <1>4, <1>5, <1>8, LimitsAssumption DEF Lost, Spent
  <1>11. ASSUME NEW q \in DOMAIN requests'
         PROVE  TooLate(a, q)'
    <2>1. CASE q = r
      <3>1. requests' = Put(requests, r, next) /\ b # a
        BY <1>1, <1>6, <2>1 DEF Delete
      <3>2. requests'[q].account # a
        BY <1>7, <2>1, <3>1 DEF Put
      <3>3. QED
        BY <3>2 DEF TooLate
    <2>2. CASE q # r
      <3>1. q \in DOMAIN requests /\ requests'[q] = requests[q]
        BY <1>1, <2>2 DEF Put, Delete
      <3>2. TooLate(a, q)
        BY <3>1 DEF Lost
      <3>3. At(q, "guess") /\ requests[q].account = a => a \in DOMAIN codes
        BY <3>1 DEF Inv, OneCode
      <3>4. a \in DOMAIN codes => codes'[a].expired = codes[a].expired
        BY <1>4, <1>8
      <3>5. QED
        BY <3>1, <3>2, <3>3, <3>4 DEF TooLate, At
    <2>3. QED
      BY <2>1, <2>2
  <1>12. QED
    BY <1>9, <1>10, <1>11 DEF Lost

(* No code is stored and nothing is enabled for a lost account. *)
LEMMA LostSignup ==
  ASSUME Inv, NEW a \in Account, Lost(a), NEW r \in Request,
         IssueCode(r) \/ EnableAccount(r) \/ InsertAccount(r)
  PROVE  Lost(a)'
  <1>1. CASE IssueCode(r)
    <2>1. requests[r].account # a
      BY <1>1 DEF IssueCode, Lost, TooLate, At
    <2>2. /\ a \in DOMAIN codes' <=> a \in DOMAIN codes
          /\ a \in DOMAIN codes => codes'[a] = codes[a]
      BY <1>1, <2>1 DEF IssueCode, Put
    <2>3. enabled' = enabled
      BY <1>1 DEF IssueCode
    <2>4. ASSUME NEW q \in DOMAIN requests'
          PROVE  TooLate(a, q)'
      <3>1. q \in DOMAIN requests /\ requests'[q] = requests[q]
        BY <1>1 DEF IssueCode, Delete
      <3>2. TooLate(a, q)
        BY <3>1 DEF Lost
      <3>3. At(q, "guess") /\ requests[q].account = a => a \in DOMAIN codes
        BY <3>1 DEF Inv, OneCode
      <3>4. QED
        BY <2>2, <3>1, <3>2, <3>3 DEF TooLate, At
    <2>5. QED
      BY <2>2, <2>3, <2>4 DEF Lost, Disabled, Spent
  <1>2. CASE EnableAccount(r)
    <2>1. requests[r].account # a
      BY <1>2 DEF EnableAccount, Lost, TooLate, At
    <2>2. Disabled(a)'
      BY <1>2, <2>1 DEF EnableAccount, Lost, Disabled, Put
    <2>3. QED
      BY <1>2, <2>2, LostByRequests DEF EnableAccount, Delete
  <1>3. CASE InsertAccount(r)
    <2> DEFINE b   == requests[r].account
               row == [at |-> "code", account |-> b]
    <2>1. codes' = codes
      BY <1>3 DEF InsertAccount
    <2>2. CASE b \in DOMAIN enabled
      BY <1>3, <2>1, <2>2, LostByRequests DEF InsertAccount, Lost, Disabled, Delete
    <2>3. CASE b \notin DOMAIN enabled
      <3>1. b # a
        BY <2>3 DEF Lost, Disabled
      <3>2. enabled' = Put(enabled, b, FALSE) /\ requests' = Put(requests, r, row)
        BY <1>3, <2>3 DEF InsertAccount
      <3>3. Disabled(a)'
        BY <3>1, <3>2 DEF Lost, Disabled, Put
      <3>4. row.account = b
        OBVIOUS
      <3> HIDE DEF row, b
      <3>5. \A q \in DOMAIN requests' :
              \/ requests'[q].account # a
              \/ q \in DOMAIN requests /\ requests'[q] = requests[q]
        BY <3>1, <3>2, <3>4 DEF Put
      <3>6. QED
        BY <2>1, <3>3, <3>5, LostByRequests DEF TooLate
    <2>4. QED
      BY <2>2, <2>3
  <1>4. QED
    BY <1>1, <1>2, <1>3

LEMMA LostReads ==
  ASSUME Inv, NEW a \in Account, Lost(a), NEW r \in Request, NEW b \in Account,
         StartSignup(r, b) \/ \E right \in BOOLEAN : ReadCode(r, b, right)
  PROVE  Lost(a)'
  <1>1. CASE StartSignup(r, b)
    <2> DEFINE row == [at |-> "insert", account |-> b]
    <2>1. row.account = b /\ b # a
      BY <1>1 DEF StartSignup, Lost, Disabled
    <2>2. /\ requests' = Put(requests, r, row)
          /\ UNCHANGED <<enabled, codes>>
      BY <1>1 DEF StartSignup
    <2> HIDE DEF row
    <2>3. \A q \in DOMAIN requests' :
            \/ requests'[q].account # a
            \/ q \in DOMAIN requests /\ requests'[q] = requests[q]
      BY <2>1, <2>2 DEF Put
    <2>4. QED
      BY <2>2, <2>3, LostByRequests DEF TooLate, Lost, Disabled
  <1>2. ASSUME NEW right \in BOOLEAN, ReadCode(r, b, right)
        PROVE  Lost(a)'
    <2> DEFINE row == [at |-> "guess", account |-> b,
                       attempts |-> codes[b].attempts, right |-> right]
    <2>1. /\ row.at = "guess" /\ row.account = b /\ row.attempts = codes[b].attempts
      OBVIOUS
    <2>2. /\ requests' = Put(requests, r, row) /\ b \in DOMAIN codes
          /\ UNCHANGED <<enabled, codes>>
      BY <1>2 DEF ReadCode
    <2> HIDE DEF row
    <2>3. \A q \in DOMAIN requests' :
            \/ q = r /\ requests'[q] = row
            \/ q \in DOMAIN requests /\ requests'[q] = requests[q]
      BY <2>2 DEF Put
    <2>4. b = a => codes[a].expired \/ codes[a].attempts >= MaxAttempts
      BY <2>2 DEF Lost, Spent
    <2>5. ASSUME NEW q \in DOMAIN requests', requests'[q] = row
          PROVE  TooLate(a, q)'
      BY <2>1, <2>2, <2>4, <2>5 DEF TooLate, At
    <2>6. QED
      BY <2>2, <2>3, <2>5, LostByRequests DEF Lost, Disabled
  <1>3. QED
    BY <1>1, <1>2

LEMMA LostExpire ==
  ASSUME Inv, NEW a \in Account, Lost(a), NEW b \in Account, ExpireCode(b)
  PROVE  Lost(a)'
  <1> DEFINE row == [codes[b] EXCEPT !.expired = TRUE]
  <1>1. /\ b \in DOMAIN codes /\ codes' = Put(codes, b, row)
        /\ UNCHANGED <<enabled, requests>>
    BY DEF ExpireCode
  <1>2. row.expired
    BY <1>1 DEF CodeRow, Inv, TypeOK, IsTable
  <1> HIDE DEF row
  <1>3. /\ DOMAIN codes' = DOMAIN codes
        /\ \A x \in DOMAIN codes : codes'[x] = codes[x] \/ codes'[x].expired
    BY <1>1, <1>2 DEF Put
  <1>4. Disabled(a)' /\ Spent(a)'
    BY <1>1, <1>3 DEF Lost, Disabled, Spent
  <1>5. ASSUME NEW q \in DOMAIN requests'
        PROVE  TooLate(a, q)'
    <2>1. TooLate(a, q)
      BY <1>1 DEF Lost
    <2>2. At(q, "guess") /\ requests[q].account = a => a \in DOMAIN codes
      BY <1>1 DEF Inv, OneCode
    <2>3. QED
      BY <1>1, <1>3, <2>1, <2>2 DEF TooLate, At
  <1>6. QED
    BY <1>4, <1>5 DEF Lost

LEMMA LostLookups ==
  ASSUME Inv, NEW a \in Account, Lost(a), NEW r \in Request,
         (\E c \in Counter : ReadCount(r, c)) \/ Count(r) \/ SetCount(r) \/ Abort(r)
  PROVE  Lost(a)'
  <1>1. UNCHANGED <<enabled, codes>>
    BY DEF ReadCount, Count, SetCount, Abort
  <1>2. ASSUME NEW c \in Counter, ReadCount(r, c)
        PROVE  Lost(a)'
    <2> DEFINE row == [at |-> "count", counter |-> c, attempts |-> cache[c]]
    <2>1. row.at = "count" /\ requests' = Put(requests, r, row)
      BY <1>2 DEF ReadCount
    <2> HIDE DEF row
    <2>2. QED
      BY <1>1, <2>1, LostByRequests DEF TooLate, Lost, Disabled, At, Put
  <1>3. CASE Count(r)
    <2> DEFINE row == [requests[r] EXCEPT !.at = "set"]
    <2>1. r \in DOMAIN requests /\ requests[r] \in LookupRequest
      BY <1>3, RequestTypes DEF Count, At
    <2>2. row.at = "set"
      BY <2>1 DEF LookupRequest
    <2>3. requests' = Put(requests, r, row) \/ requests' = Delete(requests, r)
      BY <1>3 DEF Count
    <2> HIDE DEF row
    <2>4. \A q \in DOMAIN requests' :
            \/ q = r /\ requests'[q] = row
            \/ q \in DOMAIN requests /\ requests'[q] = requests[q]
      BY <2>3 DEF Put, Delete
    <2>5. QED
      BY <1>1, <2>2, <2>4, LostByRequests DEF TooLate, Lost, Disabled, At
  <1>4. CASE SetCount(r) \/ Abort(r)
    BY <1>1, <1>4, LostByRequests DEF SetCount, Abort, Lost, Disabled, Delete
  <1>5. QED
    BY <1>2, <1>3, <1>4

LEMMA LostStays ==
  ASSUME Inv, NEW a \in Account, Lost(a), [Next]_vars
  PROVE  Lost(a)'
  <1>1. CASE Next
    <2>1. CASE \E c \in Counter : ExpireCount(c)
      BY <2>1, LostByRequests DEF ExpireCount, Lost, Disabled
    <2>2. QED
      BY <1>1, <2>1, LostVerify, LostSignup, LostReads, LostExpire, LostLookups DEF Next
  <1>2. CASE UNCHANGED vars
    BY <1>2, LostByRequests DEF vars, Lost, Disabled
  <1>3. QED
    BY <1>1, <1>2

(***************************************************************************)
(* SignupVerifyView and CitizenRegistrationForm.clean_email: a disabled    *)
(* account whose code is spent while nobody works on it stays disabled for *)
(* ever, whoever guesses or signs up again.                                *)
(***************************************************************************)
THEOREM LostForEver == Spec => DeadForEver
  <1>1. ASSUME NEW a \in Account
        PROVE  Spec => [](Dead(a) => [](a \in DOMAIN enabled /\ ~enabled[a]))
    <2>1. Dead(a) => Lost(a)
      BY DEF Dead, Lost, Disabled, Spent, TooLate
    <2>2. Lost(a) => a \in DOMAIN enabled /\ ~enabled[a]
      BY DEF Lost, Disabled
    <2>3. Inv /\ Lost(a) /\ [Next]_vars => Lost(a)'
      BY LostStays
    <2>4. QED
      BY <2>1, <2>2, <2>3, InvHolds, PTL DEF Spec
  <1>2. QED
    BY <1>1 DEF DeadForEver

-----------------------------------------------------------------------------
(* The look-ups that read the count of c and have yet to count, and those  *)
(* of them that found none.                                                *)
Counting(c) == {r \in DOMAIN requests : At(r, "count") /\ requests[r].counter = c}
Zero(c)     == {r \in Counting(c) : requests[r].attempts = 0}

(***************************************************************************)
(* A look-up that found no count is evaluated uncounted once there is one, *)
(* and can only wait with the request that created the count.  The count   *)
(* passes the limit by those alone that read it below the limit.           *)
(***************************************************************************)
Within(c) ==
  /\ cache[c] = 0 => looked[c] = 0
  /\ cache[c] # 0 =>
       looked[c] + Cardinality(Zero(c)) + 1 <= cache[c] + Cardinality(Request)
  /\ cache[c] + Cardinality(Counting(c)) + 1 <= MaxLookups + Cardinality(Request)

LEMMA Sizes ==
  ASSUME Inv, NEW c
  PROVE  /\ Counting(c) \subseteq Request /\ Zero(c) \subseteq Counting(c)
         /\ IsFiniteSet(Counting(c)) /\ IsFiniteSet(Zero(c))
         /\ Cardinality(Counting(c)) \in Nat /\ Cardinality(Zero(c)) \in Nat
         /\ Cardinality(Counting(c)) <= Cardinality(Request)
         /\ Cardinality(Zero(c)) <= Cardinality(Request)
         /\ Cardinality(Request) \in Nat \ {0}
  <1>1. Counting(c) \subseteq Request /\ Zero(c) \subseteq Counting(c)
    BY DEF Counting, Zero, Inv, TypeOK, IsTable
  <1>2. IsFiniteSet(Request) /\ Cardinality(Request) \in Nat \ {0}
    BY RequestAssumption, FS_CardinalityType, FS_EmptySet
  <1>3. /\ IsFiniteSet(Counting(c)) /\ Cardinality(Counting(c)) <= Cardinality(Request)
        /\ IsFiniteSet(Zero(c)) /\ Cardinality(Zero(c)) <= Cardinality(Request)
    BY <1>1, <1>2, FS_Subset
  <1>4. QED
    BY <1>1, <1>2, <1>3, FS_CardinalityType

(* The request r is one of these sets no longer, or never was.             *)
LEMMA Without ==
  ASSUME NEW S, NEW T, NEW r, IsFiniteSet(S), T \subseteq S, r \notin T
  PROVE  /\ Cardinality(T) \in Nat /\ Cardinality(T) <= Cardinality(S)
         /\ r \in S => Cardinality(T) + 1 <= Cardinality(S)
  <1>1. /\ IsFiniteSet(S \ {r}) /\ IsFiniteSet(T)
        /\ Cardinality(T) <= Cardinality(S \ {r}) /\ Cardinality(T) <= Cardinality(S)
    BY FS_RemoveElement, FS_Subset
  <1>2. Cardinality(T) \in Nat /\ Cardinality(S) \in Nat /\ Cardinality(S \ {r}) \in Nat
    BY <1>1, FS_CardinalityType
  <1>3. r \in S => Cardinality(S \ {r}) = Cardinality(S) - 1
    BY FS_RemoveElement
  <1>4. QED
    BY <1>1, <1>2, <1>3

LEMMA WithinFewer ==
  ASSUME Inv, NEW c \in Counter, Within(c), cache'[c] = cache[c], looked'[c] = looked[c],
         Counting(c)' \subseteq Counting(c), Zero(c)' \subseteq Zero(c)
  PROVE  Within(c)'
  <1>1. /\ IsFiniteSet(Counting(c)) /\ IsFiniteSet(Zero(c))
        /\ Cardinality(Counting(c)) \in Nat /\ Cardinality(Zero(c)) \in Nat
        /\ Cardinality(Request) \in Nat
    BY Sizes
  <1>2. /\ IsFiniteSet(Counting(c)') /\ Cardinality(Counting(c)') <= Cardinality(Counting(c))
        /\ IsFiniteSet(Zero(c)') /\ Cardinality(Zero(c)') <= Cardinality(Zero(c))
    BY <1>1, FS_Subset
  <1>3. Cardinality(Counting(c)') \in Nat /\ Cardinality(Zero(c)') \in Nat
    BY <1>2, FS_CardinalityType
  <1>4. cache[c] \in Nat /\ looked[c] \in Nat
    BY DEF Inv, TypeOK
  <1>5. QED
    BY <1>1, <1>2, <1>3, <1>4, LimitsAssumption DEF Within

(* A step that leaves the counts alone, and no request begins to count.    *)
LEMMA WithinQuiet ==
  ASSUME Inv, NEW c \in Counter, Within(c), UNCHANGED <<cache, looked>>,
         \A q \in DOMAIN requests' :
            ~At(q, "count")' \/ (q \in DOMAIN requests /\ requests'[q] = requests[q])
  PROVE  Within(c)'
  <1>1. Counting(c)' \subseteq Counting(c)
    BY DEF Counting, At
  <1>2. Zero(c)' \subseteq Zero(c)
    BY <1>1 DEF Zero, Counting, At
  <1>3. QED
    BY <1>1, <1>2, WithinFewer

LEMMA SignupWithin ==
  ASSUME Inv, NEW c \in Counter, Within(c), NEW r \in Request,
         \/ \E a \in Account : StartSignup(r, a) \/ \E right \in BOOLEAN : ReadCode(r, a, right)
         \/ InsertAccount(r) \/ IssueCode(r) \/ VerifyCode(r) \/ EnableAccount(r) \/ Abort(r)
  PROVE  Within(c)'
  <1>1. UNCHANGED <<cache, looked>>
    BY DEF StartSignup, ReadCode, InsertAccount, IssueCode, VerifyCode, EnableAccount, Abort
  <1>2. \/ requests' = Delete(requests, r)
        \/ \E row : requests' = Put(requests, r, row) /\ row.at # "count"
    <2>1. CASE \E a \in Account : StartSignup(r, a)
      BY <2>1 DEF StartSignup
    <2>2. CASE \E a \in Account : \E right \in BOOLEAN : ReadCode(r, a, right)
      BY <2>2 DEF ReadCode
    <2>3. CASE InsertAccount(r)
      <3> DEFINE row == [at |-> "code", account |-> requests[r].account]
      <3>1. requests' = Delete(requests, r) \/ requests' = Put(requests, r, row)
        BY <2>3, Zenon DEF InsertAccount
      <3>2. row.at # "count"
        OBVIOUS
      <3>3. QED
        BY <3>1, <3>2
    <2>4. CASE VerifyCode(r)
      BY <2>4 DEF VerifyCode
    <2>5. CASE IssueCode(r) \/ EnableAccount(r) \/ Abort(r)
      BY <2>5 DEF IssueCode, EnableAccount, Abort
    <2>6. QED
      BY <2>1, <2>2, <2>3, <2>4, <2>5
  <1>3. CASE requests' = Delete(requests, r)
    BY <1>1, <1>3, WithinQuiet DEF Delete
  <1>4. ASSUME NEW row, requests' = Put(requests, r, row), row.at # "count"
        PROVE  Within(c)'
    BY <1>1, <1>4, WithinQuiet DEF Put, At
  <1>5. QED
    BY <1>2, <1>3, <1>4

(* The count is below the limit when it is read. *)
LEMMA ReadCountWithin ==
  ASSUME Inv, NEW d \in Counter, Within(d), NEW r \in Request, NEW c \in Counter, ReadCount(r, c)
  PROVE  Within(d)'
  <1> DEFINE row == [at |-> "count", counter |-> c, attempts |-> cache[c]]
  <1>1. /\ r \notin DOMAIN requests /\ cache[c] < MaxLookups
        /\ requests' = Put(requests, r, row) /\ UNCHANGED <<cache, looked>>
    BY DEF ReadCount
  <1>2. row.at = "count" /\ row.counter = c /\ row.attempts = cache[c]
    OBVIOUS
  <1> HIDE DEF row
  <1>3. /\ requests'[r] = row /\ DOMAIN requests' = DOMAIN requests \cup {r}
        /\ \A q \in DOMAIN requests : requests'[q] = requests[q]
    BY <1>1 DEF Put
  <1>4. CASE d # c
    <2>1. Counting(d)' \subseteq Counting(d)
      BY <1>2, <1>3, <1>4 DEF Counting, At
    <2>2. Zero(d)' \subseteq Zero(d)
      BY <1>2, <1>3, <1>4 DEF Zero, Counting, At
    <2>3. QED
      BY <1>1, <2>1, <2>2, WithinFewer
  <1>5. CASE d = c
    <2>1. Cardinality(Counting(c)') \in Nat /\ Cardinality(Counting(c)') <= Cardinality(Request)
      <3>1. Inv'
        BY ReadCountInv
      <3>2. QED
        BY <3>1, Sizes, FS_Subset, RequestAssumption, FS_CardinalityType DEF Inv, TypeOK, IsTable, Counting
    <2>2. cache[c] # 0 => Zero(c)' \subseteq Zero(c)
      BY <1>2, <1>3 DEF Zero, Counting, At
    <2>3. cache[c] # 0 => Cardinality(Zero(c)') \in Nat /\ Cardinality(Zero(c)') <= Cardinality(Zero(c))
      BY <2>2, Sizes, FS_Subset, FS_CardinalityType
    <2>4. /\ cache[c] \in Nat /\ looked[c] \in Nat /\ Cardinality(Request) \in Nat
          /\ Cardinality(Zero(c)) \in Nat
      BY Sizes DEF Inv, TypeOK
    <2>5. QED
      BY <1>1, <1>5, <2>1, <2>3, <2>4, LimitsAssumption DEF Within
  <1>6. QED
    BY <1>4, <1>5

LEMMA CountWithin ==
  ASSUME Inv, NEW d \in Counter, Within(d), NEW r \in Request, Count(r)
  PROVE  Within(d)'
  <1> DEFINE c == requests[r].counter
             n == requests[r].attempts
             row == [requests[r] EXCEPT !.at = "set"]
  <1>1. r \in DOMAIN requests /\ requests[r].at = "count" /\ requests[r] \in LookupRequest
        /\ c \in Counter /\ n \in Nat
    BY RequestTypes, LimitsAssumption DEF Count, At, LookupRequest
  <1>2. row.at = "set"
    BY <1>1 DEF LookupRequest
  <1>3. CASE requests' = Put(requests, r, row) /\ UNCHANGED <<cache, looked>>
    <2> HIDE DEF row
    <2>1. QED
      BY <1>2, <1>3, WithinQuiet DEF Put, At
  <1>4. CASE /\ requests' = Delete(requests, r)
             /\ looked' = [looked EXCEPT ![c] = @ + 1]
             /\ \/ n = 0 /\ cache' = [cache EXCEPT ![c] = IF @ = 0 THEN 1 ELSE @]
                \/ n # 0 /\ cache[c] # 0 /\ cache' = [cache EXCEPT ![c] = @ + 1]
    <2>1. /\ DOMAIN requests' = DOMAIN requests \ {r}
          /\ \A q \in DOMAIN requests' : requests'[q] = requests[q]
      BY <1>4 DEF Delete
    <2>2. /\ Counting(d)' \subseteq Counting(d) /\ r \notin Counting(d)'
          /\ Zero(d)' \subseteq Zero(d) /\ r \notin Zero(d)'
      BY <2>1 DEF Counting, Zero, At
    <2>3. CASE d # c
      <3>1. cache'[d] = cache[d] /\ looked'[d] = looked[d]
        BY <1>1, <1>4, <2>3 DEF Inv, TypeOK
      <3>2. QED
        BY <2>2, <3>1, WithinFewer
    <2>4. CASE d = c
      <3>1. r \in Counting(d) /\ (n = 0 => r \in Zero(d))
        BY <1>1, <2>4 DEF Counting, Zero, At
      <3>2. /\ IsFiniteSet(Counting(d)) /\ IsFiniteSet(Zero(d))
            /\ Cardinality(Counting(d)) \in Nat /\ Cardinality(Zero(d)) \in Nat
            /\ Cardinality(Counting(d)) <= Cardinality(Request)
            /\ Cardinality(Zero(d)) <= Cardinality(Request)
            /\ Cardinality(Request) \in Nat
        BY Sizes
      <3>3. /\ Cardinality(Counting(d)') \in Nat
            /\ Cardinality(Counting(d)') + 1 <= Cardinality(Counting(d))
        BY <2>2, <3>1, <3>2, Without
      <3>4. /\ Cardinality(Zero(d)') \in Nat /\ Cardinality(Zero(d)') <= Cardinality(Zero(d))
            /\ n = 0 => Cardinality(Zero(d)') + 1 <= Cardinality(Zero(d))
        BY <2>2, <3>1, <3>2, Without
      <3>5. cache[d] \in Nat /\ looked[d] \in Nat /\ looked'[d] = looked[d] + 1
        BY <1>4, <2>4 DEF Inv, TypeOK
      <3>6. CASE n = 0 /\ cache[d] = 0
        <4>1. cache'[d] = 1
          BY <1>4, <2>4, <3>6 DEF Inv, TypeOK
        <4>2. QED
          BY <3>2, <3>3, <3>4, <3>5, <3>6, <4>1, LimitsAssumption DEF Within
      <3>7. CASE n = 0 /\ cache[d] # 0
        <4>1. cache'[d] = cache[d]
          BY <1>4, <2>4, <3>7 DEF Inv, TypeOK
        <4>2. QED
          BY <3>2, <3>3, <3>4, <3>5, <3>7, <4>1, LimitsAssumption DEF Within
      <3>8. CASE n # 0
        <4>1. cache[d] # 0 /\ cache'[d] = cache[d] + 1
          BY <1>4, <2>4, <3>8 DEF Inv, TypeOK
        <4>2. QED
          BY <3>2, <3>3, <3>4, <3>5, <4>1, LimitsAssumption DEF Within
      <3>9. QED
        BY <3>6, <3>7, <3>8
    <2>5. QED
      BY <2>3, <2>4
  <1>5. QED
    BY <1>3, <1>4 DEF Count

(* Counting starts afresh, and the request that does so is itself done. *)
LEMMA SetCountWithin ==
  ASSUME Inv, NEW d \in Counter, Within(d), NEW r \in Request, SetCount(r)
  PROVE  Within(d)'
  <1> DEFINE c == requests[r].counter
  <1>1. /\ r \in DOMAIN requests /\ requests[r] \in LookupRequest /\ c \in Counter
        /\ requests' = Delete(requests, r)
        /\ cache' = [cache EXCEPT ![c] = 1] /\ looked' = [looked EXCEPT ![c] = 1]
    BY RequestTypes DEF SetCount, At, LookupRequest
  <1>2. /\ Counting(d)' \subseteq Counting(d) /\ r \notin Counting(d)'
        /\ Zero(d)' \subseteq Zero(d) /\ r \notin Zero(d)'
    BY <1>1 DEF Counting, Zero, At, Delete
  <1>3. CASE d # c
    <2>1. cache'[d] = cache[d] /\ looked'[d] = looked[d]
      BY <1>1, <1>3 DEF Inv, TypeOK
    <2>2. QED
      BY <1>2, <2>1, WithinFewer
  <1>4. CASE d = c
    <2>1. cache'[d] = 1 /\ looked'[d] = 1
      BY <1>1, <1>4 DEF Inv, TypeOK
    <2>2. Counting(d)' \subseteq Request /\ Zero(d)' \subseteq Request
      BY <1>2, Sizes
    <2>3. /\ Cardinality(Counting(d)') \in Nat /\ Cardinality(Zero(d)') \in Nat
          /\ Cardinality(Counting(d)') + 1 <= Cardinality(Request)
          /\ Cardinality(Zero(d)') + 1 <= Cardinality(Request)
      BY <1>2, <2>2, Without, RequestAssumption
    <2>4. Cardinality(Request) \in Nat
      BY Sizes
    <2>5. QED
      BY <2>1, <2>3, <2>4, LimitsAssumption DEF Within
  <1>5. QED
    BY <1>3, <1>4

LEMMA ExpireCountWithin ==
  ASSUME Inv, NEW d \in Counter, Within(d), NEW c \in Counter, ExpireCount(c)
  PROVE  Within(d)'
  <1>1. /\ cache' = [cache EXCEPT ![c] = 0] /\ looked' = [looked EXCEPT ![c] = 0]
        /\ requests' = requests
    BY DEF ExpireCount
  <1>2. Counting(d)' = Counting(d) /\ Zero(d)' = Zero(d)
    BY <1>1 DEF Counting, Zero, At
  <1>3. CASE d # c
    <2>1. cache'[d] = cache[d] /\ looked'[d] = looked[d]
      BY <1>1, <1>3 DEF Inv, TypeOK
    <2>2. QED
      BY <1>2, <2>1, WithinFewer
  <1>4. CASE d = c
    <2>1. cache'[d] = 0 /\ looked'[d] = 0
      BY <1>1, <1>4 DEF Inv, TypeOK
    <2>2. /\ Cardinality(Counting(d)) \in Nat /\ Cardinality(Request) \in Nat
          /\ Cardinality(Counting(d)) <= Cardinality(Request)
      BY Sizes
    <2>3. QED
      BY <1>2, <2>1, <2>2, LimitsAssumption DEF Within
  <1>5. QED
    BY <1>3, <1>4

(***************************************************************************)
(* PublicTrackingLookupView.post: for any limit and any number of requests *)
(* at the same time, the look-ups evaluated for one count exceed the limit *)
(* by at most two for each other request.                                  *)
(***************************************************************************)
THEOREM LookupsLimited == Spec => []LookupsBounded
  <1> DEFINE AllWithin == \A c \in Counter : Within(c)
  <1>1. Init => AllWithin
    <2> SUFFICES ASSUME Init, NEW c \in Counter
                 PROVE  Within(c)
      OBVIOUS
    <2>1. Counting(c) = {} /\ cache[c] = 0 /\ looked[c] = 0
      BY DEF Init, Counting, Empty
    <2>2. Cardinality(Counting(c)) = 0 /\ Cardinality(Request) \in Nat \ {0}
      BY <2>1, InitInv, Sizes, FS_EmptySet
    <2>3. QED
      BY <2>1, <2>2, LimitsAssumption DEF Within
  <1>2. Inv /\ AllWithin /\ [Next]_vars => AllWithin'
    <2> SUFFICES ASSUME Inv, [Next]_vars, NEW c \in Counter, Within(c)
                 PROVE  Within(c)'
      OBVIOUS
    <2>1. CASE Next
      <3>1. CASE \E a \in Account : ExpireCode(a)
        BY <3>1, WithinQuiet DEF ExpireCode
      <3>2. QED
        BY <2>1, <3>1, SignupWithin, ReadCountWithin, CountWithin, SetCountWithin,
           ExpireCountWithin
           DEF Next
    <2>2. CASE UNCHANGED vars
      BY <2>2, WithinQuiet DEF vars
    <2>3. QED
      BY <2>1, <2>2
  <1>3. Inv /\ AllWithin => LookupsBounded
    <2> SUFFICES ASSUME Inv, NEW c \in Counter, Within(c)
                 PROVE  looked[c] <= MaxLookups + 2 * (Cardinality(Request) - 1)
      BY DEF LookupsBounded
    <2>1. /\ Cardinality(Counting(c)) \in Nat /\ Cardinality(Zero(c)) \in Nat
          /\ Cardinality(Request) \in Nat \ {0} /\ cache[c] \in Nat /\ looked[c] \in Nat
      BY Sizes DEF Inv, TypeOK
    <2>2. QED
      BY <2>1, LimitsAssumption DEF Within
  <1> HIDE DEF AllWithin
  <1>4. QED
    BY <1>1, <1>2, <1>3, InvHolds, PTL DEF Spec
=============================================================================
