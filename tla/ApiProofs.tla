----------------------------- MODULE ApiProofs -----------------------------
(***************************************************************************)
(* Proofs about the parts that MCApi explores beside DependenceQueue: the  *)
(* second factor, for any number of requests and of codes, and the         *)
(* subscriptions, for any number of them, of calls, runs and restarts.  A  *)
(* behaviour of MCApi is one of each part, for the state of that part.     *)
(***************************************************************************)
EXTENDS MCApi, DependenceQueueProofs

-----------------------------------------------------------------------------
(* TotpLogin.  How a spent code may come back is inductive together with    *)
(* three facts: every code at hand was generated before, so that new ones  *)
(* are none of them; a request never saves the code that it has used; and  *)
(* that save is the last thing it does before it is granted.               *)

\* The codes generated so far.
Made == (1..sets) \X (1..SetSize)

Types ==
    /\ config = [k \in Totp!Keys |-> config[k]]
    /\ request \in [Clients -> Totp!RequestStates]
    /\ sets \in 0..MaxSets

Verified == {"login", "disable", "regenerate"}

RequestInv(r) ==
    /\ r.list \union r.used \subseteq Made
    /\ r.list \intersect r.used = {}
    /\ r.used # {} => r.todo = <<"totp_backup_codes">>
    /\ r.at = "code" \/ r.used # {} => r.kind \in Verified
    /\ r.at \in {"look", "put"} => r.kind # "none"
    /\ r.list \intersect spent \subseteq r.back /\ r.used \intersect spent \subseteq r.back

RowsInv ==
    /\ Totp!Stored \union spent \subseteq Made
    /\ Totp!Stored \intersect spent = {}

SpentInv == RowsInv /\ \A c \in Clients : RequestInv(request[c])

\* What a step makes of the rows, and leaves of a request that it is not about.
Rows ==
    /\ sets' \in {sets, sets + 1} /\ sets' \in 0..MaxSets
    /\ config' = [k \in Totp!Keys |-> config'[k]]
    /\ RowsInv'
Other(d) ==
    /\ request'[d] \in Totp!RequestStates
    /\ request'[d].at = request[d].at /\ request'[d].kind = request[d].kind
    /\ request'[d].todo = request[d].todo /\ request'[d].secret = request[d].secret
    /\ request'[d].list = request[d].list /\ request'[d].used = request[d].used
    /\ request'[d].list \intersect spent' \subseteq request'[d].back
    /\ request'[d].used \intersect spent' \subseteq request'[d].back

USE ApiAssumption

\* A request that has just begun, or is over, holds no codes.
LEMMA NoCallFits ==
    /\ Totp!NoCall \in Totp!RequestStates
    /\ Totp!NoCall.list = {} /\ Totp!NoCall.used = {} /\ Totp!NoCall.todo = <<>>
    /\ Totp!NoCall.at = "idle"
BY DEF Totp!NoCall, Totp!RequestStates, Totp!Keys

\* The keys that a request goes through, and what remains of them.
LEMMA Todos ==
    /\ Totp!AllKeys \in Seq(Totp!Keys) /\ <<"totp_backup_codes">> \in Seq(Totp!Keys)
    /\ \A k \in Totp!Keys : <<k>> \in Seq(Totp!Keys)
    /\ \A q \in Seq(Totp!Keys) : Len(q) > 1 => Tail(q) \in Seq(Totp!Keys)
BY DEF Totp!AllKeys, Totp!Keys

\* Who has only the backup codes to save has nothing to do after that.
LEMMA OneLeft ==
    ASSUME NEW todo, todo = <<"totp_backup_codes">>
    PROVE  ~(Len(todo) > 1)
<1>1. Len(todo) = 1 OBVIOUS
<1> QED BY <1>1

\* The codes generated next were not there before.
LEMMA FreshCodes ==
    ASSUME Types, sets < MaxSets, sets' = sets + 1
    PROVE  /\ Totp!NewCodes(sets + 1) \intersect Made = {}
           /\ Totp!NewCodes(sets + 1) \subseteq Made' /\ Made \subseteq Made'
           /\ Totp!NewCodes(sets + 1) \subseteq Totp!Codes /\ sets + 1 \in 0..MaxSets
<1>1. sets \in Nat /\ sets + 1 \in 1..MaxSets /\ sets + 1 \in 1..(sets + 1)
      /\ sets + 1 \notin 1..sets /\ 1..sets \subseteq 1..(sets + 1)
  BY DEF Types
<1> QED BY <1>1 DEF Totp!NewCodes, Made, Totp!Codes, Totp!Sets

\* The codes that a client can send were generated before.
LEMMA KnownMade ==
    ASSUME Types, NEW list \in Totp!KnownLists
    PROVE  list \subseteq Made /\ list \subseteq Totp!Codes
<1>1. ASSUME NEW b \in list PROVE b \in Made
  <2>1. b \in Totp!Sets \X (1..SetSize) /\ b[1] <= sets
    BY DEF Totp!KnownLists, Totp!Codes
  <2>2. b[1] \in 1..sets BY <2>1 DEF Types, Totp!Sets
  <2> QED BY <2>1, <2>2 DEF Made
<1> QED BY <1>1 DEF Totp!KnownLists

\* A step whose requests are each what they were, or as they should be.
LEMMA StepOf ==
    ASSUME Types, SpentInv, Rows, request' = [d \in Clients |-> request'[d]],
           \A d \in Clients :
              Other(d) \/ (request'[d] \in Totp!RequestStates /\ RequestInv(request[d])')
    PROVE  Types' /\ SpentInv'
<1>1. Types' BY DEF Types, Rows, Other
<1>2. Made \subseteq Made'
  <2>1. sets \in Nat /\ 1..sets \subseteq 1..sets'
    BY DEF Types, Rows
  <2> QED BY <2>1 DEF Made
<1>3. ASSUME NEW d \in Clients, Other(d) PROVE RequestInv(request[d])'
  <2>1. RequestInv(request[d]) BY DEF SpentInv
  <2> QED BY <1>2, <1>3, <2>1 DEF RequestInv, Other
<1> QED BY <1>1, <1>3 DEF SpentInv, Rows

\* A request that is not touched while no more codes are spent.
LEMMA OtherKept ==
    ASSUME Types, SpentInv, NEW d \in Clients, request'[d] = request[d], spent' \subseteq spent
    PROVE  Other(d)
BY DEF Types, SpentInv, RequestInv, Other

\* One request becomes another while no more codes are spent.
LEMMA BecomesOne ==
    ASSUME Types, SpentInv, Rows, NEW c \in Clients, NEW r \in Totp!RequestStates,
           Totp!Becomes(c, r), spent' \subseteq spent, RequestInv(request[c])'
    PROVE  Types' /\ SpentInv'
<1>1. /\ request' = [d \in Clients |-> request'[d]] /\ request'[c] = r
      /\ \A d \in Clients \ {c} : request'[d] = request[d]
  BY DEF Totp!Becomes, Types
<1>2. \A d \in Clients \ {c} : Other(d) BY <1>1, OtherKept
<1> QED BY <1>1, <1>2, StepOf

\* The rows are what they were, or codes have been generated.
LEMMA RowsKept ==
    ASSUME Types, SpentInv,
           UNCHANGED <<config, spent>>, sets' = sets \/ (sets < MaxSets /\ sets' = sets + 1)
    PROVE  Rows /\ Made \subseteq Made'
<1>1. sets \in Nat /\ sets' \in {sets, sets + 1} /\ sets' \in 0..MaxSets
      /\ 1..sets \subseteq 1..sets'
  BY DEF Types
<1>2. Made \subseteq Made' BY <1>1 DEF Made
<1>3. Totp!Stored' = Totp!Stored BY DEF Totp!Stored
<1> QED BY <1>1, <1>2, <1>3 DEF Rows, RowsInv, SpentInv, Types

\* Whoever has no code and brings no list is as it should be.
LEMMA NoCodes ==
    ASSUME NEW c \in Clients, request'[c].list = {}, request'[c].used = {},
           request'[c].at = "code" => request'[c].kind \in Verified,
           request'[c].at \notin {"look", "put"}
    PROVE  RequestInv(request[c])'
BY DEF RequestInv

\* What a request does once it is granted, in place of what it was at; by then
\* the code that it used may have become a spent one.
LEMMA GrantedFits ==
    ASSUME Types, SpentInv, NEW c \in Clients, Totp!Granted(c), request[c].kind \in Verified,
           spent' \subseteq spent \union request[c].used
    PROVE  /\ sets' = sets \/ (sets < MaxSets /\ sets' = sets + 1)
           /\ request' = [d \in Clients |-> request'[d]]
           /\ request'[c] \in Totp!RequestStates /\ RequestInv(request[c])'
           /\ \A d \in Clients \ {c} : Other(d)
<1>0. spent' \subseteq Made BY DEF SpentInv, RowsInv, RequestInv
<1>1. /\ sets' = sets \/ (sets < MaxSets /\ sets' = sets + 1)
      /\ request' = [d \in Clients |-> request'[d]] /\ request'[c] = Totp!Onward(c)
  BY DEF Totp!Granted
<1>2. request'[c] \in Totp!RequestStates /\ RequestInv(request[c])'
  <2>1. CASE request[c].kind = "login"
    BY <1>1, <2>1, NoCallFits, NoCodes DEF Totp!Onward
  <2>2. CASE request[c].kind = "disable"
    <3> DEFINE r == [Totp!NoCall EXCEPT !.at = "delete", !.kind = "disable", !.todo = Totp!AllKeys]
    <3>1. r \in Totp!RequestStates /\ r.list = {} /\ r.used = {} /\ r.at = "delete"
      BY NoCallFits, Todos DEF Totp!NoCall, Totp!RequestStates
    <3>2. request'[c] = r BY <1>1, <2>2 DEF Totp!Onward
    <3> QED BY <3>1, <3>2, NoCodes
  <2>3. CASE request[c].kind = "regenerate"
    <3> DEFINE r == [Totp!NoCall EXCEPT !.at = "look", !.kind = "enable",
                         !.todo = <<"totp_backup_codes">>, !.list = Totp!NewCodes(sets + 1)]
    <3>1. sets < MaxSets /\ sets' = sets + 1 /\ request'[c] = r
      BY <1>1, <2>3 DEF Totp!Granted, Totp!Onward
    <3>2. /\ Totp!NewCodes(sets + 1) \intersect Made = {} /\ Totp!NewCodes(sets + 1) \subseteq Made'
          /\ Totp!NewCodes(sets + 1) \subseteq Totp!Codes
      BY <3>1, FreshCodes
    <3>3. /\ r \in Totp!RequestStates /\ r.list = Totp!NewCodes(sets + 1) /\ r.used = {}
          /\ r.at = "look" /\ r.kind = "enable"
      BY <3>2, NoCallFits, Todos DEF Totp!NoCall, Totp!RequestStates
    <3> QED BY <1>0, <3>1, <3>2, <3>3 DEF RequestInv
  <2> QED BY <2>1, <2>2, <2>3 DEF Verified
<1>3. ASSUME NEW d \in Clients \ {c} PROVE Other(d)
  <2> DEFINE more == request[c].used \intersect (request[d].list \union request[d].used)
  <2>1. request'[d] = [request[d] EXCEPT !.back = @ \union more]
    BY DEF Totp!Granted
  <2>2. request[d] \in Totp!RequestStates /\ request[c] \in Totp!RequestStates BY DEF Types
  <2>3. /\ request'[d] \in Totp!RequestStates
        /\ request'[d].back = request[d].back \union more
        /\ request'[d].at = request[d].at /\ request'[d].kind = request[d].kind
        /\ request'[d].todo = request[d].todo /\ request'[d].secret = request[d].secret
        /\ request'[d].list = request[d].list /\ request'[d].used = request[d].used
    BY <2>1, <2>2 DEF Totp!RequestStates
  <2>4. RequestInv(request[d]) BY DEF SpentInv
  <2> QED BY <2>3, <2>4 DEF Other, RequestInv
<1> QED BY <1>1, <1>2, <1>3

LEMMA SpentStart == Totp!Init => Types /\ SpentInv
<1> SUFFICES ASSUME Totp!Init PROVE Types /\ SpentInv
  OBVIOUS
<1>1. Totp!Stored = {} /\ spent = {} BY DEF Totp!Init, Totp!Stored, Totp!Keys
<1>2. Types BY NoCallFits DEF Totp!Init, Types
<1>3. \A c \in Clients : RequestInv(request[c])
  BY NoCallFits DEF Totp!Init, RequestInv
<1> QED BY <1>1, <1>2, <1>3 DEF SpentInv, RowsInv

\* A row that is written, and what then is in the row of the codes.
LEMMA RowWritten ==
    ASSUME Types, NEW k \in Totp!Keys, NEW v, config' = [config EXCEPT ![k] = v]
    PROVE  /\ config' = [i \in Totp!Keys |-> config'[i]]
           /\ Totp!Stored' = IF k # "totp_backup_codes" THEN Totp!Stored
                             ELSE IF v = NoValue THEN {} ELSE v
<1>1. config = [i \in Totp!Keys |-> config[i]] BY DEF Types
<1>2. config' = [i \in Totp!Keys |-> config'[i]] BY <1>1
<1>3. config'["totp_backup_codes"] =
         IF k = "totp_backup_codes" THEN v ELSE config["totp_backup_codes"]
  BY <1>1 DEF Totp!Keys
<1> QED BY <1>2, <1>3 DEF Totp!Stored

LEMMA SpentStep == Types /\ SpentInv /\ [Totp!Next]_totpVars => Types' /\ SpentInv'
<1> SUFFICES ASSUME Types, SpentInv, [Totp!Next]_totpVars PROVE Types' /\ SpentInv'
  OBVIOUS
<1>0. /\ Totp!NoCall \in Totp!RequestStates /\ Totp!NoCall.list = {} /\ Totp!NoCall.used = {}
      /\ Totp!NoCall.at = "idle"
  BY NoCallFits
\* What is known of a request, and what it means that it goes on with the
\* same codes, or with none.
<1>1. ASSUME NEW c \in Clients
      PROVE  request[c] \in Totp!RequestStates /\ RequestInv(request[c])
  BY DEF Types, SpentInv
<1>2. ASSUME NEW c \in Clients, NEW r \in Totp!RequestStates, Totp!Becomes(c, r), Rows,
             Made \subseteq Made', spent' \subseteq spent,
             \/ r.used = {} /\ r.list = {}
             \/ r.used = request[c].used /\ r.list = request[c].list /\ r.back = request[c].back,
             r.used # {} => r.todo = request[c].todo,
             r.at = "code" \/ r.used # {} => r.kind \in Verified,
             r.at \in {"look", "put"} => r.kind # "none"
      PROVE  Types' /\ SpentInv'
  <2>1. request'[c] = r BY <1>2 DEF Totp!Becomes, Types
  <2>2. RequestInv(request[c])' BY <1>1, <1>2, <2>1 DEF RequestInv
  <2> QED BY <1>2, <2>2, BecomesOne
<1>3. ASSUME NEW c \in Clients, Totp!End(c), UNCHANGED <<config, sets, spent>>
      PROVE  Types' /\ SpentInv'
  BY <1>0, <1>2, <1>3, RowsKept DEF Totp!End
<1>4. ASSUME NEW c \in Clients, NEW kind \in Verified, UNCHANGED <<config, sets, spent>>,
             Totp!Becomes(c, [Totp!NoCall EXCEPT !.at = "code", !.kind = kind])
      PROVE  Types' /\ SpentInv'
  <2> DEFINE r == [Totp!NoCall EXCEPT !.at = "code", !.kind = kind]
  <2>1. r \in Totp!RequestStates /\ r.used = {} /\ r.list = {} /\ r.kind = kind /\ r.at = "code"
    BY NoCallFits, Todos DEF Totp!NoCall, Totp!RequestStates, Verified
  <2> QED BY <1>2, <1>4, <2>1, RowsKept
<1>5. ASSUME NEW c \in Clients,
             \/ Totp!login_step_one(c)
             \/ \E kind \in {"disable", "regenerate"} : Totp!auth_middleware(c, kind)
      PROVE  Types' /\ SpentInv'
  BY <1>3, <1>4, <1>5 DEF Totp!login_step_one, Totp!auth_middleware, Verified
<1>6. ASSUME NEW c \in Clients, NEW g \in Totp!Sets, NEW list \in Totp!KnownLists,
             Totp!enable_totp(c, g, list)
      PROVE  Types' /\ SpentInv'
  <2> DEFINE r == [Totp!NoCall EXCEPT !.at = "look", !.kind = "enable", !.todo = Totp!AllKeys,
                       !.secret = g, !.list = list, !.back = list \intersect spent]
  <2>1. Totp!Becomes(c, r) /\ UNCHANGED <<config, sets, spent>>
    BY <1>6 DEF Totp!enable_totp
  <2>2. list \subseteq Made /\ list \subseteq Totp!Codes BY KnownMade
  <2>3. g \in 0..MaxSets BY DEF Totp!Sets
  <2>4. /\ r \in Totp!RequestStates /\ r.list = list /\ r.used = {} /\ r.at = "look" /\ r.kind = "enable"
        /\ r.back = list \intersect spent
    BY <2>2, <2>3, NoCallFits, Todos DEF Totp!NoCall, Totp!RequestStates
  <2>5. request'[c] = r BY <2>1 DEF Totp!Becomes, Types
  <2>6. Rows /\ Made \subseteq Made' BY <2>1, RowsKept
  <2>7. RequestInv(request[c])' BY <2>1, <2>2, <2>4, <2>5, <2>6 DEF RequestInv
  <2> QED BY <2>1, <2>4, <2>6, <2>7, BecomesOne
<1>7. ASSUME NEW c \in Clients, NEW k \in Totp!Keys, NEW q \in Totp!RequestStates,
             q.list \subseteq Made, q.used = {}, Totp!update_config(c, k, q)
      PROVE  Types' /\ SpentInv'
  <2> DEFINE r == [q EXCEPT !.at = "look", !.kind = "set", !.todo = <<k>>,
                       !.back = q.list \intersect spent']
  <2>1. /\ Totp!Becomes(c, r) /\ sets' = sets /\ spent' = spent \ Totp!Stored'
    BY <1>7 DEF Totp!update_config
  <2>2. /\ config' = [i \in Totp!Keys |-> config'[i]]
        /\ Totp!Stored' = Totp!Stored \/ Totp!Stored' = q.list \/ Totp!Stored' = {}
    <3>1. CASE config' = config BY <3>1 DEF Types, Totp!Stored
    <3>2. CASE config' = [config EXCEPT ![k] = Totp!ValueOf(k, q)]
      <4>1. k = "totp_backup_codes" => Totp!ValueOf(k, q) = q.list BY DEF Totp!ValueOf
      <4> QED BY <3>2, <4>1, RowWritten
    <3> QED BY <1>7, <3>1, <3>2 DEF Totp!update_config
  <2>3. Rows /\ Made' = Made
    BY <1>7, <2>1, <2>2 DEF Rows, RowsInv, SpentInv, Types, Made
  <2>4. /\ r \in Totp!RequestStates /\ r.list = q.list /\ r.used = {} /\ r.at = "look" /\ r.kind = "set"
        /\ r.back = q.list \intersect spent'
    <3>1. q.list \intersect spent' \subseteq Totp!Codes BY DEF Totp!RequestStates
    <3> QED BY <1>7, <3>1, Todos DEF Totp!RequestStates
  <2>5. request'[c] = r BY <2>1 DEF Totp!Becomes, Types
  <2>6. RequestInv(request[c])' BY <1>7, <2>3, <2>4, <2>5 DEF RequestInv
  <2> QED BY <2>1, <2>3, <2>4, <2>6, BecomesOne
<1>8. ASSUME NEW c \in Clients, Totp!Request(c) PROVE Types' /\ SpentInv'
  <2>1. ASSUME Totp!update_config(c, "totp_enabled", Totp!NoCall)
        PROVE  Types' /\ SpentInv'
    BY <1>0, <1>7, <2>1 DEF Totp!Keys
  <2>2. ASSUME NEW g \in 1..sets,
               Totp!update_config(c, "totp_secret_raw", [Totp!NoCall EXCEPT !.secret = g])
        PROVE  Types' /\ SpentInv'
    <3>1. g \in 0..MaxSets BY DEF Types
    <3>2. /\ [Totp!NoCall EXCEPT !.secret = g] \in Totp!RequestStates
          /\ [Totp!NoCall EXCEPT !.secret = g].list = {}
          /\ [Totp!NoCall EXCEPT !.secret = g].used = {}
      BY <3>1, NoCallFits DEF Totp!NoCall, Totp!RequestStates
    <3> QED BY <1>7, <2>2, <3>2 DEF Totp!Keys
  <2>3. ASSUME NEW list \in Totp!KnownLists,
               Totp!update_config(c, "totp_backup_codes", [Totp!NoCall EXCEPT !.list = list])
        PROVE  Types' /\ SpentInv'
    <3>1. list \subseteq Made /\ list \subseteq Totp!Codes BY KnownMade
    <3>2. /\ [Totp!NoCall EXCEPT !.list = list] \in Totp!RequestStates
          /\ [Totp!NoCall EXCEPT !.list = list].list = list
          /\ [Totp!NoCall EXCEPT !.list = list].used = {}
      BY <3>1, NoCallFits DEF Totp!NoCall, Totp!RequestStates
    <3> QED BY <1>7, <2>3, <3>1, <3>2 DEF Totp!Keys
  <2>4. ASSUME NEW k \in Totp!Keys, Totp!delete_config(c, k) PROVE Types' /\ SpentInv'
    <3>1. config' = [config EXCEPT ![k] = NoValue] /\ UNCHANGED <<request, sets, spent>>
      BY <2>4 DEF Totp!delete_config
    <3>2. /\ config' = [i \in Totp!Keys |-> config'[i]]
          /\ Totp!Stored' = Totp!Stored \/ Totp!Stored' = {}
      BY <3>1, RowWritten
    <3>3. Rows BY <3>1, <3>2 DEF Rows, RowsInv, SpentInv, Types, Made
    <3>4. \A d \in Clients : Other(d) BY <3>1, OtherKept
    <3>5. request' = [d \in Clients |-> request'[d]] BY <3>1 DEF Types
    <3> QED BY <3>3, <3>4, <3>5, StepOf
  <2> QED BY <1>5, <1>6, <1>8, <2>1, <2>2, <2>3, <2>4 DEF Totp!Request
\* A request whose code is accepted.
<1>9. ASSUME NEW c \in Clients, Totp!Granted(c), request[c].kind \in Verified,
             spent' \subseteq spent \union request[c].used,
             config' = [k \in Totp!Keys |-> config'[k]],
             Totp!Stored' \union spent' \subseteq Made, Totp!Stored' \intersect spent' = {}
      PROVE  Types' /\ SpentInv'
  <2>1. /\ sets' = sets \/ (sets < MaxSets /\ sets' = sets + 1)
        /\ request' = [d \in Clients |-> request'[d]]
        /\ request'[c] \in Totp!RequestStates /\ RequestInv(request[c])'
        /\ \A d \in Clients \ {c} : Other(d)
    BY <1>9, GrantedFits
  <2>2. sets \in Nat /\ sets' \in {sets, sets + 1} /\ sets' \in 0..MaxSets
        /\ 1..sets \subseteq 1..sets'
    BY <2>1 DEF Types
  <2>3. Made \subseteq Made' BY <2>2 DEF Made
  <2>4. Rows BY <1>9, <2>2, <2>3 DEF Rows, RowsInv
  <2> QED BY <2>1, <2>4, StepOf
<1>10. ASSUME NEW c \in Clients, NEW g, Totp!verify_totp_code(c, g) PROVE Types' /\ SpentInv'
  <2>1. request[c].kind \in Verified /\ UNCHANGED <<config, spent>>
    BY <1>1, <1>10 DEF Totp!verify_totp_code, Totp!At, RequestInv
  <2>2. CASE Totp!Granted(c)
    <3>1. Totp!Stored' = Totp!Stored BY <2>1 DEF Totp!Stored
    <3> QED BY <1>9, <2>1, <2>2, <3>1 DEF SpentInv, RowsInv, Types
  <2>3. CASE Totp!End(c) /\ UNCHANGED <<sets, token>> BY <1>3, <2>1, <2>3
  <2> QED BY <1>10, <2>2, <2>3 DEF Totp!verify_totp_code
<1>11. ASSUME NEW c \in Clients, NEW b, Totp!verify_backup_code(c, b) PROVE Types' /\ SpentInv'
  <2> DEFINE r == [request[c] EXCEPT !.at = "look", !.todo = <<"totp_backup_codes">>,
                       !.used = {b}, !.list = Totp!Stored \ {b}]
  <2>1. CASE b \in Totp!Stored
    <3>1. Totp!Becomes(c, r) /\ UNCHANGED <<config, sets, spent>> /\ request[c].at = "code"
      BY <1>11, <2>1 DEF Totp!verify_backup_code, Totp!At
    <3>2. Rows /\ Made \subseteq Made' BY <3>1, RowsKept
    <3>3. Made \subseteq Totp!Codes
      BY DEF Made, Totp!Codes, Totp!Sets, Types
    <3>4. Totp!Stored \subseteq Totp!Codes /\ b \in Totp!Codes
      BY <2>1, <3>3 DEF SpentInv, RowsInv
    <3>5. r \in Totp!RequestStates BY <1>1, <3>4, Todos DEF Totp!RequestStates
    <3>6. /\ r.used = {b} /\ r.list = Totp!Stored \ {b} /\ r.todo = <<"totp_backup_codes">>
          /\ r.kind = request[c].kind
      BY <1>1 DEF Totp!RequestStates
    <3>7. request'[c] = r BY <3>1 DEF Totp!Becomes, Types
    <3>8. request[c].kind \in Verified BY <1>1, <3>1 DEF RequestInv
    <3>9. RequestInv(request[c])'
      BY <2>1, <3>1, <3>2, <3>6, <3>7, <3>8 DEF RequestInv, SpentInv, RowsInv, Verified
    <3> QED BY <3>1, <3>2, <3>5, <3>9, BecomesOne
  <2>2. CASE b \notin Totp!Stored
    BY <1>3, <1>11, <2>2 DEF Totp!verify_backup_code
  <2> QED BY <2>1, <2>2
<1>12. ASSUME NEW c \in Clients, Totp!get_by_key(c) PROVE Types' /\ SpentInv'
  <2> DEFINE r == [request[c] EXCEPT !.at = "put", !.there = config[Totp!Key(c)] # NoValue]
  <2>1. /\ r \in Totp!RequestStates /\ r.used = request[c].used /\ r.list = request[c].list
        /\ r.todo = request[c].todo /\ r.back = request[c].back /\ r.kind = request[c].kind
        /\ r.at = "put"
    BY <1>1 DEF Totp!RequestStates
  <2>2. CASE Totp!End(c) BY <1>3, <1>12, <2>2 DEF Totp!get_by_key
  <2>3. CASE Totp!Becomes(c, r)
    <3>1. UNCHANGED <<config, sets, spent>> BY <1>12 DEF Totp!get_by_key
    <3>2. (r.used # {} => r.kind \in Verified) /\ r.kind # "none"
      BY <1>1, <1>12, <2>1 DEF RequestInv, Totp!get_by_key, Totp!At
    <3> QED BY <1>2, <2>1, <2>3, <3>1, <3>2, RowsKept
  <2> QED BY <1>12, <2>2, <2>3 DEF Totp!get_by_key
<1>13. ASSUME NEW c \in Clients, Totp!save_totp_config(c) PROVE Types' /\ SpentInv'
  <2>0. /\ request[c].used # {} => Totp!Key(c) = "totp_backup_codes"
        /\ Totp!Key(c) \in Totp!Keys \/ config' = [config EXCEPT ![Totp!Key(c)] = Totp!Value(c)]
              \/ config' = config
    BY <1>1, <1>13 DEF Totp!Key, RequestInv, Totp!save_totp_config, Totp!Saved
  <2>1. /\ config' = [k \in Totp!Keys |-> config'[k]]
        /\ \/ Totp!Stored' = Totp!Stored /\ (request[c].used # {} => Totp!Stored = {})
           \/ Totp!Stored' = request[c].list \/ Totp!Stored' = {}
    <3>1. config = [k \in Totp!Keys |-> config[k]] BY DEF Types
    <3>2. CASE config' = config /\ config[Totp!Key(c)] = NoValue
      <4>1. Totp!Key(c) = "totp_backup_codes" => Totp!Stored = {}
        BY <3>2 DEF Totp!Stored
      <4>2. Totp!Stored' = Totp!Stored BY <3>2 DEF Totp!Stored
      <4> QED BY <2>0, <3>1, <3>2, <4>1, <4>2
    <3>3. CASE config' = [config EXCEPT ![Totp!Key(c)] = Totp!Value(c)]
      <4>1. config' = [k \in Totp!Keys |-> config'[k]] BY <3>1, <3>3
      <4>2. CASE Totp!Key(c) = "totp_backup_codes"
        <5>1. Totp!Value(c) = request[c].list BY <4>2 DEF Totp!Value, Totp!ValueOf
        <5>2. config'["totp_backup_codes"] = request[c].list
          BY <3>1, <3>3, <4>2, <5>1 DEF Totp!Keys
        <5> QED BY <4>1, <5>2 DEF Totp!Stored
      <4>3. CASE Totp!Key(c) # "totp_backup_codes"
        <5>1. config'["totp_backup_codes"] = config["totp_backup_codes"]
          BY <3>1, <3>3, <4>3 DEF Totp!Keys
        <5>2. Totp!Stored' = Totp!Stored BY <5>1 DEF Totp!Stored
        <5> QED BY <2>0, <4>1, <4>3, <5>2
      <4> QED BY <4>2, <4>3
    <3> QED BY <1>13, <3>2, <3>3 DEF Totp!save_totp_config, Totp!Saved
  <2>2. /\ request[c].list \intersect request[c].used = {}
        /\ request[c].list \union request[c].used \union Totp!Stored \union spent \subseteq Made
        /\ request[c].list \intersect spent \subseteq request[c].back
        /\ Totp!Stored \intersect spent = {}
    BY <1>1 DEF SpentInv, RowsInv, RequestInv
  <2>3. spent' = (spent \union request[c].used) \ (request[c].back \intersect Totp!Stored')
    BY <1>13 DEF Totp!save_totp_config
  <2>4. Totp!Stored' \union spent' \subseteq Made /\ Totp!Stored' \intersect spent' = {}
    BY <2>1, <2>2, <2>3
  <2>5. ASSUME sets' = sets PROVE Rows /\ Made' = Made
    BY <2>1, <2>4, <2>5 DEF Rows, RowsInv, Types, Made
  <2>6. request[c].used = {} => spent' \subseteq spent BY <2>3
  <2>7. CASE Len(request[c].todo) > 1
    <3> DEFINE r == [request[c] EXCEPT !.at = "look", !.todo = Tail(@), !.there = FALSE]
    <3>1. Totp!Becomes(c, r) /\ sets' = sets
      BY <1>13, <2>7 DEF Totp!save_totp_config
    <3>2. request[c].used = {}
      <4>1. request[c].todo # <<"totp_backup_codes">> BY <2>7, OneLeft
      <4> QED BY <1>1, <4>1 DEF RequestInv
    <3>3. /\ r \in Totp!RequestStates /\ r.list = request[c].list /\ r.used = {}
          /\ r.back = request[c].back /\ r.at = "look" /\ r.kind = request[c].kind
      BY <1>1, <2>7, <3>2, Todos DEF Totp!RequestStates
    <3>4. request[c].kind # "none"
      BY <1>1, <1>13 DEF RequestInv, Totp!save_totp_config, Totp!At
    <3> QED BY <1>2, <2>5, <2>6, <3>1, <3>2, <3>3, <3>4
  <2>8. CASE request[c].kind \in {"enable", "set"} /\ Totp!End(c) /\ UNCHANGED <<sets, token>>
    <3>1. request[c].used = {} BY <1>1, <2>8 DEF RequestInv, Verified
    <3> QED BY <1>0, <1>2, <2>5, <2>6, <2>8, <3>1 DEF Totp!End
  <2>9. CASE request[c].kind \notin {"enable", "set"} /\ Totp!Granted(c)
    <3>1. request[c].kind \in Verified
      BY <1>1, <1>13, <2>9
      DEF RequestInv, Totp!RequestStates, Totp!save_totp_config, Totp!At, Verified
    <3> QED BY <1>9, <2>1, <2>3, <2>4, <2>9, <3>1
  <2> QED BY <1>13, <2>7, <2>8, <2>9 DEF Totp!save_totp_config
<1>14. ASSUME NEW c \in Clients, Totp!SaveFail(c) \/ Totp!Cut(c) PROVE Types' /\ SpentInv'
  BY <1>3, <1>14 DEF Totp!SaveFail, Totp!Cut
<1>15. ASSUME NEW c \in Clients, Totp!delete_totp_config(c) PROVE Types' /\ SpentInv'
  <2>1. config' = [config EXCEPT ![Totp!Key(c)] = NoValue] /\ sets' = sets /\ spent' = spent
    BY <1>15 DEF Totp!delete_totp_config
  <2>2. /\ config' = [k \in Totp!Keys |-> config'[k]]
        /\ Totp!Stored' = Totp!Stored \/ Totp!Stored' = {}
    BY <2>1 DEF Types, Totp!Stored, Totp!Keys
  <2>3. Rows /\ Made' = Made
    BY <2>1, <2>2 DEF Rows, RowsInv, SpentInv, Types, Made
  <2>4. CASE Len(request[c].todo) > 1
    <3> DEFINE r == [request[c] EXCEPT !.todo = Tail(@)]
    <3>1. Totp!Becomes(c, r) /\ request[c].at = "delete"
      BY <1>15, <2>4 DEF Totp!delete_totp_config, Totp!At
    <3>2. request[c].used = {}
      <4>1. request[c].todo # <<"totp_backup_codes">> BY <2>4, OneLeft
      <4> QED BY <1>1, <4>1 DEF RequestInv
    <3>3. /\ r \in Totp!RequestStates /\ r.list = request[c].list /\ r.used = {}
          /\ r.back = request[c].back /\ r.at = "delete"
      BY <1>1, <2>4, <3>1, <3>2, Todos DEF Totp!RequestStates
    <3> QED BY <1>2, <2>1, <2>3, <3>1, <3>2, <3>3
  <2>5. CASE Totp!End(c)
    BY <1>0, <1>2, <2>1, <2>3, <2>5 DEF Totp!End
  <2> QED BY <1>15, <2>4, <2>5 DEF Totp!delete_totp_config
<1>16. CASE Totp!generate_setup
  <2>1. Rows /\ UNCHANGED <<request, spent>>
    BY <1>16, RowsKept DEF Totp!generate_setup
  <2>2. \A d \in Clients : Other(d) BY <2>1, OtherKept
  <2>3. request' = [d \in Clients |-> request'[d]] BY <2>1 DEF Types
  <2> QED BY <2>1, <2>2, <2>3, StepOf
<1>17. CASE UNCHANGED totpVars
  BY <1>17 DEF totpVars, Types, SpentInv, RowsInv, RequestInv, Totp!Stored, Made
<1>18. ASSUME NEW c \in Clients, Totp!Verify(c) PROVE Types' /\ SpentInv'
  BY <1>10, <1>11, <1>18 DEF Totp!Verify
<1>19. ASSUME NEW c \in Clients, Totp!Write(c) PROVE Types' /\ SpentInv'
  BY <1>12, <1>13, <1>14, <1>15, <1>19 DEF Totp!Write
<1> QED
  BY <1>8, <1>16, <1>17, <1>18, <1>19 DEF Totp!Next

\* For the types of the rows: what a request has still to save or delete is the
\* end of the list of keys, or one of them, and with a secret to save it has one.
LastKey == <<"totp_backup_codes">>
Orders == {Totp!AllKeys, <<"totp_secret_raw", "totp_backup_codes">>, LastKey,
           <<"totp_enabled">>, <<"totp_secret_raw">>}
HandOK(r) ==
    r.at \in {"look", "put", "delete"} =>
        /\ r.todo \in Orders
        /\ r.at = "delete" \/ r.todo \in {LastKey, <<"totp_enabled">>} \/ r.secret \in Totp!Sets
Hands ==
    /\ config["totp_enabled"] \in {"true", NoValue}
    /\ config["totp_secret_raw"] \in Totp!Sets \union {NoValue}
    /\ token \in BOOLEAN
    /\ \A c \in Clients : HandOK(request[c])

LEMMA OrdersFacts ==
    ASSUME NEW q \in Orders
    PROVE  /\ q \in Seq(Totp!Keys) /\ Head(q) \in Totp!Keys
           /\ Head(q) = "totp_secret_raw" => q \notin {LastKey, <<"totp_enabled">>}
           /\ Len(q) > 1 => Tail(q) \in Orders /\ q \notin {LastKey, <<"totp_enabled">>}
<1>1. CASE q = <<"totp_enabled", "totp_secret_raw", "totp_backup_codes">>
  BY <1>1 DEF Orders, LastKey, Totp!Keys
<1>2. CASE q = <<"totp_secret_raw", "totp_backup_codes">>
  BY <1>2 DEF Orders, LastKey, Totp!Keys
<1>3. CASE q = <<"totp_backup_codes">>
  BY <1>3, OneLeft DEF LastKey, Totp!Keys
<1>4. CASE q = <<"totp_enabled">>
  <2>1. Len(q) = 1 /\ Head(q) = "totp_enabled" BY <1>4
  <2> QED BY <1>4, <2>1 DEF Totp!Keys
<1>5. CASE q = <<"totp_secret_raw">>
  <2>1. Len(q) = 1 /\ Head(q) = "totp_secret_raw" BY <1>5
  <2> QED BY <1>5, <2>1 DEF Totp!Keys, LastKey
<1> QED BY <1>1, <1>2, <1>3, <1>4, <1>5 DEF Orders, LastKey, Totp!AllKeys

LEMMA HandsStep ==
    ASSUME Types, Hands, [Totp!Next]_totpVars
    PROVE  Hands'
<1> DEFINE RowsOK == /\ config'["totp_enabled"] \in {"true", NoValue}
                     /\ config'["totp_secret_raw"] \in Totp!Sets \union {NoValue}
<1>1. ASSUME NEW c \in Clients
      PROVE  request[c] \in Totp!RequestStates /\ HandOK(request[c])
  BY DEF Types, Hands
<1>2. HandOK(Totp!NoCall) BY DEF HandOK, Totp!NoCall
<1>3. ASSUME NEW c \in Clients, NEW r, Totp!Becomes(c, r), HandOK(r), RowsOK, token' \in BOOLEAN
      PROVE  Hands'
  <2>1. \A d \in Clients : request'[d] = IF d = c THEN r ELSE request[d]
    BY <1>3 DEF Totp!Becomes, Types
  <2>2. ASSUME NEW d \in Clients PROVE HandOK(request[d])'
    BY <1>1, <1>3, <2>1 DEF HandOK
  <2> QED BY <1>3, <2>2 DEF Hands
<1>4. ASSUME NEW c \in Clients, Totp!End(c), RowsOK, token' \in BOOLEAN PROVE Hands'
  BY <1>2, <1>3, <1>4 DEF Totp!End
<1>5. config' = config => RowsOK BY DEF Hands
<1>6. ASSUME NEW c \in Clients, Totp!Granted(c), RowsOK PROVE Hands'
  <2>1. token' \in BOOLEAN BY <1>6 DEF Hands, Totp!Granted
  <2>2. HandOK(Totp!Onward(c))
    <3>1. HandOK([Totp!NoCall EXCEPT !.at = "delete", !.kind = "disable", !.todo = Totp!AllKeys])
      BY DEF HandOK, Totp!NoCall, Orders
    <3>2. HandOK([Totp!NoCall EXCEPT !.at = "look", !.kind = "enable",
                      !.todo = <<"totp_backup_codes">>, !.list = Totp!NewCodes(sets + 1)])
      BY DEF HandOK, Totp!NoCall, Orders, LastKey
    <3> QED BY <1>2, <3>1, <3>2 DEF Totp!Onward
  <2>3. ASSUME NEW d \in Clients \ {c} PROVE HandOK(request[d])'
    <3> DEFINE more == request[c].used \intersect (request[d].list \union request[d].used)
    <3>1. request'[d] = [request[d] EXCEPT !.back = @ \union more]
      BY <1>6 DEF Totp!Granted
    <3>2. /\ request'[d].at = request[d].at /\ request'[d].todo = request[d].todo
          /\ request'[d].secret = request[d].secret
      BY <1>1, <3>1 DEF Totp!RequestStates
    <3> QED BY <1>1, <3>2 DEF HandOK
  <2>4. request'[c] = Totp!Onward(c) BY <1>6 DEF Totp!Granted
  <2> QED BY <1>6, <2>1, <2>2, <2>3, <2>4 DEF Hands
\* A row that is written or deleted.
<1>7. ASSUME NEW k \in Totp!Keys, NEW v, config' = [config EXCEPT ![k] = v],
             k = "totp_enabled" => v \in {"true", NoValue},
             k = "totp_secret_raw" => v \in Totp!Sets \union {NoValue}
      PROVE  RowsOK
  BY <1>7 DEF Hands, Types, Totp!Keys
<1>8. ASSUME NEW c \in Clients, NEW k \in Totp!Keys, NEW q \in Totp!RequestStates,
             k = "totp_secret_raw" => q.secret \in Totp!Sets, Totp!update_config(c, k, q)
      PROVE  Hands'
  <2> DEFINE r == [q EXCEPT !.at = "look", !.kind = "set", !.todo = <<k>>,
                       !.back = q.list \intersect spent']
  <2>1. Totp!Becomes(c, r) /\ token' \in BOOLEAN
    BY <1>8 DEF Totp!update_config, Hands
  <2>2. RowsOK
    <3>1. /\ k = "totp_enabled" => Totp!ValueOf(k, q) = "true"
          /\ k = "totp_secret_raw" => Totp!ValueOf(k, q) = q.secret
      BY DEF Totp!ValueOf
    <3> QED BY <1>5, <1>7, <1>8, <3>1 DEF Totp!update_config
  <2>3. r.at = "look" /\ r.todo = <<k>> /\ r.secret = q.secret
    BY DEF Totp!RequestStates
  <2>4. HandOK(r)
    <3>1. k \in {"totp_enabled", "totp_secret_raw", "totp_backup_codes"} BY DEF Totp!Keys
    <3> QED BY <1>8, <2>3, <3>1 DEF HandOK, Orders, LastKey
  <2> QED BY <1>3, <2>1, <2>2, <2>4
<1>9. ASSUME NEW c \in Clients, Totp!Request(c) PROVE Hands'
  <2>1. CASE \/ Totp!login_step_one(c)
             \/ \E kind \in {"disable", "regenerate"} : Totp!auth_middleware(c, kind)
    <3>1. RowsOK /\ token' \in BOOLEAN
      BY <1>5, <2>1 DEF Hands, Totp!login_step_one, Totp!auth_middleware
    <3>2. CASE Totp!End(c) BY <1>4, <3>1, <3>2
    <3>3. ASSUME NEW kind, Totp!Becomes(c, [Totp!NoCall EXCEPT !.at = "code", !.kind = kind])
          PROVE  Hands'
      <4>1. HandOK([Totp!NoCall EXCEPT !.at = "code", !.kind = kind])
        BY DEF HandOK, Totp!NoCall
      <4> QED BY <1>3, <3>1, <3>3, <4>1
    <3> QED BY <2>1, <3>2, <3>3 DEF Totp!login_step_one, Totp!auth_middleware
  <2>2. ASSUME NEW g \in Totp!Sets, NEW list, Totp!enable_totp(c, g, list) PROVE Hands'
    <3> DEFINE r == [Totp!NoCall EXCEPT !.at = "look", !.kind = "enable", !.todo = Totp!AllKeys,
                         !.secret = g, !.list = list, !.back = list \intersect spent]
    <3>1. HandOK(r) BY DEF HandOK, Totp!NoCall, Orders
    <3>2. RowsOK /\ token' \in BOOLEAN BY <1>5, <2>2 DEF Hands, Totp!enable_totp
    <3> QED BY <1>3, <2>2, <3>1, <3>2 DEF Totp!enable_totp
  <2>3. ASSUME Totp!update_config(c, "totp_enabled", Totp!NoCall) PROVE Hands'
    BY <1>8, <2>3, NoCallFits DEF Totp!Keys
  <2>4. ASSUME NEW g \in 1..sets,
               Totp!update_config(c, "totp_secret_raw", [Totp!NoCall EXCEPT !.secret = g])
        PROVE  Hands'
    <3>1. g \in Totp!Sets /\ g \in 0..MaxSets BY DEF Types, Totp!Sets
    <3>2. /\ [Totp!NoCall EXCEPT !.secret = g] \in Totp!RequestStates
          /\ [Totp!NoCall EXCEPT !.secret = g].secret = g
      BY <3>1, NoCallFits DEF Totp!NoCall, Totp!RequestStates
    <3> QED BY <1>8, <2>4, <3>1, <3>2 DEF Totp!Keys
  <2>5. ASSUME NEW list \in Totp!KnownLists,
               Totp!update_config(c, "totp_backup_codes", [Totp!NoCall EXCEPT !.list = list])
        PROVE  Hands'
    <3>1. [Totp!NoCall EXCEPT !.list = list] \in Totp!RequestStates
      BY KnownMade, NoCallFits DEF Totp!NoCall, Totp!RequestStates
    <3> QED BY <1>8, <2>5, <3>1 DEF Totp!Keys
  <2>6. ASSUME NEW k \in Totp!Keys, Totp!delete_config(c, k) PROVE Hands'
    <3>1. RowsOK BY <1>7, <2>6 DEF Totp!delete_config
    <3> QED BY <2>6, <3>1 DEF Totp!delete_config, Hands
  <2> QED BY <1>9, <2>1, <2>2, <2>3, <2>4, <2>5, <2>6 DEF Totp!Request
<1>10. ASSUME NEW c \in Clients, Totp!Verify(c) PROVE Hands'
  <2>1. RowsOK BY <1>5, <1>10 DEF Totp!Verify, Totp!verify_totp_code, Totp!verify_backup_code
  <2>2. token \in BOOLEAN BY DEF Hands
  <2>3. ASSUME NEW b \in Totp!Codes, Totp!verify_backup_code(c, b) PROVE Hands'
    <3> DEFINE r == [request[c] EXCEPT !.at = "look", !.todo = <<"totp_backup_codes">>,
                         !.used = {b}, !.list = Totp!Stored \ {b}]
    <3>1. HandOK(r) BY <1>1 DEF HandOK, Totp!RequestStates, Orders, LastKey
    <3> QED BY <1>3, <1>4, <2>1, <2>2, <2>3, <3>1 DEF Totp!verify_backup_code
  <2>4. ASSUME NEW g \in 0..MaxSets, Totp!verify_totp_code(c, g) PROVE Hands'
    BY <1>4, <1>6, <2>1, <2>2, <2>4 DEF Totp!verify_totp_code
  <2> QED BY <1>10, <2>3, <2>4 DEF Totp!Verify
<1>11. ASSUME NEW c \in Clients, request[c].at \in {"look", "put", "delete"}
      PROVE  /\ request[c].todo \in Orders
             /\ Totp!Key(c) \in Totp!Keys
             /\ request[c].at = "put" /\ Totp!Key(c) = "totp_secret_raw" =>
                   request[c].secret \in Totp!Sets
             /\ request[c].at = "put" /\ Len(request[c].todo) > 1 =>
                   HandOK([request[c] EXCEPT !.at = "look", !.todo = Tail(@), !.there = FALSE])
             /\ request[c].at = "delete" /\ Len(request[c].todo) > 1 =>
                   HandOK([request[c] EXCEPT !.todo = Tail(@)])
  <2>1. request[c].todo \in Orders BY <1>1, <1>11 DEF HandOK
  <2> QED
    BY <1>1, <1>11, <2>1, OrdersFacts DEF HandOK, Totp!Key, Totp!RequestStates
<1>12. ASSUME NEW c \in Clients, Totp!save_totp_config(c) PROVE Hands'
  <2>1. request[c].at = "put" BY <1>12 DEF Totp!save_totp_config, Totp!At
  <2>2. RowsOK
    <3>1. /\ Totp!Key(c) = "totp_enabled" => Totp!Value(c) = "true"
          /\ Totp!Key(c) = "totp_secret_raw" => Totp!Value(c) = request[c].secret
      BY DEF Totp!Value, Totp!ValueOf
    <3>2. CASE config' = config BY <1>5, <3>2
    <3>3. CASE config' = [config EXCEPT ![Totp!Key(c)] = Totp!Value(c)]
      BY <1>7, <1>11, <2>1, <3>1, <3>3
    <3> QED BY <1>12, <3>2, <3>3 DEF Totp!save_totp_config, Totp!Saved
  <2>3. token \in BOOLEAN BY DEF Hands
  <2> QED
    BY <1>3, <1>4, <1>6, <1>11, <1>12, <2>1, <2>2, <2>3 DEF Totp!save_totp_config
<1>13. ASSUME NEW c \in Clients, Totp!delete_totp_config(c) \/ Totp!get_by_key(c) PROVE Hands'
  <2>1. token' = token /\ token \in BOOLEAN
    BY <1>13 DEF Hands, Totp!delete_totp_config, Totp!get_by_key
  <2>2. CASE Totp!delete_totp_config(c)
    <3>1. request[c].at = "delete" BY <2>2 DEF Totp!delete_totp_config, Totp!At
    <3>2. RowsOK BY <1>7, <1>11, <2>2, <3>1 DEF Totp!delete_totp_config
    <3> QED BY <1>3, <1>4, <1>11, <2>1, <2>2, <3>1, <3>2 DEF Totp!delete_totp_config
  <2>3. CASE Totp!get_by_key(c)
    <3> DEFINE r == [request[c] EXCEPT !.at = "put", !.there = config[Totp!Key(c)] # NoValue]
    <3>1. HandOK(r)
      BY <1>1, <2>3 DEF Totp!get_by_key, Totp!At, HandOK, Totp!RequestStates
    <3> QED BY <1>3, <1>4, <1>5, <2>1, <2>3, <3>1 DEF Totp!get_by_key
  <2> QED BY <1>13, <2>2, <2>3
<1>14. ASSUME NEW c \in Clients, Totp!SaveFail(c) \/ Totp!Cut(c) PROVE Hands'
  BY <1>4, <1>5, <1>14 DEF Totp!SaveFail, Totp!Cut, Hands
<1>15. CASE Totp!generate_setup \/ UNCHANGED totpVars
  BY <1>15 DEF totpVars, Hands, Totp!generate_setup
<1> QED
  BY <1>9, <1>10, <1>12, <1>13, <1>14, <1>15 DEF Totp!Next, Totp!Write
HIDE ApiAssumption

\* A backup code that was used comes back only with a list that a client sends, or
\* with a request that had read the list before the removal was saved, however many
\* requests there are and however often codes are generated (verify_code).
THEOREM SpentStays == ApiSpec => []SpentStaySpent
<1>1. ApiInit => Types /\ SpentInv
  BY SpentStart DEF ApiInit
<1>2. [DependencesOnly \/ SubscriptionOnly \/ TotpOnly]_<<vars, subscriptionVars, totpVars>>
         => [Totp!Next]_totpVars
  BY DEF DependencesOnly, SubscriptionOnly, TotpOnly
<1>3. SpentInv => SpentStaySpent
  BY DEF SpentInv, RowsInv, RequestInv, SpentStaySpent, Totp!SpentStaySpent
<1> QED BY <1>1, <1>2, <1>3, SpentStep, PTL DEF ApiSpec
-----------------------------------------------------------------------------
(* SubscriptionRuns.  Calls and runs, and the jobs while they are reloaded. *)

CallRecs == [at : Subscription!Stages, sub : Subs \union {Nobody},
             place : Places \union {Nobody}, job : BOOLEAN]
RunRecs == [at : Subscription!Work \union {"none", "end"}, sub : Subs \union {Nobody},
            place : Places \union {Nobody}]
Works(r, s) == fetch[r].sub = s /\ fetch[r].at \in Subscription!Work
WorksAt(r, p) == fetch[r].place = p /\ fetch[r].at \in Subscription!Work
Spawns(c, s) == call[c].sub = s /\ call[c].at = "spawn"
SpawnsAt(c, p) == call[c].place = p /\ call[c].at = "spawn"
Calls == Subscription!CallNos

\* What a call and a run are about.
CallFits(r) ==
    /\ r.at \in {"remove", "mark", "spawn"} => r.sub \in Subs
    /\ r.at \in {"mark", "spawn"} => r.place \in Places
RunFits(r) == r.at \in Subscription!Work => r.sub \in Subs /\ r.place \in Places

\* Which call and which run is where, and that the lock is held by whom it says.
CallInv ==
    /\ call[0].at \in {"idle", "reload", "drain", "add"}
    /\ \A c \in Calls : CallFits(call[c])
    /\ \A r \in Subscription!Runs : RunFits(fetch[r])
    /\ \A c \in Subscription!Callers : lock = c <=> call[c].at \in {"drain", "add"}

\* Every row names a place, and only files are named by several.
PlaceInv ==
    /\ \A s \in Subs : row[s] # "none" => place[s] \in Places
    /\ \A s, t \in Subs :
          s # t /\ Subscription!Exists(s) /\ Subscription!Exists(t) /\ place[s] = place[t]
          => place[s] \in Files

\* While a reload adds jobs, it has found what it has not added yet, and all rows
\* that are not found any more have theirs, unless it was refused.
ReloadInv ==
    /\ Subscription!OneJobEach
    /\ \A c \in Subscription!Callers : call[c].at = "add" /\ ~dirty =>
          /\ \A s \in found : row[s] = "on" /\ s \notin refused
          /\ \A s \in Subs :
                job_ids[s] = (IF row[s] = "on" /\ s \notin found /\ s \notin refused THEN 1 ELSE 0)

\* Nothing was ever done for a subscription that is still to be created.
UnusedInv ==
    \A s \in Subs : row[s] = "none" =>
        /\ status[s] = "never"
        /\ \A c \in Calls : call[c].sub = s => call[c].at \notin {"remove", "mark", "spawn"}
        /\ \A r \in Subscription!Runs : ~Works(r, s)

\* A run that is left alone is the only one at its place, its subscription says
\* "running" until it reports, and what it reports as good is there.
AloneInv(s) ==
    /\ \A r \in Subscription!Runs : Works(r, s) => fetch[r].place = place[s]
    /\ \A c \in Calls : Spawns(c, s) => call[c].place = place[s]
    /\ Subscription!Busy(s) =>
          /\ status[s] = "running"
          /\ \A q, r \in Subscription!Runs : WorksAt(q, place[s]) /\ WorksAt(r, place[s]) => q = r
          /\ \A c, d \in Calls : SpawnsAt(c, place[s]) /\ SpawnsAt(d, place[s]) => c = d
          /\ \A c \in Calls, r \in Subscription!Runs :
                ~(SpawnsAt(c, place[s]) /\ WorksAt(r, place[s]))
    /\ \A r \in Subscription!Runs :
          Works(r, s) /\ fetch[r].at = "good" => copy[place[s]] = "whole"
    /\ status[s] = "success" => copy[place[s]] = "whole" /\ ~Subscription!BusyAt(place[s])

WholeInv == \A s \in Subs \ upset : Subscription!Exists(s) => AloneInv(s)

RunsInv ==
    /\ Subscription!TypeOK /\ CallInv /\ PlaceInv /\ ReloadInv /\ UnusedInv
    /\ Subscription!RunningIsRun /\ WholeInv

USE ApiAssumption

\* What CallTo, CallEnds, Begins, RunTo and RunEnds write.
LEMMA CallGoes ==
    ASSUME Subscription!TypeOK, NEW c \in Subscription!Callers,
           NEW stage \in Subscription!Stages, Subscription!CallTo(c, stage)
    PROVE  /\ call' \in [Subscription!Callers -> CallRecs]
           /\ call'[c].at = stage /\ call'[c].sub = call[c].sub
           /\ call'[c].place = call[c].place
           /\ \A d \in Subscription!Callers \ {c} : call'[d] = call[d]
<1> DEFINE r == [call[c] EXCEPT !.at = stage]
<1>1. call[c] \in CallRecs BY DEF Subscription!TypeOK, CallRecs
<1>2. /\ r \in CallRecs
      /\ r.at = stage /\ r.sub = call[c].sub /\ r.place = call[c].place
  BY <1>1 DEF CallRecs
<1>3. call' = [call EXCEPT ![c] = r] BY DEF Subscription!CallTo
<1> HIDE DEF r
<1> QED BY <1>2, <1>3 DEF Subscription!TypeOK, CallRecs

LEMMA CallIsOver ==
    ASSUME Subscription!TypeOK, NEW c \in Subscription!Callers, Subscription!CallEnds(c)
    PROVE  /\ call' \in [Subscription!Callers -> CallRecs]
           /\ call'[c].at = (IF c = 0 THEN "idle" ELSE "end")
           /\ \A d \in Subscription!Callers \ {c} : call'[d] = call[d]
<1> DEFINE r == IF c = 0 THEN Subscription!Idle ELSE Subscription!Done
<1>1. r \in CallRecs /\ r.at = (IF c = 0 THEN "idle" ELSE "end")
  BY DEF CallRecs, Subscription!Idle, Subscription!Done, Subscription!Stages
<1>2. call' = [call EXCEPT ![c] = r] BY DEF Subscription!CallEnds, Subscription!Boot
<1> HIDE DEF r
<1> QED BY <1>1, <1>2 DEF Subscription!TypeOK, CallRecs

LEMMA CallBegins ==
    ASSUME Subscription!TypeOK, NEW c \in Subscription!CallNos, NEW r \in CallRecs,
           Subscription!Begins(c, r)
    PROVE  /\ call' \in [Subscription!Callers -> CallRecs]
           /\ call[c].at = "idle" /\ call'[c] = r
           /\ \A d \in Subscription!Callers \ {c} : call'[d] = call[d]
BY DEF Subscription!TypeOK, Subscription!Begins, Subscription!Callers, CallRecs

LEMMA RunGoes ==
    ASSUME Subscription!TypeOK, NEW r \in Subscription!Runs,
           NEW stage \in Subscription!Work, Subscription!RunTo(r, stage)
    PROVE  /\ fetch' \in [Subscription!Runs -> RunRecs]
           /\ fetch'[r].at = stage /\ fetch'[r].sub = fetch[r].sub
           /\ fetch'[r].place = fetch[r].place
           /\ \A q \in Subscription!Runs \ {r} : fetch'[q] = fetch[q]
<1> DEFINE q == [fetch[r] EXCEPT !.at = stage]
<1>1. fetch[r] \in RunRecs BY DEF Subscription!TypeOK, RunRecs
<1>2. /\ q \in RunRecs
      /\ q.at = stage /\ q.sub = fetch[r].sub /\ q.place = fetch[r].place
  BY <1>1 DEF RunRecs
<1>3. fetch' = [fetch EXCEPT ![r] = q] BY DEF Subscription!RunTo
<1> HIDE DEF q
<1> QED BY <1>2, <1>3 DEF Subscription!TypeOK, RunRecs

LEMMA RunStops ==
    ASSUME Subscription!TypeOK, NEW r \in Subscription!Runs, Subscription!RunEnds(r)
    PROVE  /\ fetch' \in [Subscription!Runs -> RunRecs]
           /\ fetch'[r].at = "end"
           /\ \A q \in Subscription!Runs \ {r} : fetch'[q] = fetch[q]
BY DEF Subscription!TypeOK, Subscription!RunEnds, Subscription!NoRun, RunRecs

LEMMA CallerFacts ==
    /\ 0 \in Subscription!Callers /\ Subscription!Callers = Calls \union {0} /\ 0 \notin Calls
    /\ Subscription!Boot = 0
    /\ Nobody \notin Subscription!Callers /\ Nobody \notin Subs /\ Nobody \notin Places
BY DEF Subscription!Callers, Subscription!CallNos, Subscription!Boot, Calls

\* What it is to be busy, in terms of the calls and runs.
LEMMA BusyFacts ==
    /\ \A s : Subscription!Busy(s) <=>
          (\E r \in Subscription!Runs : Works(r, s)) \/ (\E c \in Calls : Spawns(c, s))
    /\ \A p : Subscription!BusyAt(p) <=>
          (\E r \in Subscription!Runs : WorksAt(r, p)) \/ (\E c \in Calls : SpawnsAt(c, p))
BY DEF Subscription!Busy, Subscription!BusyAt, Subscription!CallAt, Works, WorksAt, Spawns,
   SpawnsAt, Calls
LEMMA BusyNext ==
    /\ \A s : Subscription!Busy(s)' <=>
          (\E r \in Subscription!Runs : Works(r, s)') \/ (\E c \in Calls : Spawns(c, s)')
    /\ \A p : Subscription!BusyAt(p)' <=>
          (\E r \in Subscription!Runs : WorksAt(r, p)') \/ (\E c \in Calls : SpawnsAt(c, p)')
BY DEF Subscription!Busy, Subscription!BusyAt, Subscription!CallAt, Works, WorksAt, Spawns,
   SpawnsAt, Calls

\* What a call may do without touching what runs rely on: it starts no run, ends
\* none unnoticed, and is about a row that was there.
Quiet(d) ==
    \/ call'[d] = call[d]
    \/ /\ call'[d].at # "spawn"
       /\ call'[d].at \in {"remove", "mark"} => row'[call'[d].sub] # "none"
       /\ call[d].at = "spawn" => call[d].sub \in cut'

RunFacts == UnusedInv /\ Subscription!RunningIsRun /\ WholeInv

LEMMA QuietCalls ==
    ASSUME Subscription!TypeOK, CallInv, RunFacts,
           status' = status, fetch' = fetch, cut \subseteq cut', upset \subseteq upset',
           \A s \in Subs \ upset' : row'[s] \in {"on", "off"} =>
              row[s] = "none" \/ (place'[s] = place[s] /\ copy'[place[s]] = copy[place[s]]),
           \A s \in Subs : row'[s] = "none" => row[s] = "none",
           \A s \in Subs : row'[s] \in {"on", "off"} => row[s] # "gone",
           \A d \in Calls : Quiet(d)
    PROVE  RunFacts'
<1>1. /\ \A d \in Calls, s \in Subs : Spawns(d, s)' => Spawns(d, s) /\ call'[d] = call[d]
      /\ \A d \in Calls : \A p : SpawnsAt(d, p)' => SpawnsAt(d, p)
  BY DEF Quiet, Spawns, SpawnsAt
<1>2. /\ \A r \in Subscription!Runs, s \in Subs : Works(r, s)' <=> Works(r, s)
      /\ \A r \in Subscription!Runs : \A p : WorksAt(r, p)' <=> WorksAt(r, p)
  BY DEF Works, WorksAt
<1>3. UnusedInv'
  <2> SUFFICES ASSUME NEW s \in Subs, row'[s] = "none"
               PROVE  /\ status'[s] = "never"
                      /\ \A c \in Calls : call'[c].sub = s =>
                            call'[c].at \notin {"remove", "mark", "spawn"}
                      /\ \A r \in Subscription!Runs : ~Works(r, s)'
    BY DEF UnusedInv
  <2> QED BY <1>2 DEF UnusedInv, Quiet, RunFacts
<1>4. Subscription!RunningIsRun'
  <2> SUFFICES ASSUME NEW s \in Subs, status'[s] = "running", s \notin cut',
                      row'[s] \in {"on", "off"}
               PROVE  Subscription!Busy(s)'
    BY DEF Subscription!RunningIsRun, Subscription!Exists
  <2>1. row[s] \in {"on", "off"}
    BY DEF RunFacts, UnusedInv, Subscription!TypeOK
  <2>2. Subscription!Busy(s)
    BY <2>1 DEF RunFacts, Subscription!RunningIsRun, Subscription!Exists
  <2>3. ASSUME NEW d \in Calls, Spawns(d, s) PROVE Spawns(d, s)'
    BY <2>3 DEF Quiet, Spawns
  <2> QED BY <1>2, <2>2, <2>3, BusyFacts, BusyNext
<1>5. WholeInv'
  <2> SUFFICES ASSUME NEW s \in Subs \ upset', row'[s] \in {"on", "off"}
               PROVE  AloneInv(s)'
    BY DEF WholeInv, Subscription!Exists
  <2>1. CASE row[s] = "none"
    <3>1. /\ status[s] = "never"
          /\ \A r \in Subscription!Runs : ~Works(r, s)
          /\ \A d \in Calls : ~Spawns(d, s)
      BY <2>1 DEF RunFacts, UnusedInv, Spawns
    <3>2. ~Subscription!Busy(s)' BY <1>1, <1>2, <3>1, BusyNext
    <3> QED BY <1>1, <1>2, <3>1, <3>2 DEF AloneInv
  <2>2. CASE row[s] # "none"
    <3>1. AloneInv(s)
      BY <2>2 DEF RunFacts, WholeInv, Subscription!Exists, Subscription!TypeOK
    <3>2. place'[s] = place[s] /\ copy'[place[s]] = copy[place[s]] BY <2>2
    <3>3. Subscription!Busy(s)' => Subscription!Busy(s)
      BY <1>1, <1>2, BusyFacts, BusyNext
    <3>4. \A p : Subscription!BusyAt(p)' => Subscription!BusyAt(p)
      BY <1>1, <1>2, BusyFacts, BusyNext
    <3>5. Subscription!BusyAt(place[s])' => Subscription!BusyAt(place[s])
      BY <3>2, <3>4
    <3>6. /\ \A d \in Calls : SpawnsAt(d, place[s])' => SpawnsAt(d, place[s])
          /\ \A r \in Subscription!Runs : WorksAt(r, place[s])' <=> WorksAt(r, place[s])
      BY <1>1, <1>2, <3>2
    <3> QED BY <1>1, <1>2, <3>1, <3>2, <3>3, <3>5, <3>6 DEF AloneInv
  <2> QED BY <2>1, <2>2
<1> QED BY <1>3, <1>4, <1>5 DEF RunFacts

\* A step that leaves the lock and the jobs alone.
LEMMA JobsKept ==
    ASSUME found \subseteq Subs, CallInv, ReloadInv, UNCHANGED Subscription!jobs,
           ~dirty' => ~dirty /\ \A s \in Subs : row'[s] = "on" <=> row[s] = "on",
           \A c \in Subscription!Callers :
              \/ call'[c] = call[c]
              \/ {call[c].at, call'[c].at} \intersect {"drain", "add"} = {},
           call'[0].at \in {"idle", "reload", "drain", "add"},
           \A c \in Calls : CallFits(call'[c]),
           \A r \in Subscription!Runs : RunFits(fetch'[r])
    PROVE  CallInv' /\ ReloadInv'
<1>1. CallInv' BY DEF CallInv, Subscription!jobs
<1>2. Subscription!OneJobEach'
  BY DEF ReloadInv, Subscription!OneJobEach, Subscription!jobs
<1>3. ASSUME NEW c \in Subscription!Callers, call'[c].at = "add", ~dirty'
      PROVE  /\ \A s \in found' : row'[s] = "on" /\ s \notin refused'
             /\ \A s \in Subs :
                   job_ids'[s] = (IF row'[s] = "on" /\ s \notin found' /\ s \notin refused'
                                  THEN 1 ELSE 0)
  <2>1. call'[c] = call[c] BY <1>3
  <2> QED BY <1>3, <2>1 DEF ReloadInv, Subscription!jobs
<1> QED BY <1>1, <1>2, <1>3 DEF ReloadInv

\* Rows that stay, or go, and stay where they are.
LEMMA PlacesKept ==
    ASSUME PlaceInv, place' = place,
           \A s \in Subs : (row'[s] # "none" => row[s] # "none")
                           /\ (row'[s] \in {"on", "off"} => row[s] \in {"on", "off"})
    PROVE  PlaceInv'
BY DEF PlaceInv, Subscription!Exists

\* A step of a run that goes on working: it reports "good" only what is whole.
LEMMA RunGoesOn ==
    ASSUME RunsInv, NEW r \in Subscription!Runs, fetch[r].at \in Subscription!Work,
           NEW stage \in Subscription!Work, Subscription!RunTo(r, stage),
           NEW what \in {"none", "part", "whole"},
           Subscription!Holds(r, what) \/ UNCHANGED copy,
           stage = "good" => copy'[fetch[r].place] = "whole",
           Subscription!Elsewhere
    PROVE  RunsInv'
<1>1. /\ fetch' \in [Subscription!Runs -> RunRecs]
      /\ fetch'[r].at = stage /\ fetch'[r].sub = fetch[r].sub
      /\ fetch'[r].place = fetch[r].place
      /\ \A q \in Subscription!Runs \ {r} : fetch'[q] = fetch[q]
  BY RunGoes DEF RunsInv
<1>2. fetch[r].sub \in Subs /\ fetch[r].place \in Places BY DEF RunsInv, CallInv, RunFits
<1>3. /\ copy' \in [Places -> {"none", "part", "whole"}]
      /\ \A p \in Places \ {fetch[r].place} : copy'[p] = copy[p]
  BY DEF RunsInv, Subscription!TypeOK, Subscription!Holds
<1>4. UNCHANGED <<row, place, status, call, lock, job_ids, live, found, refused, stops, dirty,
                  upset, cut>>
  BY DEF Subscription!Elsewhere, Subscription!table, Subscription!jobs
<1>5. Subscription!TypeOK'
  BY <1>1, <1>3, <1>4 DEF RunsInv, Subscription!TypeOK, RunRecs
<1>6. /\ \A q \in Subscription!Runs : \A s : Works(q, s)' <=> Works(q, s)
      /\ \A q \in Subscription!Runs : \A p : WorksAt(q, p)' <=> WorksAt(q, p)
      /\ \A c \in Calls : \A s : Spawns(c, s)' <=> Spawns(c, s)
      /\ \A c \in Calls : \A p : SpawnsAt(c, p)' <=> SpawnsAt(c, p)
  BY <1>1, <1>4 DEF Works, WorksAt, Spawns, SpawnsAt
<1>7. CallInv' /\ ReloadInv' /\ PlaceInv'
  <2>1. \A q \in Subscription!Runs : RunFits(fetch'[q])
    BY <1>1, <1>2 DEF RunsInv, CallInv, RunFits
  <2>2. PlaceInv' BY <1>4, PlacesKept DEF RunsInv
  <2> QED
    BY <1>4, <2>1, <2>2, JobsKept
    DEF RunsInv, CallInv, Subscription!jobs, Subscription!TypeOK
<1>8. /\ \A s : Subscription!Busy(s)' <=> Subscription!Busy(s)
      /\ \A p : Subscription!BusyAt(p)' <=> Subscription!BusyAt(p)
  BY <1>6, BusyFacts, BusyNext
<1>9. UnusedInv' /\ Subscription!RunningIsRun'
  BY <1>4, <1>6, <1>8
  DEF RunsInv, UnusedInv, Subscription!RunningIsRun, Subscription!Exists
<1>10. WholeInv'
  <2> SUFFICES ASSUME NEW s \in Subs \ upset, Subscription!Exists(s) PROVE AloneInv(s)'
    BY <1>4 DEF WholeInv, Subscription!Exists
  <2> DEFINE p == place[s]
  <2>0. p \in Places BY DEF RunsInv, PlaceInv, Subscription!Exists
  <2>1. AloneInv(s) BY DEF RunsInv, WholeInv
  <2>2. WorksAt(r, fetch[r].place) /\ Works(r, fetch[r].sub) BY DEF WorksAt, Works
  <2>3. p = fetch[r].place => status[s] # "success"
    BY <2>1, <2>2, BusyFacts DEF AloneInv
  <2>4. status'[s] = "success" => copy'[p] = "whole" /\ ~Subscription!BusyAt(p)'
    BY <1>3, <1>4, <1>8, <2>0, <2>1, <2>3 DEF AloneInv
  <2>5. ASSUME NEW q \in Subscription!Runs, Works(q, s)', fetch'[q].at = "good"
        PROVE  copy'[p] = "whole"
    <3>1. Works(q, s) /\ WorksAt(q, p) /\ Subscription!Busy(s)
      BY <1>6, <2>1, <2>5, BusyFacts DEF AloneInv, Works, WorksAt
    <3>2. CASE q = r BY <1>1, <2>5, <3>1, <3>2 DEF WorksAt
    <3>3. CASE q # r
      <4>1. p # fetch[r].place
        BY <2>1, <2>2, <3>1, <3>3 DEF AloneInv
      <4> QED BY <1>1, <1>3, <2>0, <2>1, <2>5, <3>1, <3>3, <4>1 DEF AloneInv
    <3> QED BY <3>2, <3>3
  <2>6. \A q \in Subscription!Runs : Works(q, s)' => fetch'[q].place = p
    BY <1>1, <1>6, <2>1 DEF AloneInv
  <2>7. place'[s] = p BY <1>4
  <2>8. Subscription!BusyAt(place[s])' <=> Subscription!BusyAt(p)' BY <2>7
  <2>9. /\ \A q \in Subscription!Runs : WorksAt(q, place[s])' <=> WorksAt(q, p)
        /\ \A c \in Calls : SpawnsAt(c, place[s])' <=> SpawnsAt(c, p)
    BY <1>6, <2>7
  <2> QED BY <1>4, <1>6, <1>8, <2>1, <2>4, <2>5, <2>6, <2>7, <2>8, <2>9 DEF AloneInv
<1> QED BY <1>5, <1>7, <1>9, <1>10 DEF RunsInv

\* A run that ends, with or without its report.
LEMMA RunIsOver ==
    ASSUME RunsInv, NEW r \in Subscription!Runs,
           Subscription!update_status(r) \/ Subscription!ReportFail(r)
    PROVE  RunsInv'
<1> DEFINE t == fetch[r].sub
<1>0. fetch[r].at \in {"good", "bad"} /\ fetch[r].at \in Subscription!Work
  BY DEF Subscription!update_status, Subscription!ReportFail, Subscription!Work
<1>1. /\ fetch' \in [Subscription!Runs -> RunRecs] /\ fetch'[r].at = "end"
      /\ \A q \in Subscription!Runs \ {r} : fetch'[q] = fetch[q]
  BY RunStops DEF RunsInv, Subscription!update_status, Subscription!ReportFail
<1>2. t \in Subs /\ Works(r, t) /\ WorksAt(r, fetch[r].place)
  BY <1>0 DEF RunsInv, CallInv, RunFits, Works, WorksAt
<1>3. UNCHANGED <<row, place, call, lock, job_ids, live, found, refused, copy, stops, dirty,
                  upset>>
  BY DEF Subscription!update_status, Subscription!ReportFail, Subscription!table,
     Subscription!jobs
<1>4. /\ cut \subseteq cut' /\ cut' \subseteq Subs
      /\ status' \in [Subs -> {"never", "running", "success", "failed"}]
      /\ \A s \in Subs \ {t} : status'[s] = status[s]
      /\ Subscription!Exists(t) => t \in cut' \/ status'[t] \in {"success", "failed"}
      /\ ~Subscription!Exists(t) => status' = status
      /\ status'[t] = "success" => status[t] = "success" \/ fetch[r].at = "good"
  BY <1>2 DEF RunsInv, Subscription!TypeOK, Subscription!update_status,
     Subscription!ReportFail, Subscription!RunAt, Subscription!table
<1>5. Subscription!TypeOK'
  BY <1>1, <1>3, <1>4 DEF RunsInv, Subscription!TypeOK, RunRecs
<1>6. CallInv' /\ ReloadInv' /\ PlaceInv'
  <2>1. \A q \in Subscription!Runs : RunFits(fetch'[q])
    BY <1>1 DEF RunsInv, CallInv, RunFits, Subscription!Work
  <2>2. PlaceInv' BY <1>3, PlacesKept DEF RunsInv
  <2> QED
    BY <1>3, <2>1, <2>2, JobsKept DEF RunsInv, CallInv, Subscription!TypeOK, Subscription!jobs
<1>7. /\ \A q \in Subscription!Runs : \A s : Works(q, s)' <=> Works(q, s) /\ q # r
      /\ \A q \in Subscription!Runs : \A p : WorksAt(q, p)' <=> WorksAt(q, p) /\ q # r
      /\ \A c \in Calls : \A s : Spawns(c, s)' <=> Spawns(c, s)
      /\ \A c \in Calls : \A p : SpawnsAt(c, p)' <=> SpawnsAt(c, p)
  BY <1>1, <1>3 DEF Works, WorksAt, Spawns, SpawnsAt, Subscription!Work
<1>8. /\ \A s \in Subs \ {t} : Subscription!Busy(s)' <=> Subscription!Busy(s)
      /\ \A p : Subscription!BusyAt(p)' => Subscription!BusyAt(p)
  <2>1. \A q \in Subscription!Runs, s \in Subs \ {t} : Works(q, s)' <=> Works(q, s)
    BY <1>7 DEF Works
  <2> QED BY <1>7, <2>1, BusyFacts, BusyNext
<1>9. UnusedInv'
  <2>1. row[t] # "none" BY <1>2 DEF RunsInv, UnusedInv
  <2> QED BY <1>3, <1>4, <1>7, <2>1 DEF RunsInv, UnusedInv
<1>10. Subscription!RunningIsRun'
  BY <1>3, <1>4, <1>8 DEF RunsInv, Subscription!RunningIsRun, Subscription!Exists
<1>11. WholeInv'
  <2> SUFFICES ASSUME NEW s \in Subs \ upset, Subscription!Exists(s) PROVE AloneInv(s)'
    BY <1>3 DEF WholeInv, Subscription!Exists
  <2> DEFINE p == place[s]
  <2>1. AloneInv(s) BY DEF RunsInv, WholeInv
  <2>2. place'[s] = p BY <1>3
  <2>3. s = t => /\ p = fetch[r].place /\ status[s] = "running"
                 /\ \A q \in Subscription!Runs : WorksAt(q, p) => q = r
                 /\ \A c \in Calls : ~SpawnsAt(c, p)
    BY <1>2, <2>1, BusyFacts DEF AloneInv
  <2>4. s = t => ~Subscription!Busy(s)' /\ ~Subscription!BusyAt(p)'
    <3>1. \A q \in Subscription!Runs : Works(q, s) => WorksAt(q, p)
      BY <2>1 DEF AloneInv, Works, WorksAt
    <3>2. \A c \in Calls : Spawns(c, s) => SpawnsAt(c, p)
      BY <2>1 DEF AloneInv, Spawns, SpawnsAt
    <3>3. s = t => \A q \in Subscription!Runs : ~Works(q, s)' BY <1>7, <2>3, <3>1
    <3>4. s = t => \A c \in Calls : ~Spawns(c, s)' BY <1>7, <2>3, <3>2
    <3>5. s = t => \A q \in Subscription!Runs : ~WorksAt(q, p)' BY <1>7, <2>2, <2>3
    <3>6. s = t => \A c \in Calls : ~SpawnsAt(c, p)' BY <1>7, <2>2, <2>3
    <3>7. s = t => ~Subscription!Busy(s)' BY <3>3, <3>4, BusyNext
    <3>8. s = t => ~Subscription!BusyAt(p)' BY <3>5, <3>6, BusyNext
    <3> QED BY <3>7, <3>8
  <2>5. status'[s] = "success" => copy'[p] = "whole" /\ ~Subscription!BusyAt(p)'
    <3>1. CASE s = t
      <4>1. status'[s] = "success" => fetch[r].at = "good" BY <1>4, <2>3, <3>1
      <4> QED BY <1>2, <1>3, <2>1, <2>4, <3>1, <4>1 DEF AloneInv
    <3>2. CASE s # t BY <1>3, <1>4, <1>8, <2>1, <3>2 DEF AloneInv
    <3> QED BY <3>1, <3>2
  <2>6. Subscription!Busy(s)' => status'[s] = "running" /\ Subscription!Busy(s)
    BY <1>4, <1>8, <2>1, <2>4 DEF AloneInv
  <2>7. \A q \in Subscription!Runs : Works(q, s)' =>
           fetch'[q].place = p /\ (fetch'[q].at = "good" => copy'[p] = "whole")
    BY <1>1, <1>3, <1>7, <2>1 DEF AloneInv
  <2>8. Subscription!BusyAt(place[s])' <=> Subscription!BusyAt(p)' BY <2>2
  <2>9. /\ \A q \in Subscription!Runs : WorksAt(q, place[s])' => WorksAt(q, p)
        /\ \A c \in Calls : SpawnsAt(c, place[s])' <=> SpawnsAt(c, p)
    BY <1>7, <2>2
  <2> QED BY <1>3, <1>7, <2>1, <2>2, <2>5, <2>6, <2>7, <2>8, <2>9 DEF AloneInv
<1> QED BY <1>5, <1>6, <1>9, <1>10, <1>11 DEF RunsInv

\* The step that hands a call over to a new run of its subscription.
LEMMA RunBegins ==
    ASSUME RunsInv, NEW c \in Subscription!Callers, NEW r \in Subscription!Runs,
           Subscription!Spawn(c, r)
    PROVE  RunsInv'
<1> DEFINE t == call[c].sub  p == call[c].place
<1>0. c \in Calls /\ Spawns(c, t) /\ SpawnsAt(c, p) /\ t \in Subs /\ p \in Places
  BY CallerFacts
  DEF RunsInv, CallInv, CallFits, Spawns, SpawnsAt, Subscription!Spawn, Subscription!CallAt
<1>1. /\ call' \in [Subscription!Callers -> CallRecs] /\ call'[c].at = "end"
      /\ \A d \in Subscription!Callers \ {c} : call'[d] = call[d]
  BY <1>0, CallIsOver, CallerFacts DEF RunsInv, Subscription!Spawn
<1>2. /\ fetch' \in [Subscription!Runs -> RunRecs] /\ fetch[r].at = "none"
      /\ fetch'[r].at = "start" /\ fetch'[r].sub = t /\ fetch'[r].place = p
      /\ \A q \in Subscription!Runs \ {r} : fetch'[q] = fetch[q]
  BY <1>0 DEF RunsInv, Subscription!TypeOK, Subscription!Spawn, Subscription!Work, RunRecs
<1>3. UNCHANGED <<row, place, status, lock, job_ids, live, found, refused, copy, stops, dirty,
                  upset, cut>>
  BY DEF Subscription!Spawn, Subscription!table, Subscription!jobs
<1>4. Subscription!TypeOK'
  BY <1>1, <1>2, <1>3 DEF RunsInv, Subscription!TypeOK, CallRecs, RunRecs
<1>5. CallInv' /\ ReloadInv' /\ PlaceInv'
  <2>1. \A q \in Subscription!Runs : RunFits(fetch'[q])
    BY <1>0, <1>2 DEF RunsInv, CallInv, RunFits
  <2>2. \A d \in Subscription!Callers :
           \/ call'[d] = call[d]
           \/ {call[d].at, call'[d].at} \intersect {"drain", "add"} = {}
    BY <1>0, <1>1 DEF Spawns
  <2>3. /\ call'[0].at \in {"idle", "reload", "drain", "add"}
        /\ \A d \in Calls : CallFits(call'[d])
    BY <1>0, <1>1, CallerFacts DEF RunsInv, CallInv, CallFits
  <2>4. PlaceInv' BY <1>3, PlacesKept DEF RunsInv
  <2> QED
    BY <1>3, <2>1, <2>2, <2>3, <2>4, JobsKept DEF RunsInv, Subscription!TypeOK, Subscription!jobs
<1>6. /\ \A q \in Subscription!Runs : \A s : Works(q, s)' <=> Works(q, s) \/ (q = r /\ s = t)
      /\ \A q \in Subscription!Runs : \A x : WorksAt(q, x)' <=> WorksAt(q, x) \/ (q = r /\ x = p)
      /\ \A d \in Calls : \A s : Spawns(d, s)' <=> Spawns(d, s) /\ d # c
      /\ \A d \in Calls : \A x : SpawnsAt(d, x)' <=> SpawnsAt(d, x) /\ d # c
  BY <1>0, <1>1, <1>2, CallerFacts DEF Works, WorksAt, Spawns, SpawnsAt, Subscription!Work
<1>7. /\ \A s : Subscription!Busy(s)' <=> Subscription!Busy(s)
      /\ \A x : Subscription!BusyAt(x)' <=> Subscription!BusyAt(x)
  <2>1. \A s : Spawns(c, s) => s = t BY DEF Spawns
  <2>2. \A x : SpawnsAt(c, x) => x = p BY DEF SpawnsAt
  <2> QED BY <1>0, <1>6, <2>1, <2>2, BusyFacts, BusyNext
<1>8. UnusedInv'
  <2>1. row[t] # "none" BY <1>0 DEF RunsInv, UnusedInv, Spawns
  <2>2. \A d \in Calls : call'[d] = call[d] \/ call'[d].at = "end" BY <1>1, CallerFacts
  <2> QED BY <1>3, <1>6, <2>1, <2>2 DEF RunsInv, UnusedInv
<1>9. Subscription!RunningIsRun'
  BY <1>3, <1>7 DEF RunsInv, Subscription!RunningIsRun, Subscription!Exists
<1>10. WholeInv'
  <2> SUFFICES ASSUME NEW s \in Subs \ upset, Subscription!Exists(s) PROVE AloneInv(s)'
    BY <1>3 DEF WholeInv, Subscription!Exists
  <2> DEFINE x == place[s]
  <2>1. AloneInv(s) BY DEF RunsInv, WholeInv
  <2>2. place'[s] = x BY <1>3
  <2>3. s = t => p = x BY <1>0, <2>1 DEF AloneInv
  <2>4. Subscription!Busy(s) /\ p = x => /\ \A q \in Subscription!Runs : ~WorksAt(q, x)
                                        /\ \A d \in Calls : SpawnsAt(d, x) => d = c
    BY <1>0, <2>1 DEF AloneInv
  <2>5. \A q \in Subscription!Runs : Works(q, s)' => fetch'[q].place = x
    <3>1. ~Works(r, s) BY <1>2 DEF Works, Subscription!Work
    <3> QED BY <1>2, <1>6, <2>1, <2>3, <3>1 DEF AloneInv
  <2>6. \A q \in Subscription!Runs : Works(q, s)' /\ fetch'[q].at = "good" => copy'[x] = "whole"
    BY <1>2, <1>3, <1>6, <2>1 DEF AloneInv
  <2>7. \A d \in Calls : Spawns(d, s)' => call'[d].place = x
    BY <1>1, <1>6, <2>1, CallerFacts DEF AloneInv
  <2>8. Subscription!Busy(s) =>
          /\ \A q, m \in Subscription!Runs : WorksAt(q, x)' /\ WorksAt(m, x)' => q = m
          /\ \A d, e \in Calls : SpawnsAt(d, x)' /\ SpawnsAt(e, x)' => d = e
          /\ \A d \in Calls, q \in Subscription!Runs : ~(SpawnsAt(d, x)' /\ WorksAt(q, x)')
    <3>1. \A q \in Subscription!Runs : WorksAt(q, x)' => WorksAt(q, x) \/ (q = r /\ x = p)
      BY <1>6, <2>2
    <3>2. \A d \in Calls : SpawnsAt(d, x)' => SpawnsAt(d, x) /\ d # c BY <1>6, <2>2
    <3> QED BY <2>1, <2>4, <3>1, <3>2 DEF AloneInv
  <2>9. Subscription!BusyAt(place[s])' <=> Subscription!BusyAt(x)' BY <2>2
  <2>10. /\ \A q \in Subscription!Runs : WorksAt(q, place[s])' <=> WorksAt(q, x)'
         /\ \A d \in Calls : SpawnsAt(d, place[s])' <=> SpawnsAt(d, x)'
    BY <2>2
  <2> QED BY <1>3, <1>7, <2>1, <2>2, <2>5, <2>6, <2>7, <2>8, <2>9, <2>10 DEF AloneInv
<1> QED BY <1>4, <1>5, <1>8, <1>9, <1>10 DEF RunsInv


\* The step that reports that a run is about to begin.
LEMMA RunIsMarked ==
    ASSUME RunsInv, NEW c \in Subscription!Callers, Subscription!update_run_status(c)
    PROVE  RunsInv'
<1>a. PICK t, p : t = call[c].sub /\ p = call[c].place OBVIOUS
<1>0. c \in Calls /\ t \in Subs /\ p \in Places /\ call[c].at = "mark" /\ row[t] # "none"
  BY <1>a, CallerFacts DEF RunsInv, CallInv, CallFits, UnusedInv,
     Subscription!update_run_status, Subscription!CallAt
<1>1. /\ call' \in [Subscription!Callers -> CallRecs]
      /\ call'[c].at = "spawn" /\ call'[c].sub = t /\ call'[c].place = p
      /\ \A d \in Subscription!Callers \ {c} : call'[d] = call[d]
  <2>1. "spawn" \in Subscription!Stages BY DEF Subscription!Stages
  <2> QED BY <1>a, <2>1, CallGoes DEF RunsInv, Subscription!update_run_status
<1>2. UNCHANGED <<row, place, lock, job_ids, live, found, refused, fetch, copy, stops, dirty>>
  BY DEF Subscription!update_run_status, Subscription!disk, Subscription!jobs
<1>3. /\ status' \in [Subs -> {"never", "running", "success", "failed"}]
      /\ \A s \in Subs \ {t} : status'[s] = status[s]
      /\ Subscription!Exists(t) => status'[t] = "running"
      /\ \A s \in Subs \ {t} : s \in cut' <=> s \in cut
      /\ \A s \in Subs \ {t} : s \notin upset' => s \notin upset /\ place[s] # p
      /\ t \notin upset' => /\ ~Subscription!Busy(t) /\ ~Subscription!BusyAt(p)
                            /\ place[t] = p
      /\ upset' \subseteq Subs /\ cut' \subseteq Subs
  BY <1>a, <1>0 DEF RunsInv, Subscription!TypeOK, Subscription!update_run_status
<1>4. Subscription!TypeOK'
  BY <1>1, <1>2, <1>3 DEF RunsInv, Subscription!TypeOK, CallRecs
<1>5. CallInv' /\ ReloadInv' /\ PlaceInv'
  <2>1. \A d \in Subscription!Callers :
           \/ call'[d] = call[d]
           \/ {call[d].at, call'[d].at} \intersect {"drain", "add"} = {}
    BY <1>0, <1>1
  <2>2. /\ call'[0].at \in {"idle", "reload", "drain", "add"}
        /\ \A d \in Calls : CallFits(call'[d])
    BY <1>0, <1>1, CallerFacts DEF RunsInv, CallInv, CallFits
  <2>3. \A q \in Subscription!Runs : RunFits(fetch'[q])
    BY <1>2 DEF RunsInv, CallInv
  <2>4. PlaceInv' BY <1>2, PlacesKept DEF RunsInv
  <2> QED
    BY <1>2, <2>1, <2>2, <2>3, <2>4, JobsKept DEF RunsInv, Subscription!TypeOK, Subscription!jobs
<1>6. /\ \A q \in Subscription!Runs : \A s : Works(q, s)' <=> Works(q, s)
      /\ \A q \in Subscription!Runs : \A x : WorksAt(q, x)' <=> WorksAt(q, x)
      /\ \A d \in Calls : \A s : Spawns(d, s)' <=> Spawns(d, s) \/ (d = c /\ s = t)
      /\ \A d \in Calls : \A x : SpawnsAt(d, x)' <=> SpawnsAt(d, x) \/ (d = c /\ x = p)
  BY <1>0, <1>1, <1>2, CallerFacts DEF Works, WorksAt, Spawns, SpawnsAt
<1>7. /\ \A s : s # t => (Subscription!Busy(s)' <=> Subscription!Busy(s))
      /\ \A x : x # p => (Subscription!BusyAt(x)' <=> Subscription!BusyAt(x))
      /\ \A s : s = t => Subscription!Busy(s)'
  BY <1>0, <1>6, BusyFacts, BusyNext
<1>8. UnusedInv'
  <2>1. \A d \in Calls : call'[d] = call[d] \/ (d = c /\ call'[d].sub = t)
    BY <1>1, CallerFacts
  <2> QED BY <1>0, <1>2, <1>3, <1>6, <2>1 DEF RunsInv, UnusedInv
<1>9. Subscription!RunningIsRun'
  <2> SUFFICES ASSUME NEW s \in Subs, status'[s] = "running", s \notin cut',
                      Subscription!Exists(s)'
               PROVE  Subscription!Busy(s)'
    BY DEF Subscription!RunningIsRun
  <2>1. CASE s = t BY <1>7, <2>1
  <2>2. CASE s # t
    <3>1. status[s] = "running" /\ s \notin cut /\ Subscription!Exists(s)
      BY <1>2, <1>3, <2>2 DEF Subscription!Exists
    <3>2. Subscription!Busy(s) BY <3>1 DEF RunsInv, Subscription!RunningIsRun
    <3> QED BY <1>7, <2>2, <3>2
  <2> QED BY <2>1, <2>2
<1>10. WholeInv'
  <2> SUFFICES ASSUME NEW s \in Subs \ upset', Subscription!Exists(s) PROVE AloneInv(s)'
    BY <1>2 DEF WholeInv, Subscription!Exists
  <2>0. PICK x : x = place[s] /\ x = place'[s] BY <1>2
  <2>1. CASE s = t
    <3>1. x = p /\ ~Subscription!Busy(s) /\ ~Subscription!BusyAt(x) BY <1>3, <2>0, <2>1
    <3>2. /\ \A q \in Subscription!Runs : ~Works(q, s)' /\ ~WorksAt(q, x)'
          /\ \A d \in Calls : Spawns(d, s)' => d = c
          /\ \A d \in Calls : SpawnsAt(d, x)' => d = c
      BY <1>6, <3>1, BusyFacts
    <3>3. \A d \in Calls : Spawns(d, s)' => call'[d].place = x BY <1>1, <3>1, <3>2
    <3>4. status'[s] = "running" BY <1>3, <2>1
    <3> QED BY <2>0, <3>2, <3>3, <3>4 DEF AloneInv
  <2>2. CASE s # t
    <3>1. AloneInv(s) /\ x # p BY <1>2, <1>3, <2>0, <2>2 DEF RunsInv, WholeInv
    <3>2. /\ \A q \in Subscription!Runs : Works(q, s)' <=> Works(q, s)
          /\ \A q \in Subscription!Runs : WorksAt(q, x)' <=> WorksAt(q, x)
          /\ \A d \in Calls : Spawns(d, s)' <=> Spawns(d, s) /\ d # c
          /\ \A d \in Calls : SpawnsAt(d, x)' <=> SpawnsAt(d, x)
          /\ Subscription!Busy(s)' <=> Subscription!Busy(s)
          /\ Subscription!BusyAt(x)' <=> Subscription!BusyAt(x)
      BY <1>0, <1>6, <1>7, <2>2, <3>1 DEF Spawns
    <3>3. \A d \in Calls : Spawns(d, s)' => call'[d].place = x
      BY <1>1, <2>0, <3>1, <3>2, CallerFacts DEF AloneInv
    <3> QED BY <1>2, <1>3, <2>0, <2>2, <3>1, <3>2, <3>3 DEF AloneInv
  <2> QED BY <2>1, <2>2
<1> QED BY <1>4, <1>5, <1>8, <1>9, <1>10 DEF RunsInv

\* What a row is made to say: no name that another row has.
LEMMA PlacesSaid ==
    ASSUME PlaceInv, Subscription!TypeOK, NEW s \in Subs, NEW on \in {"on", "off"},
           NEW p \in Places, Subscription!Says(s, on, p)
    PROVE  PlaceInv'
<1>1. /\ row'[s] = on /\ place'[s] = p
      /\ \A u \in Subs \ {s} : row'[u] = row[u] /\ place'[u] = place[u]
      /\ p \in Files \/ \A u \in Subs \ {s} : Subscription!Exists(u) => place[u] # p
  BY DEF Subscription!Says, Subscription!TypeOK
<1>2. \A u \in Subs \ {s} : Subscription!Exists(u)' <=> Subscription!Exists(u)
  BY <1>1 DEF Subscription!Exists
<1> QED BY <1>1, <1>2 DEF PlaceInv

\* A call that begins: a change of a row, a deletion, or a run.
LEMMA CallIsMade ==
    ASSUME RunsInv, NEW c \in Subscription!CallNos, NEW s \in Subs,
           \/ Subscription!create(c, s) \/ Subscription!update(c, s)
           \/ Subscription!delete(c, s) \/ Subscription!run(c, s)
    PROVE  RunsInv'
<1>0. c \in Calls BY DEF Calls
<1>1. PICK r \in CallRecs :
         /\ Subscription!Begins(c, r) /\ r.at \in {"reload", "remove", "mark"}
         /\ CallFits(r)
         /\ r.at \in {"remove", "mark"} => row'[r.sub] # "none"
  <2>0. /\ Subscription!Idle \in CallRecs
        /\ \A stage \in Subscription!Stages, u \in Subs :
              [Subscription!Idle EXCEPT !.at = stage, !.sub = u] \in CallRecs
        /\ {"reload", "remove", "mark"} \subseteq Subscription!Stages
    BY DEF Subscription!Idle, Subscription!Stages, CallRecs
  <2>1. CASE Subscription!create(c, s) \/ Subscription!update(c, s)
    <3>1. Subscription!Begins(c, [Subscription!Idle EXCEPT !.at = "reload"])
      BY <2>1 DEF Subscription!create, Subscription!update
    <3>2. [Subscription!Idle EXCEPT !.at = "reload"] \in CallRecs
      BY <2>0 DEF CallRecs
    <3> QED BY <3>1, <3>2 DEF Subscription!Idle, CallFits
  <2>2. CASE Subscription!delete(c, s)
    <3>1. /\ Subscription!Begins(c, [Subscription!Idle EXCEPT !.at = "remove", !.sub = s])
          /\ row'[s] # "none"
      BY <2>2 DEF Subscription!delete, Subscription!Exists, Subscription!table
    <3> QED BY <2>0, <3>1 DEF Subscription!Idle, CallFits
  <2>3. CASE Subscription!run(c, s)
    <3>1. PICK job \in BOOLEAN :
             Subscription!Begins(c, [at |-> "mark", sub |-> s, place |-> place[s], job |-> job])
      BY <2>3 DEF Subscription!run
    <3>2. row'[s] # "none" /\ place[s] \in Places
      BY <2>3 DEF Subscription!run, Subscription!Exists, Subscription!table, RunsInv, PlaceInv
    <3>3. PICK m \in CallRecs : m = [at |-> "mark", sub |-> s, place |-> place[s], job |-> job]
      BY <2>0, <3>2 DEF CallRecs
    <3>4. m.at = "mark" /\ m.sub = s /\ m.place = place[s] BY <3>3
    <3>5. CallFits(m) BY <3>2, <3>4 DEF CallFits
    <3> QED BY <3>1, <3>2, <3>3, <3>4, <3>5
  <2> QED BY <2>1, <2>2, <2>3
<1>2. /\ call' \in [Subscription!Callers -> CallRecs]
      /\ call[c].at = "idle" /\ call'[c] = r
      /\ \A d \in Subscription!Callers \ {c} : call'[d] = call[d]
  BY <1>1, CallBegins DEF RunsInv
<1>3. UNCHANGED <<status, lock, job_ids, live, found, refused, fetch, stops, cut>>
  BY DEF Subscription!create, Subscription!update, Subscription!delete, Subscription!run,
     Subscription!disk, Subscription!jobs, Subscription!table
<1>4. /\ \/ \E on \in {"on", "off"}, p \in Places : Subscription!Says(s, on, p) /\ copy' = copy
            /\ (row[s] # "none" /\ place[s] # p => s \in upset')
            /\ row[s] # "gone" /\ dirty' = TRUE
         \/ row' = row /\ place' = place /\ dirty' = dirty
      /\ upset \subseteq upset' /\ upset' \subseteq Subs
      /\ copy' # copy => /\ row' = row /\ place' = place /\ s \in upset'
                         /\ Subscription!Exists(s) /\ place[s] \notin Files
                         /\ copy' = [copy EXCEPT ![place[s]] = "none"]
  <2> USE DEF RunsInv, Subscription!TypeOK, Subscription!table, Subscription!disk
  <2>1. CASE Subscription!create(c, s) BY <2>1 DEF Subscription!create
  <2>2. CASE Subscription!update(c, s)
    BY <2>2 DEF Subscription!update, Subscription!Exists
  <2>3. CASE Subscription!delete(c, s) BY <2>3 DEF Subscription!delete
  <2>4. CASE Subscription!run(c, s) BY <2>4 DEF Subscription!run
  <2> QED BY <2>1, <2>2, <2>3, <2>4
<1>5. /\ row' \in [Subs -> {"none", "on", "off", "gone"}]
      /\ place' \in [Subs -> Places \union {Nobody}]
      /\ \A u \in Subs : row'[u] = "none" => row[u] = "none"
      /\ \A u \in Subs : row'[u] \in {"on", "off"} => row[u] # "gone"
      /\ dirty' \in BOOLEAN
      /\ ~dirty' => ~dirty /\ row' = row
      /\ \A u \in Subs \ upset' : row[u] = "none" \/ place'[u] = place[u]
  <2> USE DEF RunsInv, Subscription!TypeOK
  <2>1. CASE row' = row /\ place' = place /\ dirty' = dirty BY <2>1
  <2>2. ASSUME NEW on \in {"on", "off"}, NEW p \in Places, Subscription!Says(s, on, p),
               row[s] # "none" /\ place[s] # p => s \in upset', row[s] # "gone", dirty' = TRUE
        PROVE  <1>5!:
    <3>1. row' = [row EXCEPT ![s] = on] /\ place' = [place EXCEPT ![s] = p]
      BY <2>2 DEF Subscription!Says
    <3> QED BY <2>2, <3>1
  <2> QED BY <1>4, <2>1, <2>2
<1>6. /\ copy' \in [Places -> {"none", "part", "whole"}]
      /\ \A u \in Subs \ upset' : row'[u] \in {"on", "off"} =>
            row[u] = "none" \/ copy'[place[u]] = copy[place[u]]
  <2>1. CASE copy' = copy BY <2>1 DEF RunsInv, Subscription!TypeOK
  <2>2. CASE copy' # copy
    <3>1. \A u \in Subs \ {s} : Subscription!Exists(u) => place[u] # place[s]
      BY <1>4, <2>2 DEF RunsInv, PlaceInv
    <3>2. \A u \in Subs \ upset' : row'[u] \in {"on", "off"} => u # s /\ Subscription!Exists(u)
      BY <1>4, <2>2 DEF Subscription!Exists
    <3> QED
      BY <1>4, <2>2, <3>1, <3>2 DEF RunsInv, Subscription!TypeOK, PlaceInv, Subscription!Exists
  <2> QED BY <2>1, <2>2
<1>7. Subscription!TypeOK'
  BY <1>2, <1>3, <1>4, <1>5, <1>6 DEF RunsInv, Subscription!TypeOK, CallRecs
<1>8. CallInv' /\ ReloadInv'
  <2>1. \A d \in Subscription!Callers :
           \/ call'[d] = call[d]
           \/ {call[d].at, call'[d].at} \intersect {"drain", "add"} = {}
    BY <1>1, <1>2
  <2>2. /\ call'[0].at \in {"idle", "reload", "drain", "add"}
        /\ \A d \in Calls : CallFits(call'[d])
    BY <1>0, <1>1, <1>2, CallerFacts DEF RunsInv, CallInv
  <2>3. \A q \in Subscription!Runs : RunFits(fetch'[q]) BY <1>3 DEF RunsInv, CallInv
  <2> QED
    BY <1>3, <1>5, <2>1, <2>2, <2>3, JobsKept DEF RunsInv, Subscription!TypeOK, Subscription!jobs
<1>9. PlaceInv' BY <1>4, PlacesSaid, PlacesKept DEF RunsInv
<1>10. \A d \in Calls : Quiet(d)
  BY <1>0, <1>1, <1>2, CallerFacts DEF Quiet
<1>11. RunFacts'
  BY <1>3, <1>4, <1>5, <1>6, <1>10, QuietCalls DEF RunsInv, RunFacts
<1> QED BY <1>7, <1>8, <1>9, <1>11 DEF RunsInv, RunFacts

\* A step of a call between its begin and its end that has nothing to do with jobs.
LEMMA CallGoesOn ==
    ASSUME RunsInv, NEW c \in Subscription!Callers,
           \/ Subscription!DeleteRow(c)
           \/ Subscription!Disconnect(c) /\ lock # c
    PROVE  RunsInv'
<1>1. /\ Subscription!CallTo(c, "reload") \/ Subscription!CallEnds(c)
      /\ c \in Calls /\ c # 0 /\ call[c].at \notin {"drain", "add"}
  BY CallerFacts DEF Subscription!DeleteRow, Subscription!Disconnect, Subscription!CallAt,
     RunsInv, CallInv
<1>2. /\ call' \in [Subscription!Callers -> CallRecs]
      /\ call'[c].at \in {"reload", "end"}
      /\ \A d \in Subscription!Callers \ {c} : call'[d] = call[d]
  <2>1. "reload" \in Subscription!Stages BY DEF Subscription!Stages
  <2> QED BY <1>1, <2>1, CallGoes, CallIsOver DEF RunsInv
<1>3. UNCHANGED <<place, status, lock, job_ids, live, found, refused, fetch, copy, stops, upset>>
  BY DEF Subscription!DeleteRow, Subscription!Disconnect, Subscription!disk,
     Subscription!jobs, Subscription!table
<1>4. /\ call[c].at = "spawn" => call[c].sub \in cut'
      /\ cut \subseteq cut' /\ cut' \subseteq Subs
  BY <1>1, CallerFacts DEF Subscription!DeleteRow, Subscription!Disconnect,
     Subscription!CallAt, RunsInv, CallInv, CallFits, Subscription!TypeOK
<1>5. /\ row' \in [Subs -> {"none", "on", "off", "gone"}]
      /\ \A u \in Subs : (row'[u] = "none" <=> row[u] = "none")
                         /\ (row'[u] \in {"on", "off"} => row[u] = row'[u])
      /\ dirty' \in BOOLEAN
      /\ ~dirty' => ~dirty /\ \A u \in Subs : row'[u] = "on" <=> row[u] = "on"
  <2>1. CASE Subscription!DeleteRow(c)
    <3>1. call[c].sub \in Subs /\ row[call[c].sub] # "none"
      BY <1>1, <2>1 DEF RunsInv, CallInv, CallFits, UnusedInv, Subscription!DeleteRow,
         Subscription!CallAt
    <3> QED
      BY <2>1, <3>1 DEF Subscription!DeleteRow, RunsInv, Subscription!TypeOK,
         Subscription!Exists
  <2>2. CASE Subscription!Disconnect(c) /\ lock # c
    BY <2>2 DEF Subscription!Disconnect, RunsInv, Subscription!TypeOK, Subscription!table
  <2> QED BY <2>1, <2>2
<1>6. Subscription!TypeOK'
  BY <1>2, <1>3, <1>4, <1>5 DEF RunsInv, Subscription!TypeOK, CallRecs
<1>7. CallInv' /\ ReloadInv' /\ PlaceInv'
  <2>1. \A d \in Subscription!Callers :
           \/ call'[d] = call[d]
           \/ {call[d].at, call'[d].at} \intersect {"drain", "add"} = {}
    BY <1>1, <1>2
  <2>2. /\ call'[0].at \in {"idle", "reload", "drain", "add"}
        /\ \A d \in Calls : CallFits(call'[d])
    BY <1>1, <1>2, CallerFacts DEF RunsInv, CallInv, CallFits
  <2>3. \A q \in Subscription!Runs : RunFits(fetch'[q]) BY <1>3 DEF RunsInv, CallInv
  <2>4. PlaceInv' BY <1>3, <1>5, PlacesKept DEF RunsInv
  <2> QED
    BY <1>3, <1>5, <2>1, <2>2, <2>3, <2>4, JobsKept
    DEF RunsInv, Subscription!TypeOK, Subscription!jobs
<1>8. \A d \in Calls : Quiet(d)
  BY <1>2, <1>4, CallerFacts DEF Quiet
<1>9. RunFacts'
  BY <1>3, <1>4, <1>5, <1>8, QuietCalls DEF RunsInv, RunFacts
<1> QED BY <1>6, <1>7, <1>9 DEF RunsInv, RunFacts

\* A step of the reload: only the one who holds the lock adds and removes jobs.
LEMMA ReloadGoesOn ==
    ASSUME RunsInv, NEW c \in Subscription!Callers,
           \/ Subscription!Lock(c) \/ Subscription!list_enabled(c) \/ Subscription!ListFail(c)
           \/ Subscription!Unlock(c) \/ (Subscription!Disconnect(c) /\ lock = c)
           \/ \E s \in Subs : Subscription!Remove(c, s) \/ Subscription!Add(c, s)
    PROVE  RunsInv'
<1>1. UNCHANGED <<row, place, status, fetch, copy, stops, upset>>
  BY DEF Subscription!Lock, Subscription!list_enabled, Subscription!ListFail,
     Subscription!Unlock, Subscription!Disconnect, Subscription!Remove, Subscription!Add,
     Subscription!disk, Subscription!table
<1>2. call[c].at \in {"reload", "drain", "add"}
  BY DEF Subscription!Lock, Subscription!list_enabled, Subscription!ListFail,
     Subscription!Unlock, Subscription!Disconnect, Subscription!Remove, Subscription!Add,
     Subscription!CallAt, Subscription!Drained, RunsInv, CallInv
<1>3. cut' = cut
  BY <1>2 DEF Subscription!Lock, Subscription!list_enabled, Subscription!ListFail,
     Subscription!Unlock, Subscription!Disconnect, Subscription!Remove, Subscription!Add,
     Subscription!CallAt
<1>4. \/ call' = call
      \/ Subscription!CallTo(c, "drain") \/ Subscription!CallTo(c, "add")
      \/ Subscription!CallEnds(c)
  BY DEF Subscription!Lock, Subscription!list_enabled, Subscription!ListFail,
     Subscription!Unlock, Subscription!Disconnect, Subscription!Remove, Subscription!Add
<1>a. {"drain", "add"} \subseteq Subscription!Stages BY DEF Subscription!Stages
<1>5. /\ call' \in [Subscription!Callers -> CallRecs]
      /\ call' = call \/ call'[c].at \in {"drain", "add", "idle", "end"}
      /\ c = 0 => call'[c].at # "end"
      /\ \A d \in Subscription!Callers \ {c} : call'[d] = call[d]
  <2>1. CASE call' = call BY <1>2, <2>1 DEF RunsInv, Subscription!TypeOK, CallRecs
  <2>2. CASE Subscription!CallTo(c, "drain") BY <1>a, <2>2, CallGoes DEF RunsInv
  <2>3. CASE Subscription!CallTo(c, "add") BY <1>a, <2>3, CallGoes DEF RunsInv
  <2>4. CASE Subscription!CallEnds(c) BY <2>4, CallIsOver DEF RunsInv
  <2> QED BY <1>4, <2>1, <2>2, <2>3, <2>4
<1>6. RunFacts'
  <2>1. \A d \in Calls : Quiet(d) BY <1>2, <1>5, CallerFacts DEF Quiet
  <2>2. \A u \in Subs : row'[u] \in {"on", "off"} => row[u] # "gone" BY <1>1
  <2> QED BY <1>1, <1>3, <2>1, <2>2, QuietCalls DEF RunsInv, RunFacts
<1>7. /\ lock' \in Subscription!Callers \union {Nobody} /\ found' \subseteq Subs
      /\ job_ids' \in [Subs -> Nat] /\ live' \in [Subs -> Nat]
      /\ \A s \in Subs : job_ids'[s] <= live'[s]
      /\ dirty' \in BOOLEAN /\ refused' \subseteq Subs
  <2> USE DEF RunsInv, Subscription!TypeOK
  <2>1. CASE Subscription!Lock(c) BY <2>1 DEF Subscription!Lock
  <2>2. CASE Subscription!list_enabled(c) BY <2>2 DEF Subscription!list_enabled
  <2>3. CASE Subscription!ListFail(c) BY <2>3 DEF Subscription!ListFail
  <2>4. CASE Subscription!Unlock(c) BY <2>4 DEF Subscription!Unlock
  <2>5. ASSUME NEW s \in Subs, Subscription!Remove(c, s) PROVE <1>7!:
    <3>1. job_ids[s] \in Nat \ {0} /\ live[s] \in Nat \ {0} BY <2>5 DEF Subscription!Remove
    <3> QED BY <2>5, <3>1 DEF Subscription!Remove
  <2>6. ASSUME NEW s \in Subs, Subscription!Add(c, s) PROVE <1>7!:
    <3>1. \/ /\ live' = [live EXCEPT ![s] = @ + 1] /\ job_ids' = [job_ids EXCEPT ![s] = @ + 1]
             /\ refused' = refused
          \/ refused' = refused \union {s} /\ live' = live /\ job_ids' = job_ids
      BY <2>6 DEF Subscription!Add
    <3>2. lock' = lock /\ dirty' = dirty /\ found' \subseteq Subs
      BY <2>6 DEF Subscription!Add
    <3>3. CASE /\ live' = [live EXCEPT ![s] = @ + 1] /\ job_ids' = [job_ids EXCEPT ![s] = @ + 1]
               /\ refused' = refused
      <4>1. /\ job_ids' \in [Subs -> Nat] /\ live' \in [Subs -> Nat] BY <3>3
      <4>2. \A u \in Subs : job_ids'[u] <= live'[u] BY <3>3
      <4> QED BY <3>2, <3>3, <4>1, <4>2
    <3>4. CASE refused' = refused \union {s} /\ live' = live /\ job_ids' = job_ids
      BY <3>2, <3>4
    <3> QED BY <3>1, <3>3, <3>4
  <2>7. CASE Subscription!Disconnect(c) /\ lock = c
    <3>1. /\ lock' = Nobody /\ found' = {} /\ dirty' = TRUE /\ refused' = refused
          /\ job_ids' = [s \in Subs |-> 0] \/ job_ids' = job_ids
          /\ live' = live \/ \E s \in found : live' = [live EXCEPT ![s] = @ + 1]
      BY <2>7 DEF Subscription!Disconnect
    <3>2. job_ids' \in [Subs -> Nat] /\ \A s \in Subs : job_ids'[s] <= live[s]
      BY <3>1
    <3>3. live' \in [Subs -> Nat] /\ \A s \in Subs : live[s] <= live'[s]
      <4>1. CASE live' = live BY <4>1
      <4>2. ASSUME NEW s \in Subs, live' = [live EXCEPT ![s] = @ + 1] PROVE <3>3!:
        BY <4>2
      <4> QED BY <3>1, <4>1, <4>2
    <3> QED BY <3>1, <3>2, <3>3
  <2> QED BY <2>1, <2>2, <2>3, <2>4, <2>5, <2>6, <2>7
<1>8. Subscription!TypeOK'
  BY <1>1, <1>3, <1>5, <1>7 DEF RunsInv, Subscription!TypeOK, CallRecs
\* Whoever holds the lock is at its work, and gives it back when it is done.
<1>9. \A d \in Subscription!Callers : lock' = d <=> call'[d].at \in {"drain", "add"}
  <2>0. \A d \in Subscription!Callers : lock = d <=> call[d].at \in {"drain", "add"}
    BY DEF RunsInv, CallInv
  <2>2. CASE Subscription!Lock(c)
    <3>1. call'[c].at = "drain" /\ lock = Nobody /\ lock' = c
      BY <1>a, <2>2, CallGoes DEF RunsInv, Subscription!Lock
    <3> QED BY <1>5, <2>0, <3>1, CallerFacts
  <2>3. CASE Subscription!list_enabled(c)
    <3>1. call'[c].at = "add" /\ call[c].at = "drain" /\ lock' = lock
      BY <1>a, <2>3, CallGoes
      DEF RunsInv, Subscription!list_enabled, Subscription!Drained, Subscription!CallAt
    <3> QED BY <1>5, <2>0, <3>1
  <2>4. CASE Subscription!ListFail(c) \/ Subscription!Unlock(c)
             \/ (Subscription!Disconnect(c) /\ lock = c)
    <3>1. Subscription!CallEnds(c) /\ lock' = Nobody /\ call[c].at \in {"drain", "add"}
      BY <2>0, <2>4 DEF Subscription!ListFail, Subscription!Unlock, Subscription!Disconnect,
         Subscription!Drained, Subscription!CallAt
    <3>2. call'[c].at \in {"idle", "end"} BY <3>1, CallIsOver DEF RunsInv
    <3> QED BY <1>5, <2>0, <3>1, <3>2, CallerFacts
  <2>5. ASSUME NEW s \in Subs, Subscription!Remove(c, s) \/ Subscription!Add(c, s)
        PROVE  lock' = lock /\ call' = call
    BY <2>5 DEF Subscription!Remove, Subscription!Add
  <2>6. CASE \E s \in Subs : Subscription!Remove(c, s) \/ Subscription!Add(c, s)
    <3>1. lock' = lock /\ call' = call BY <2>5, <2>6
    <3> QED BY <2>0, <3>1
  <2> QED BY <2>2, <2>3, <2>4, <2>6
<1>10. CallInv'
  <2>1. call'[0].at \in {"idle", "reload", "drain", "add"}
    BY <1>5, CallerFacts DEF RunsInv, CallInv
  <2>2. \A d \in Calls : CallFits(call'[d])
    BY <1>2, <1>5, CallerFacts DEF RunsInv, CallInv, CallFits
  <2> QED BY <1>1, <1>9, <2>1, <2>2 DEF RunsInv, CallInv
<1>b. PlaceInv' BY <1>1, PlacesKept DEF RunsInv
<1>11. ReloadInv'
  <2>0. \A d \in Subscription!Callers : lock = d <=> call[d].at \in {"drain", "add"}
    BY DEF RunsInv, CallInv
  <2>1. CASE dirty' BY <1>1, <2>1, CallerFacts DEF ReloadInv, Subscription!OneJobEach
  <2>3. CASE Subscription!Lock(c)
    <3>1. lock' = c /\ lock = Nobody BY <2>3 DEF Subscription!Lock
    <3>2. call'[c].at # "add"
      BY <1>a, <2>3, CallGoes DEF RunsInv, Subscription!Lock
    <3> QED BY <1>9, <3>1, <3>2, CallerFacts DEF ReloadInv, Subscription!OneJobEach
  <2>4. CASE Subscription!list_enabled(c)
    <3>1. /\ lock = c /\ lock' = c /\ job_ids' = job_ids /\ row' = row
          /\ \A s \in Subs : job_ids[s] = 0
          /\ found' = {s \in Subs : row[s] = "on"} /\ refused' = {}
      BY <1>1, <2>0, <2>4
      DEF Subscription!list_enabled, Subscription!Drained, Subscription!CallAt
    <3> QED BY <1>9, <3>1, CallerFacts DEF ReloadInv, Subscription!OneJobEach
  <2>5. CASE Subscription!Unlock(c)
    <3>1. /\ lock' = Nobody /\ found = {} /\ call[c].at = "add"
          /\ UNCHANGED <<row, job_ids, live, found, refused, dirty>>
      BY <1>1, <2>5 DEF Subscription!Unlock, Subscription!CallAt
    <3>2. Subscription!OneJobEach'
      BY <3>1 DEF ReloadInv, RunsInv, Subscription!TypeOK, Subscription!OneJobEach
    <3> QED BY <1>9, <3>1, <3>2, CallerFacts DEF ReloadInv
  <2>6. ASSUME NEW s \in Subs, Subscription!Remove(c, s) PROVE ReloadInv'
    <3>1. lock = c /\ lock' = c /\ call' = call /\ call[c].at = "drain"
      BY <2>0, <2>6 DEF Subscription!Remove, Subscription!CallAt
    <3> QED BY <1>9, <3>1, CallerFacts DEF ReloadInv, Subscription!OneJobEach
  <2>7. ASSUME NEW s \in Subs, Subscription!Add(c, s) PROVE ReloadInv'
    <3>1. /\ lock = c /\ lock' = c /\ call' = call /\ call[c].at = "add" /\ s \in found
          /\ found' = found \ {s} /\ row' = row /\ dirty' = dirty
          /\ \/ job_ids' = [job_ids EXCEPT ![s] = @ + 1] /\ refused' = refused
             \/ job_ids' = job_ids /\ refused' = refused \union {s}
      BY <1>1, <2>0, <2>7 DEF Subscription!Add, Subscription!CallAt
    <3>2. ASSUME ~dirty
          PROVE  /\ \A u \in found' : row'[u] = "on" /\ u \notin refused'
                 /\ \A u \in Subs :
                       job_ids'[u] = (IF row'[u] = "on" /\ u \notin found' /\ u \notin refused'
                                      THEN 1 ELSE 0)
      <4>1. /\ \A u \in found : row[u] = "on" /\ u \notin refused
            /\ \A u \in Subs :
                  job_ids[u] = (IF row[u] = "on" /\ u \notin found /\ u \notin refused
                                THEN 1 ELSE 0)
        BY <3>1, <3>2 DEF RunsInv, ReloadInv
      <4>2. CASE job_ids' = [job_ids EXCEPT ![s] = @ + 1] /\ refused' = refused
        <5>1. job_ids'[s] = 1 /\ \A u \in Subs \ {s} : job_ids'[u] = job_ids[u]
          BY <3>1, <4>1, <4>2 DEF RunsInv, Subscription!TypeOK
        <5> QED BY <3>1, <4>1, <4>2, <5>1
      <4>3. CASE job_ids' = job_ids /\ refused' = refused \union {s}
        BY <3>1, <4>1, <4>3
      <4> QED BY <3>1, <4>2, <4>3
    <3> QED BY <1>9, <3>1, <3>2, CallerFacts DEF ReloadInv, Subscription!OneJobEach
  <2> QED BY <2>1, <2>3, <2>4, <2>5, <2>6, <2>7
     DEF Subscription!ListFail, Subscription!Disconnect
<1> QED BY <1>6, <1>8, <1>10, <1>b, <1>11 DEF RunsInv, RunFacts

LEMMA RunMoves ==
    ASSUME RunsInv, NEW r \in Subscription!Runs, Subscription!RunStep(r)
    PROVE  RunsInv'
<1> DEFINE Goes(stage) == Subscription!RunTo(r, stage)
           Stays == UNCHANGED copy
           Puts(what) == Subscription!Holds(r, what)
<1>0. fetch[r].at \in Subscription!Work => fetch[r].place \in Places
  BY DEF RunsInv, CallInv, RunFits
\* The ways in which a run goes on.
<1>1. ASSUME fetch[r].at \in Subscription!Work, Subscription!Elsewhere,
             NEW stage \in Subscription!Work \ {"good"}, Goes(stage),
             Stays \/ Puts("none") \/ Puts("part")
      PROVE  RunsInv'
  BY <1>1, RunGoesOn
<1>2. ASSUME fetch[r].at \in Subscription!Work, Subscription!Elsewhere, Goes("good"),
             (Stays /\ Subscription!Copy(r) = "whole") \/ Puts("whole")
      PROVE  RunsInv'
  <2>1. copy'[fetch[r].place] = "whole"
    BY <1>0, <1>2 DEF RunsInv, Subscription!TypeOK, Subscription!Holds, Subscription!Copy
  <2>2. "good" \in Subscription!Work BY DEF Subscription!Work
  <2> QED BY <1>2, <2>1, <2>2, RunGoesOn
<1>3. /\ {"start", "pull", "clone", "check", "reset", "retry", "clear", "reclone", "cloning",
          "recloning", "download", "write", "bad"} = Subscription!Work \ {"good"}
      /\ "good" \in Subscription!Work
  BY DEF Subscription!Work
<1>4. ASSUME Subscription!Failed(r) PROVE Goes("check") \/ Goes("bad")
  BY <1>4 DEF Subscription!Failed
<1> USE DEF Subscription!RunAt
<1>5. CASE Subscription!Start(r)
  <2>1. Goes("download") \/ Goes("pull") \/ Goes("clone")
    BY <1>5 DEF Subscription!Start
  <2>2. fetch[r].at \in Subscription!Work /\ Subscription!Elsewhere /\ Stays
    BY <1>3, <1>5 DEF Subscription!Start
  <2> HIDE DEF Goes, Stays
  <2> QED BY <1>1, <1>3, <2>1, <2>2
<1>6. CASE Subscription!PullStep(r)
  <2>1. fetch[r].at \in Subscription!Work /\ Subscription!Elsewhere /\ Stays
    BY <1>3, <1>6 DEF Subscription!PullStep, Subscription!Pull
  <2>2. \/ Goes("check") \/ Goes("retry") \/ Goes("clear")
        \/ (Goes("good") /\ Subscription!Copy(r) = "whole")
    BY <1>6 DEF Subscription!PullStep, Subscription!Pull
  <2> HIDE DEF Goes, Stays
  <2> QED BY <1>1, <1>2, <1>3, <2>1, <2>2
<1>7. CASE Subscription!CheckClone(r) \/ Subscription!GiveUp(r)
  <2>1. fetch[r].at \in Subscription!Work /\ Subscription!Elsewhere /\ Stays
    BY <1>3, <1>7 DEF Subscription!CheckClone, Subscription!GiveUp
  <2>2. Goes("reclone") \/ Goes("reset") \/ Goes("bad")
    BY <1>7 DEF Subscription!CheckClone, Subscription!GiveUp
  <2> HIDE DEF Goes, Stays
  <2> QED BY <1>1, <1>3, <2>1, <2>2
<1>8. CASE Subscription!Clear(r)
  <2>1. /\ fetch[r].at \in Subscription!Work /\ Subscription!Elsewhere
        /\ Puts("none") /\ Goes("reclone")
    BY <1>3, <1>8 DEF Subscription!Clear
  <2> HIDE DEF Goes, Puts
  <2> QED BY <1>1, <1>3, <2>1
<1>9. CASE Subscription!Clone(r)
  <2>1. fetch[r].at \in Subscription!Work /\ Subscription!Elsewhere /\ (Puts("part") \/ Stays)
    BY <1>3, <1>9 DEF Subscription!Clone
  <2>2. Goes("cloning") \/ Goes("recloning") \/ Goes("check") \/ Goes("bad")
    BY <1>4, <1>9 DEF Subscription!Clone
  <2> HIDE DEF Goes, Stays, Puts
  <2> QED BY <1>1, <1>3, <2>1, <2>2
<1>10. CASE Subscription!Cloned(r)
  <2>1. fetch[r].at \in Subscription!Work /\ Subscription!Elsewhere
    BY <1>3, <1>10 DEF Subscription!Cloned
  <2>2. \/ Puts("whole") /\ Goes("good")
        \/ (Puts("none") \/ Stays) /\ (Goes("check") \/ Goes("bad"))
    BY <1>4, <1>10 DEF Subscription!Cloned
  <2> HIDE DEF Goes, Stays, Puts
  <2> QED BY <1>1, <1>2, <1>3, <2>1, <2>2
<1>11. CASE Subscription!download_file(r)
  <2>1. fetch[r].at \in Subscription!Work /\ Subscription!Elsewhere
    BY <1>3, <1>11 DEF Subscription!download_file
  <2>2. \/ Puts("whole") /\ Goes("good")
        \/ Puts("part") /\ Goes("write")
        \/ Stays /\ Goes("bad")
    BY <1>11 DEF Subscription!download_file
  <2> HIDE DEF Goes, Stays, Puts
  <2> QED BY <1>1, <1>2, <1>3, <2>1, <2>2
<1>12. CASE Subscription!update_status(r) \/ Subscription!ReportFail(r)
  BY <1>12, RunIsOver
<1> QED
  BY <1>5, <1>6, <1>7, <1>8, <1>9, <1>10, <1>11, <1>12 DEF Subscription!RunStep

\* The process is stopped and started again: no call and no run survives it.
LEMMA RunsRestart ==
    ASSUME RunsInv, Subscription!Restart
    PROVE  RunsInv'
<1> USE CallerFacts
<1>1. /\ call' \in [Subscription!Callers -> CallRecs]
      /\ call'[0].at = "reload" /\ \A c \in Calls : call'[c].at \in {"idle", "end"}
  <2>1. call' = [c \in Subscription!Callers |->
                    IF c = 0 THEN [Subscription!Idle EXCEPT !.at = "reload"]
                    ELSE IF call[c].at = "idle" THEN Subscription!Idle
                    ELSE Subscription!Done]
    BY DEF Subscription!Restart, Subscription!CallAt
  <2> QED
    BY <2>1 DEF Subscription!Idle, Subscription!Done, Subscription!Stages, CallRecs
<1>2. /\ fetch' \in [Subscription!Runs -> RunRecs]
      /\ \A r \in Subscription!Runs : fetch'[r].at \notin Subscription!Work
  <2>1. \A r \in Subscription!Runs : fetch[r] \in RunRecs
    BY DEF RunsInv, Subscription!TypeOK, RunRecs
  <2> QED BY <2>1 DEF Subscription!Restart, Subscription!Work, Subscription!NoRun, RunRecs
<1>3. /\ UNCHANGED <<row, place, status, copy, refused, upset>>
      /\ lock' = Nobody /\ found' = {} /\ dirty' = TRUE
      /\ job_ids' = [s \in Subs |-> 0] /\ live' = [s \in Subs |-> 0]
      /\ cut' = cut \union {s \in Subs : status[s] = "running"}
      /\ stops < MaxStops /\ stops' = stops + 1
  BY DEF Subscription!Restart, Subscription!table
<1>4. Subscription!TypeOK'
  <2>1. stops' \in 0..MaxStops
    BY <1>3, ApiAssumption DEF RunsInv, Subscription!TypeOK
  <2> QED BY <1>1, <1>2, <1>3, <2>1 DEF RunsInv, Subscription!TypeOK, CallRecs, RunRecs
<1>5. CallInv' BY <1>1, <1>2, <1>3 DEF CallInv, CallFits, RunFits
<1>6. ReloadInv' BY <1>1, <1>3 DEF ReloadInv, Subscription!OneJobEach
<1>7. UnusedInv' BY <1>1, <1>2, <1>3 DEF RunsInv, UnusedInv, Works
<1>8. Subscription!RunningIsRun' BY <1>3 DEF Subscription!RunningIsRun
<1>9. WholeInv'
  <2>1. /\ \A r \in Subscription!Runs : \A s : ~Works(r, s)'
        /\ \A r \in Subscription!Runs : \A x : ~WorksAt(r, x)'
        /\ \A c \in Calls : \A s : ~Spawns(c, s)'
        /\ \A c \in Calls : \A x : ~SpawnsAt(c, x)'
    BY <1>1, <1>2 DEF Works, WorksAt, Spawns, SpawnsAt
  <2>2. \A s : ~Subscription!Busy(s)' /\ ~Subscription!BusyAt(s)' BY <2>1, BusyNext
  <2> QED
    BY <1>3, <2>1, <2>2 DEF RunsInv, WholeInv, AloneInv, Subscription!Exists
<1>10. PlaceInv' BY <1>3, PlacesKept DEF RunsInv
<1> QED BY <1>4, <1>5, <1>6, <1>7, <1>8, <1>9, <1>10 DEF RunsInv

LEMMA RunsInit == Subscription!Init => RunsInv
<1> SUFFICES ASSUME Subscription!Init PROVE RunsInv OBVIOUS
<1> USE CallerFacts DEF Subscription!Init, Subscription!Idle
<1>1. Subscription!TypeOK
  <2>1. call \in [Subscription!Callers -> CallRecs] /\ fetch \in [Subscription!Runs -> RunRecs]
    BY DEF Subscription!Stages, Subscription!NoRun, CallRecs, RunRecs
  <2>2. stops \in 0..MaxStops BY ApiAssumption
  <2>3. /\ job_ids \in [Subs -> Nat] /\ live \in [Subs -> Nat]
        /\ \A s \in Subs : job_ids[s] <= live[s]
    OBVIOUS
  <2>4. /\ row \in [Subs -> {"none", "on", "off", "gone"}]
        /\ status \in [Subs -> {"never", "running", "success", "failed"}]
        /\ copy \in [Places -> {"none", "part", "whole"}]
        /\ place \in [Subs -> Places \union {Nobody}]
    OBVIOUS
  <2> QED BY <2>1, <2>2, <2>3, <2>4 DEF Subscription!TypeOK, CallRecs, RunRecs
<1>2. CallInv
  BY DEF CallInv, CallFits, RunFits, Subscription!Work, Subscription!NoRun
<1>3. ReloadInv BY DEF ReloadInv, Subscription!OneJobEach
<1>4. UnusedInv BY DEF UnusedInv, Works, Subscription!Work, Subscription!NoRun
<1>5. Subscription!RunningIsRun BY DEF Subscription!RunningIsRun
<1>6. WholeInv BY DEF WholeInv, Subscription!Exists
<1>7. PlaceInv BY DEF PlaceInv, Subscription!Exists
<1> QED BY <1>1, <1>2, <1>3, <1>4, <1>5, <1>6, <1>7 DEF RunsInv

LEMMA RunsStep ==
    ASSUME RunsInv, [Subscription!Next]_subscriptionVars
    PROVE  RunsInv'
<1>1. ASSUME NEW c \in Subscription!CallNos, NEW s \in Subs,
             \/ Subscription!create(c, s) \/ Subscription!update(c, s)
             \/ Subscription!delete(c, s) \/ Subscription!run(c, s)
      PROVE  RunsInv'
  BY <1>1, CallIsMade
<1>2. ASSUME NEW c \in Subscription!Callers, Subscription!CallStep(c)
      PROVE  RunsInv'
  BY <1>2, RunIsMarked, RunBegins, CallGoesOn, ReloadGoesOn DEF Subscription!CallStep
<1>3. ASSUME NEW r \in Subscription!Runs, Subscription!RunStep(r)
      PROVE  RunsInv'
  BY <1>3, RunMoves
<1>4. CASE Subscription!Restart BY <1>4, RunsRestart
<1>5. CASE UNCHANGED subscriptionVars
  <2>1. UNCHANGED <<row, place, status, call, lock, job_ids, live, found, fetch, copy, stops,
                    dirty, refused, upset, cut>>
    BY <1>5 DEF subscriptionVars
  <2>2. Subscription!TypeOK' BY <2>1 DEF RunsInv, Subscription!TypeOK
  <2>3. CallInv' /\ ReloadInv' /\ PlaceInv'
    BY <2>1 DEF RunsInv, CallInv, CallFits, RunFits, ReloadInv, PlaceInv,
       Subscription!OneJobEach, Subscription!Exists
  <2>5. \A d \in Calls : Quiet(d) BY <2>1 DEF Quiet
  <2>6. \A u \in Subs : row'[u] \in {"on", "off"} => row[u] # "gone" BY <2>1
  <2>7. RunFacts' BY <2>1, <2>5, <2>6, QuietCalls DEF RunsInv, RunFacts
  <2> QED BY <2>2, <2>3, <2>7 DEF RunsInv, RunFacts
<1> QED BY <1>1, <1>2, <1>3, <1>4, <1>5 DEF Subscription!Next
HIDE ApiAssumption

\* The state of the runs and of the jobs stays in RunsInv.
LEMMA RunsKept == ApiSpec => []RunsInv
<1>1. ApiInit => RunsInv BY RunsInit DEF ApiInit
<1>2. [DependencesOnly \/ SubscriptionOnly \/ TotpOnly]_<<vars, subscriptionVars, totpVars>>
         => [Subscription!Next]_subscriptionVars
  BY DEF DependencesOnly, SubscriptionOnly, TotpOnly
<1> QED BY <1>1, <1>2, RunsStep, PTL DEF ApiSpec

\* However many calls and runs there are and wherever reloads fail or are cut off,
\* a registry that is up to date holds one job for each enabled subscription whose
\* schedule can be parsed and whose job was not refused, and none for the others
\* (reload_subscriptions).
THEOREM OneJob == ApiSpec => []OneJobEach
<1>1. RunsInv => OneJobEach BY DEF RunsInv, ReloadInv, OneJobEach
<1> QED BY <1>1, RunsKept, PTL

\* No path of a run leaves its subscription "running" for good, unless the run or
\* its report is cut off (run_operation).
THEOREM RunningRuns == ApiSpec => []RunningIsRun
<1>1. RunsInv => RunningIsRun BY DEF RunsInv, RunningIsRun
<1> QED BY <1>1, RunsKept, PTL

\* A subscription says "success" only with a complete clone or file at the place it
\* names, unless it was moved since its last run, another took the place over, or
\* runs overlapped there (sync_git, download_file).
THEOREM SuccessWhole == ApiSpec => []SuccessIsWhole
<1>1. RunsInv => SuccessIsWhole
  BY DEF RunsInv, WholeInv, AloneInv, SuccessIsWhole, Subscription!SuccessIsWhole,
     Subscription!Exists, Subscription!TypeOK
<1> QED BY <1>1, RunsKept, PTL

\* What makes the types of the rows and of the requests those of TotpLogin.
LEMMA TotpTypes == ApiSpec => []Totp!TypeOK
<1> USE ApiAssumption
<1>1. ApiInit => Types /\ SpentInv /\ Hands
  <2>1. Totp!Init => Hands
    <3>1. HandOK(Totp!NoCall) BY DEF HandOK, Totp!NoCall
    <3> QED BY <3>1 DEF Totp!Init, Hands, Totp!Keys
  <2> QED BY <2>1, SpentStart DEF ApiInit
<1>2. [DependencesOnly \/ SubscriptionOnly \/ TotpOnly]_<<vars, subscriptionVars, totpVars>>
         => [Totp!Next]_totpVars
  BY DEF DependencesOnly, SubscriptionOnly, TotpOnly
<1>3. Types /\ SpentInv /\ Hands => Totp!TypeOK
  <2> SUFFICES ASSUME Types, SpentInv, Hands PROVE Totp!TypeOK OBVIOUS
  <2>1. Made \subseteq Totp!Codes BY DEF Made, Totp!Codes, Totp!Sets, Types
  <2>2. config["totp_backup_codes"] = NoValue \/ config["totp_backup_codes"] \subseteq Totp!Codes
    BY <2>1 DEF SpentInv, RowsInv, Totp!Stored
  <2> QED BY <2>1, <2>2 DEF Totp!TypeOK, Types, SpentInv, RowsInv, Hands
<1> QED BY <1>1, <1>2, <1>3, SpentStep, HandsStep, PTL DEF ApiSpec

\* The types of the three parts.
THEOREM ApiTypes == ApiSpec => []ApiTypeOK
<1>1. ApiInit => Kept BY KeptInit DEF ApiInit
<1>2. [DependencesOnly \/ SubscriptionOnly \/ TotpOnly]_<<vars, subscriptionVars, totpVars>>
         => [Next]_vars
  BY DEF DependencesOnly, SubscriptionOnly, TotpOnly
<1>3. Kept => TypeOK BY DEF Kept
<1>4. ApiSpec => []TypeOK BY <1>1, <1>2, <1>3, KeptStep, PTL DEF ApiSpec
<1>5. RunsInv => Subscription!TypeOK BY DEF RunsInv
<1>6. TypeOK /\ Subscription!TypeOK /\ Totp!TypeOK => ApiTypeOK BY DEF ApiTypeOK
<1> QED BY <1>4, <1>5, <1>6, RunsKept, TotpTypes, PTL
=============================================================================
