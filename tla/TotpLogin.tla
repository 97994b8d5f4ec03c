----------------------------- MODULE TotpLogin -----------------------------
(***************************************************************************)
(* services/totp.rs, services/auth.rs, api/auth.rs and middleware/auth.rs: *)
(* logging in in one step or in two, and the configuration rows in which   *)
(* the second factor is kept.  They are written one after the other, each  *)
(* by a look whether it is there and an INSERT or UPDATE, and no lock spans*)
(* two statements (services/config.rs).  Whoever has logged in can write   *)
(* and delete each of the rows as it likes, too (api/config.rs).           *)
(*                                                                         *)
(* Left out: passwords, how secrets, codes and tokens are made and checked,*)
(* the expiry of tokens, the hash of the secret, which nothing reads, rows *)
(* with a value that nothing accepts, which count as none, and the log and *)
(* the notification of a login.                                            *)
(***************************************************************************)
EXTENDS Naturals, Sequences

CONSTANTS
    Clients,     \* the requests that may be under way at once
    NoValue,     \* a row that is not there
    SetSize,     \* how many backup codes are generated at once
    MaxSets      \* bound: how often they are

Sets == 1..MaxSets
NewCodes(g) == {g} \X (1..SetSize)
Codes == Sets \X (1..SetSize)

Keys == {"totp_enabled", "totp_secret_raw", "totp_backup_codes"}
AllKeys == <<"totp_enabled", "totp_secret_raw", "totp_backup_codes">>

VARIABLES
    config,   \* the rows
    request,  \* what each request is at, and the values that it will save
    sets,     \* counts the sets of codes made so far
    token,    \* somebody has a JWT
    spent     \* history: codes used and taken out of the list, and not put back

vars == <<config, request, sets, token, spent>>

\* The code that a request was granted for, if a backup code, and its list of
\* what remains, or of the codes that it brings; history: those that it may bring
\* back, since they were spent after it had read its list or before it was sent.
NoCall == [at |-> "idle", kind |-> "none", todo |-> <<>>, there |-> FALSE,
           secret |-> 0, used |-> {}, list |-> {}, back |-> {}]

RequestStates ==
    [at : {"idle", "code", "look", "put", "delete"},
     kind : {"none", "login", "enable", "disable", "regenerate", "set"},
     todo : Seq(Keys), there : BOOLEAN, secret : 0..MaxSets,
     used : SUBSET Codes, list : SUBSET Codes, back : SUBSET Codes]

\* The types of the state.
TypeOK ==
    /\ config = [k \in Keys |-> config[k]]
    /\ config["totp_enabled"] \in {"true", NoValue}
    /\ config["totp_secret_raw"] \in Sets \union {NoValue}
    /\ config["totp_backup_codes"] = NoValue \/ config["totp_backup_codes"] \subseteq Codes
    /\ request \in [Clients -> RequestStates]
    /\ sets \in 0..MaxSets /\ token \in BOOLEAN /\ spent \subseteq Codes

Init ==
    /\ config = [k \in Keys |-> NoValue]
    /\ request = [c \in Clients |-> NoCall]
    /\ sets = 0 /\ token = FALSE /\ spent = {}

-----------------------------------------------------------------------------
At(c, place) == request[c].at = place
Becomes(c, r) == request' = [request EXCEPT ![c] = r]
End(c) == Becomes(c, NoCall)
Stored == IF config["totp_backup_codes"] = NoValue THEN {} ELSE config["totp_backup_codes"]

\* The lists that a client can send: of codes that it was shown at some time.
KnownLists == SUBSET {b \in Codes : b[1] <= sets}

\* The password is right.  Unless the row says "true", and also if reading it fails,
\* the JWT is issued at once; otherwise a session token, good for the second step.
login_step_one(c) ==
    /\ At(c, "idle")
    /\ \/ /\ config["totp_enabled"] = "true"
          /\ Becomes(c, [NoCall EXCEPT !.at = "code", !.kind = "login"]) /\ UNCHANGED token
       \/ End(c) /\ token' = TRUE
    /\ UNCHANGED <<config, sets, spent>>

\* Only a JWT passes the middleware, and these requests then ask for a code, too.
auth_middleware(c, kind) ==
    /\ At(c, "idle") /\ token
    /\ Becomes(c, [NoCall EXCEPT !.at = "code", !.kind = kind])
    /\ UNCHANGED <<config, sets, token, spent>>

\* A secret and codes are made up and shown; nothing of them is kept.
generate_setup ==
    /\ token /\ sets < MaxSets
    /\ sets' = sets + 1
    /\ UNCHANGED <<config, request, token, spent>>

\* The user's setup, with a code that the secret sent along makes.  The codes are
\* the client's, too, whichever they are.
enable_totp(c, g, list) ==
    /\ At(c, "idle") /\ token /\ g <= sets
    /\ Becomes(c, [NoCall EXCEPT !.at = "look", !.kind = "enable", !.todo = AllKeys,
                       !.secret = g, !.list = list, !.back = list \intersect spent])
    /\ UNCHANGED <<config, sets, token, spent>>

\* What a request brings for a row.
ValueOf(k, r) ==
    CASE k = "totp_enabled" -> "true"
      [] k = "totp_backup_codes" -> r.list
      [] OTHER -> r.secret

\* PUT of one row: an UPDATE, and if the row is not found after it, an INSERT.
update_config(c, k, r) ==
    /\ At(c, "idle") /\ token
    /\ config' = IF config[k] = NoValue THEN config ELSE [config EXCEPT ![k] = ValueOf(k, r)]
    /\ spent' = spent \ Stored'
    /\ Becomes(c, [r EXCEPT !.at = "look", !.kind = "set", !.todo = <<k>>,
                            !.back = r.list \intersect spent'])
    /\ UNCHANGED <<sets, token>>

delete_config(c, k) ==
    /\ At(c, "idle") /\ token
    /\ config' = [config EXCEPT ![k] = NoValue]
    /\ UNCHANGED <<request, sets, token, spent>>

-----------------------------------------------------------------------------
(* verify_code, for a login, or before the second factor is changed.        *)

\* What a request goes on with once its code has been accepted and removed.
Onward(c) ==
    CASE request[c].kind = "login" -> NoCall
      [] request[c].kind = "disable" ->
            [NoCall EXCEPT !.at = "delete", !.kind = "disable", !.todo = AllKeys]
      [] OTHER ->
            [NoCall EXCEPT !.at = "look", !.kind = "enable", !.todo = <<"totp_backup_codes">>,
                           !.list = NewCodes(sets + 1)]

\* The others that have read the list by then do not learn that the code is spent.
Granted(c) ==
    /\ request' = [d \in Clients |->
          IF d = c THEN Onward(c)
          ELSE [request[d] EXCEPT
                  !.back = @ \union (request[c].used \intersect (request[d].list \union request[d].used))]]
    /\ token' = (token \/ request[c].kind = "login")
    /\ IF request[c].kind = "regenerate" THEN sets < MaxSets /\ sets' = sets + 1
       ELSE UNCHANGED sets

\* Six digits, which the user's device makes from the secret of a setup.
verify_totp_code(c, g) ==
    /\ At(c, "code")
    /\ IF config["totp_secret_raw"] = g THEN Granted(c)
       ELSE End(c) /\ UNCHANGED <<sets, token>>
    /\ UNCHANGED <<config, spent>>

\* Variant: the code is not taken out of the list that is saved.
verify_backup_code_Kept(c, b) ==
    /\ At(c, "code")
    /\ IF b \in Stored
       THEN Becomes(c, [request[c] EXCEPT !.at = "look", !.todo = <<"totp_backup_codes">>,
                                       !.used = {b}, !.list = Stored])
       ELSE End(c)
    /\ UNCHANGED <<config, sets, token, spent>>

\* A backup code is looked for in the list; what remains is to be saved.
verify_backup_code(c, b) ==
    /\ At(c, "code")
    /\ IF b \in Stored
       THEN Becomes(c, [request[c] EXCEPT !.at = "look", !.todo = <<"totp_backup_codes">>,
                                       !.used = {b}, !.list = Stored \ {b}])
       ELSE End(c)
    /\ UNCHANGED <<config, sets, token, spent>>

-----------------------------------------------------------------------------
(* save_totp_config and delete_totp_config, for one key after the other.    *)

Key(c) == Head(request[c].todo)
Value(c) == ValueOf(Key(c), request[c])

get_by_key(c) ==
    /\ At(c, "look")
    /\ IF request[c].kind = "set" /\ config[Key(c)] # NoValue
       THEN End(c)
       ELSE Becomes(c, [request[c] EXCEPT !.at = "put", !.there = config[Key(c)] # NoValue])
    /\ UNCHANGED <<config, sets, token, spent>>

\* An UPDATE finds no row if it was deleted meanwhile, which is no error.
Saved(c) ==
    config' = IF request[c].there /\ config[Key(c)] = NoValue THEN config
              ELSE [config EXCEPT ![Key(c)] = Value(c)]

save_totp_config(c) ==
    /\ At(c, "put")
    /\ request[c].there \/ config[Key(c)] = NoValue
    /\ Saved(c)
    /\ spent' = (spent \union request[c].used) \ (request[c].back \intersect Stored')
    /\ IF Len(request[c].todo) > 1
       THEN /\ Becomes(c, [request[c] EXCEPT !.at = "look", !.todo = Tail(@), !.there = FALSE])
            /\ UNCHANGED <<sets, token>>
       ELSE IF request[c].kind \in {"enable", "set"} THEN End(c) /\ UNCHANGED <<sets, token>>
       ELSE Granted(c)

\* The INSERT fails because the row is there by now.
SaveFail(c) ==
    /\ At(c, "put") /\ ~request[c].there /\ config[Key(c)] # NoValue
    /\ End(c)
    /\ UNCHANGED <<config, sets, token, spent>>

delete_totp_config(c) ==
    /\ At(c, "delete")
    /\ config' = [config EXCEPT ![Key(c)] = NoValue]
    /\ IF Len(request[c].todo) > 1 THEN Becomes(c, [request[c] EXCEPT !.todo = Tail(@)])
                                ELSE End(c)
    /\ UNCHANGED <<sets, token, spent>>

\* A statement fails, or the client goes away: what was saved so far stays.
Cut(c) ==
    /\ ~At(c, "idle")
    /\ End(c)
    /\ UNCHANGED <<config, sets, token, spent>>

-----------------------------------------------------------------------------
Request(c) ==
    \/ login_step_one(c)
    \/ \E kind \in {"disable", "regenerate"} : auth_middleware(c, kind)
    \/ \E g \in Sets, list \in KnownLists : enable_totp(c, g, list)
    \/ update_config(c, "totp_enabled", NoCall)
    \/ \E g \in 1..sets : update_config(c, "totp_secret_raw", [NoCall EXCEPT !.secret = g])
    \/ \E list \in KnownLists : update_config(c, "totp_backup_codes", [NoCall EXCEPT !.list = list])
    \/ \E k \in Keys : delete_config(c, k)

Verify(c) ==
    \/ \E g \in 0..MaxSets : verify_totp_code(c, g)
    \/ \E b \in Codes : verify_backup_code(c, b)

Write(c) ==
    \/ get_by_key(c) \/ save_totp_config(c) \/ SaveFail(c) \/ delete_totp_config(c) \/ Cut(c)

Next == generate_setup \/ \E c \in Clients : Request(c) \/ Verify(c) \/ Write(c)

Spec == Init /\ [][Next]_vars

-----------------------------------------------------------------------------
\* Using a backup code takes it away (verify_code): one whose removal has been
\* saved is stored again only by a client that sends it itself, with an enable or a
\* PUT, or by a request that had read the list before the removal was saved and
\* writes what it had read; and until then only such a request can still be granted
\* for it.  Whatever else logs in, enables, disables or regenerates afterwards, and
\* fails half-way or overwrites what another has saved, does not bring it back.
SpentStaySpent ==
    \A b \in spent :
        /\ b \notin Stored
        /\ \A c \in Clients :
              b \in request[c].list \union request[c].used => b \in request[c].back
=============================================================================
