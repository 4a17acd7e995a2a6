------------------------------ MODULE AuthTokens ------------------------------
(***************************************************************************)
(* lakehouse.auth and lakehouse.security: the middleware every Flight call *)
(* passes when a password is configured, and the bearer tokens it issues   *)
(* and verifies, across restarts of the server.  Without a password        *)
(* build_server installs none of it.                                       *)
(*                                                                         *)
(* A signature is good exactly for the key it was made with; keys are      *)
(* numbered by the process that generated them.  Expiry is held relative   *)
(* to now.                                                                 *)
(***************************************************************************)
EXTENDS Naturals

CONSTANTS
    Clients,
    None,
    SecretConfigured, \* is config.secret_key set, or generated at each start?
    Issuer,           \* config.jwt_issuer
    Expiry,           \* DEFAULT_EXPIRY_HOURS, in ticks
    MaxRestarts       \* bound: restarts of the server

ASSUME AuthAssumption ==
    /\ SecretConfigured \in BOOLEAN
    /\ Expiry \in Nat \ {0}
    /\ MaxRestarts \in Nat

DefaultIssuer == "lakehouse"

(* The Authorization header of a call: absent, of another scheme, Basic    *)
(* with the configured password, Basic with anything else (no colon, no    *)
(* user, a wrong password), Bearer with the token the client holds, or     *)
(* Bearer with something this service never issued.                        *)
Headers == {"absent", "other", "basic", "basic_wrong", "bearer", "bearer_junk"}

VARIABLES
    protected, \* config.password is not empty
    key,    \* the server's secret key
    starts, \* restarts so far
    held,   \* client -> the token it was last given, or None
    last    \* the latest call and its outcome

vars == <<protected, key, starts, held, last>>

Tokens == [key : Nat, iss : {DefaultIssuer, Issuer}, left : 0..Expiry]

Init ==
    /\ protected \in BOOLEAN
    /\ key = 0
    /\ starts = 0
    /\ held = [c \in Clients |-> None]
    /\ last = [header |-> "absent", token |-> None, key |-> 0, accepted |-> FALSE]

-----------------------------------------------------------------------------
(* create_jwt, as BasicAuthServerMiddlewareFactory calls it. *)
NewToken == [key |-> key, iss |-> DefaultIssuer, left |-> Expiry]

(* Faulty variant: the last tick of a token's life is not counted.         *)
VerifiesEarly(token) == token.key = key /\ token.left > 1 /\ token.iss = Issuer

(* verify_jwt with the server's key and the configured issuer. *)
Verifies(token) == token.key = key /\ token.left > 0 /\ token.iss = Issuer

(* The start_call of each factory: does it raise?  A factory leaves a      *)
(* scheme that is not its own to the others.                               *)
BasicRefuses(h) == h = "basic_wrong"

BearerRefuses(h, token) ==
    \/ h = "bearer_junk"
    \/ h = "bearer" /\ ~Verifies(token)

(* Faulty variant: any Authorization header will do.                       *)
RequiredRefusesAbsent(h) == h = "absent"

RequiredRefuses(h) == h \in {"absent", "other"}

Accepted(h, token) ==
    protected => ~BasicRefuses(h) /\ ~BearerRefuses(h, token) /\ ~RequiredRefuses(h)

(* One call.  The response to a Basic call carries a fresh token, which    *)
(* the client keeps.                                                       *)
Call(c, h) ==
    /\ h = "bearer" => held[c] # None
    /\ last' = [header |-> h, token |-> IF h = "bearer" THEN held[c] ELSE None,
                key |-> key, accepted |-> Accepted(h, held[c])]
    /\ held' = IF protected /\ h = "basic" /\ Accepted(h, held[c])
               THEN [held EXCEPT ![c] = NewToken] ELSE held
    /\ UNCHANGED <<protected, key, starts>>

(* _auto_generate_secret_key runs at every start. *)
Restart ==
    /\ starts < MaxRestarts
    /\ starts' = starts + 1
    /\ key' = IF SecretConfigured THEN key ELSE starts + 1
    /\ UNCHANGED <<protected, held, last>>

Tick ==
    /\ held' = [c \in Clients |->
                  IF held[c] = None \/ held[c].left = 0 THEN held[c]
                  ELSE [held[c] EXCEPT !.left = @ - 1]]
    /\ UNCHANGED <<protected, key, starts, last>>

Next ==
    \/ \E c \in Clients, h \in Headers : Call(c, h)
    \/ Restart
    \/ Tick

Spec == Init /\ [][Next]_vars

=============================================================================
