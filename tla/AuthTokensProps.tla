---------------------------- MODULE AuthTokensProps ----------------------------
(***************************************************************************)
(* Which calls the middleware lets through.                                *)
(***************************************************************************)
EXTENDS AuthTokens

(* Every variable holds a value of the right shape. *)
TypeOK ==
    /\ protected \in BOOLEAN
    /\ key \in Nat
    /\ starts \in 0..MaxRestarts
    /\ held \in [Clients -> Tokens \cup {None}]
    /\ last \in [header : Headers, token : Tokens \cup {None}, key : Nat, accepted : BOOLEAN]

(* With a password configured a call is let through only with it, or with  *)
(* a token that a server with the same key issued and that has not         *)
(* expired: the factories pass what is not theirs to each other, and       *)
(* together let nothing slip.                                              *)
AcceptedIsAuthentic ==
    protected /\ last.accepted =>
        \/ last.header = "basic"
        \/ last.header = "bearer" /\ last.token.key = last.key /\ last.token.left > 0

(* A token the server issued is good until it expires, for as long as the  *)
(* key stays the same: "Subsequent requests can use that token with the    *)
(* bearer middleware."                                                     *)
IssuedIsAccepted ==
    (last.header = "bearer" /\ last.token.key = last.key /\ last.token.left > 0)
    => last.accepted

=============================================================================
