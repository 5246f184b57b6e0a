--------------------------------- MODULE MCServer ---------------------------------
(***************************************************************************)
(* Model checking of Server: the requests the clients send.                 *)
(***************************************************************************)
EXTENDS ServerClaims, TLC

CONSTANT alice

GoodToken == [wellFormed |-> TRUE, ecdsa |-> TRUE, signed |-> TRUE, expired |-> FALSE,
              type |-> "access", user |-> alice]

(* An upload request with a good token and a valid body.                       *)
Upload == [route |-> "upload", authorization |-> "bearer", token |-> GoodToken,
           body |-> "valid", named |-> TRUE]

With(token) == [Upload EXCEPT !.token = token]

(* A request for each way the chain can go, and for each defect of a token.     *)
MixedArrivals ==
    {Upload,
     [Upload EXCEPT !.body = "unreadable", !.named = FALSE],
     [Upload EXCEPT !.authorization = "badFormat"],
     With([GoodToken EXCEPT !.wellFormed = FALSE]),
     With([GoodToken EXCEPT !.ecdsa = FALSE]),
     With([GoodToken EXCEPT !.signed = FALSE, !.expired = TRUE]),
     With([GoodToken EXCEPT !.expired = TRUE]),
     With([GoodToken EXCEPT !.type = "refresh"]),
     [Upload EXCEPT !.route = "public", !.authorization = "missing"],
     [Upload EXCEPT !.route = "unmatched"]}

OneArrival == {Upload}
RejectedArrival == {[Upload EXCEPT !.authorization = "missing"]}

Symmetry == Permutations(Conns)
================================================================================
