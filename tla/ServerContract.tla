------------------------------ MODULE ServerContract ------------------------------
(***************************************************************************)
(* What the platform promises of its HTTP exchanges, with no handler chain,  *)
(* panic or startup: a request is taken only by a process that serves, acts   *)
(* at most once and only for a user it has proved to come from, is answered   *)
(* at most once, and is lost only together with the process.                 *)
(***************************************************************************)
CONSTANTS Conns, Users, NoUser, Codes

VARIABLES
    process,  \* "starting", "serving", "draining" or "ended"
    phase,    \* per exchange: "none", "open" or "acted"
    prover,   \* the user the request proves to come from
    answer    \* the status the client was sent, or 0

contractVars == <<process, phase, prover, answer>>

Init ==
    /\ process = "starting"
    /\ phase = [c \in Conns |-> "none"]
    /\ prover = [c \in Conns |-> NoUser]
    /\ answer = [c \in Conns |-> 0]

Take(c) ==
    /\ process = "serving" /\ phase[c] = "none"
    /\ phase' = [phase EXCEPT ![c] = "open"]
    /\ \E u \in Users \cup {NoUser} : prover' = [prover EXCEPT ![c] = u]
    /\ UNCHANGED <<process, answer>>

Act(c) ==
    /\ phase[c] = "open" /\ prover[c] # NoUser /\ answer[c] = 0
    /\ phase' = [phase EXCEPT ![c] = "acted"]
    /\ UNCHANGED <<process, prover, answer>>

(* Success and every error but these is said of something that was done. *)
Answer(c) ==
    /\ phase[c] # "none" /\ answer[c] = 0
    /\ \E code \in Codes :
         /\ answer' = [answer EXCEPT ![c] = code]
         /\ code = 401 => prover[c] = NoUser /\ phase[c] = "open"
         /\ code \in {201, 410} => phase[c] = "acted"
    /\ UNCHANGED <<process, phase, prover>>

Close(c) ==
    /\ answer[c] # 0
    /\ phase' = [phase EXCEPT ![c] = "none"]
    /\ prover' = [prover EXCEPT ![c] = NoUser]
    /\ answer' = [answer EXCEPT ![c] = 0]
    /\ UNCHANGED process

Serve == process = "starting" /\ process' = "serving" /\ UNCHANGED <<phase, prover, answer>>

Drain == process = "serving" /\ process' = "draining" /\ UNCHANGED <<phase, prover, answer>>

(* The end of a process takes its exchanges with it. *)
End ==
    /\ process # "ended" /\ process' = "ended"
    /\ phase' = [c \in Conns |-> "none"]
    /\ prover' = [c \in Conns |-> NoUser]
    /\ answer' = [c \in Conns |-> 0]

Restart == process = "ended" /\ process' = "starting" /\ UNCHANGED <<phase, prover, answer>>

Next ==
    \/ \E c \in Conns : Take(c) \/ Act(c) \/ Answer(c) \/ Close(c)
    \/ Serve \/ Drain \/ End \/ Restart

Spec == Init /\ [][Next]_contractVars
================================================================================
