------------------------------- MODULE Gather -------------------------------
(***************************************************************************)
(* What Wrapper.Find and Wrapper.Render promise to the HTTP handler that   *)
(* calls them, without goroutines, wait group or mutex: every target of    *)
(* the request is decided exactly once (it fails, or the backend's reply   *)
(* for it is accepted), and one atomic step answers with the accepted      *)
(* entries of all the targets, each once, in any interleaving of the       *)
(* targets but in the backend's order within a target.                     *)
(***************************************************************************)
EXTENDS Naturals, Sequences, Functions

CONSTANTS N,        \* the largest number of targets in a request
          Replies   \* the decoded replies of the backend

VARIABLES open,     \* a request is being served
          want,     \* its number of targets
          outcome,  \* outcome[w]: <<>> while undecided, else <<accepted reply>>
          status,   \* HTTP status of the last answer, 0 while open
          answer    \* the entries of the last answer

gvars == <<open, want, outcome, status, answer>>

Workers == 1..N

\* Entry <<w, k>> is the k-th element of the reply accepted for target w, and
\* only the elements marked "ok" are served.
Accepted(out) ==
    LET decided == {w \in Workers : out[w] # <<>>}
    IN  {e \in UNION {{w} \X (1..Len(out[w][1])) : w \in decided} :
            out[e[1]][1][e[2]] = "ok"}

\* Each entry once, and those of one target in the backend's order.
InOrder(s) ==
    \A a, b \in 1..Len(s) : a < b /\ s[a][1] = s[b][1] => s[a][2] < s[b][2]

GInit == /\ open = FALSE
         /\ want = 0
         /\ outcome = [w \in Workers |-> <<>>]
         /\ status = 0
         /\ answer = <<>>

Ask == /\ ~open
       /\ open' = TRUE
       /\ want' \in 0..N
       /\ outcome' = [w \in Workers |-> <<>>]
       /\ status' = 0
       /\ answer' = <<>>

Decide(w) == /\ open
             /\ w \in 1..want
             /\ outcome[w] = <<>>
             /\ \E r \in Replies \cup {<<>>, <<"ok">>} :
                    outcome' = [outcome EXCEPT ![w] = <<r>>]
             /\ UNCHANGED <<open, want, status, answer>>

Answer == /\ open
          /\ \A w \in 1..want : outcome[w] # <<>>
          /\ open' = FALSE
          /\ \/ /\ status' = 200
                /\ Range(answer') = Accepted(outcome)
                /\ InOrder(answer')
             \/ /\ status' = 500
                /\ answer' = <<>>
          /\ UNCHANGED <<want, outcome>>

\* A request that cannot be read or decoded is refused without asking anyone.
Refuse == /\ ~open
          /\ want' = 0
          /\ outcome' = [w \in Workers |-> <<>>]
          /\ status' = 400
          /\ answer' = <<>>
          /\ UNCHANGED open

GNext == Ask \/ Refuse \/ Answer \/ \E w \in Workers : Decide(w)

GSpec == GInit /\ [][GNext]_gvars

=============================================================================
