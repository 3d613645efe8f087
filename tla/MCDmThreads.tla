---------------------------- MODULE MCDmThreads -----------------------------
(* DmThreads with two nicks and two accounts, in several situations.       *)
EXTENDS DmThreads, TLC

NameSymmetry == Permutations(Nicks) \cup Permutations(Dids)

\* People come, go and change nicks while messages are written.
Moving == {[said |-> 2, moves |-> 4, drops |-> 0, whois |-> 0, past |-> {}]}

\* A connection is lost, conversations of earlier days are listed.
Returning == {[said |-> 1, moves |-> 2, drops |-> 1, whois |-> 1, past |-> {<<n, d>>}] :
                 n \in Nicks, d \in Dids}

\* Somebody of earlier days is back under another nick before the session.
Back == {[said |-> 1, moves |-> 1, drops |-> 0, whois |-> 0, past |-> {<<n, d>>}] :
            n \in Nicks, d \in Dids}

Situations == Moving \cup Returning
=============================================================================
