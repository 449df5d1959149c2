----------------------------- MODULE CredentialDoc -----------------------------
(***************************************************************************)
(* What the credential vault promises of its document: every write sets    *)
(* one field of one account, removes one account, or puts an exported      *)
(* document back, and leaves the rest as it is at that moment.             *)
(***************************************************************************)
CONSTANTS Accounts, Keys, NoKey, Tokens, NoToken

VARIABLES
    doc,      \* what is stored for each account
    backup    \* the document of the last export

vars == <<doc, backup>>

\* An account without a key and without a token is not in the document.
Missing == [key |-> NoKey, oauth |-> NoToken, bare |-> FALSE]

\* An entry of an older version is the key itself.
BareKey(k) == [key |-> k, oauth |-> NoToken, bare |-> TRUE]

Init ==
    /\ doc \in [Accounts -> {Missing} \cup {BareKey(k) : k \in Keys}]
    /\ backup = doc

SetKey(a, k) ==
    /\ doc' = [doc EXCEPT ![a].key = k, ![a].bare = FALSE]
    /\ UNCHANGED backup

\* A token keeps the account's key, unless the key was the whole entry.
SetToken(a, t) ==
    /\ doc' = [doc EXCEPT ![a] = [key |-> IF @.bare THEN NoKey ELSE @.key,
                                  oauth |-> t, bare |-> FALSE]]
    /\ UNCHANGED backup

Remove(a) ==
    /\ doc' = [doc EXCEPT ![a] = Missing]
    /\ UNCHANGED backup

Restore ==
    /\ doc' = backup
    /\ UNCHANGED backup

Export ==
    /\ backup' = doc
    /\ UNCHANGED doc

Next ==
    \/ \E a \in Accounts :
          \/ \E k \in Keys : SetKey(a, k)
          \/ \E t \in Tokens : SetToken(a, t)
          \/ Remove(a)
    \/ Restore
    \/ Export

Spec == Init /\ [][Next]_vars
=============================================================================
