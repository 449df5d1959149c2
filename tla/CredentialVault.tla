---------------------------- MODULE CredentialVault ----------------------------
(***************************************************************************)
(* The credential document shared by the controller and the proxy          *)
(* (caravan/common/credential_vault.py).                                   *)
(*                                                                         *)
(* Callers in both processes renew tokens, set keys, store sign-ins, delete*)
(* accounts and restore exported settings.  A renewal holds its account's  *)
(* file lock from reading the token to storing the new one; every write    *)
(* reads the document again under the document's lock.  The provider       *)
(* rotates refresh tokens: one that was used is spent.  A file lock is     *)
(* released when its holder's process dies.                                *)
(***************************************************************************)
EXTENDS Naturals

CONSTANTS
    Callers,     \* threads of the two processes that use the vault
    Accounts,    \* account ids
    Keys,        \* API keys
    NoKey,       \* no API key is set
    MaxTokens,   \* bound: tokens the provider ever issues
    Restores,    \* whether settings are exported and restored
    Lossy,       \* whether an answer that rotated a token, or a write, may fail
    Crashes      \* whether a caller's process may die

ASSUME VaultAssumption ==
    /\ "none" \notin Callers
    /\ Accounts # {}
    /\ NoKey \notin Keys
    /\ MaxTokens \in Nat
    /\ {Restores, Lossy, Crashes} \subseteq BOOLEAN

None == "none"
NoToken == 0
Tokens == 0..MaxTokens

VARIABLES
    doc,           \* the document: each account's key and refresh token
    backup,        \* the document of the last exported settings
    issued,        \* tokens the provider has issued; they are numbered
    valid,         \* the tokens the provider still takes
    accountLock,   \* the caller that has each account's file lock
    documentLock,  \* the caller that has the document's file lock
    pc,            \* where each caller is
    op,            \* the operation it is in
    acct,          \* the account that the operation is for
    key,           \* the API key that put_api_key is to set
    token,         \* the refresh token in the caller's hand
    data           \* the document as the caller read it

callerVars == <<op, acct, key, token, data>>
providerVars == <<issued, valid>>
lockVars == <<accountLock, documentLock>>
vars == <<doc, backup, providerVars, lockVars, pc, callerVars>>

\* An account that is not in the document.
Missing == [key |-> NoKey, oauth |-> NoToken, bare |-> FALSE]

\* An entry of an older version: a string, the key itself.
BareKey(k) == [key |-> k, oauth |-> NoToken, bare |-> TRUE]

Empty == [a \in Accounts |-> Missing]
AnyAccount == CHOOSE a \in Accounts : TRUE
Entry == [key : Keys \cup {NoKey}, oauth : Tokens, bare : BOOLEAN]
Ops == {"renew", "login", "key", "delete", "restore"}

\* Mutant: delete does not wait for a renewal.
DeleteUnlocked == {"renew", "login"}

\* The operations that hold the account's lock throughout.
AccountOps == {"renew", "login", "delete"}

TypeOK ==
    /\ doc \in [Accounts -> Entry]
    /\ backup \in [Accounts -> Entry]
    /\ issued \in Tokens
    /\ valid \subseteq 1..issued
    /\ accountLock \in [Accounts -> Callers \cup {None}]
    /\ documentLock \in Callers \cup {None}
    /\ pc \in [Callers -> {"idle", "account", "entry", "request", "document", "read", "write", "unlock"}]
    /\ op \in [Callers -> Ops]
    /\ acct \in [Callers -> Accounts]
    /\ key \in [Callers -> Keys \cup {NoKey}]
    /\ token \in [Callers -> Tokens]
    /\ data \in [Callers -> [Accounts -> Entry]]

Init ==
    /\ doc \in [Accounts -> {Missing} \cup {BareKey(k) : k \in Keys}]
    /\ backup = doc
    /\ issued = 0
    /\ valid = {}
    /\ accountLock = [a \in Accounts |-> None]
    /\ documentLock = None
    /\ pc = [c \in Callers |-> "idle"]
    /\ op = [c \in Callers |-> "key"]
    /\ acct = [c \in Callers |-> AnyAccount]
    /\ key = [c \in Callers |-> NoKey]
    /\ token = [c \in Callers |-> NoToken]
    /\ data = [c \in Callers |-> Empty]

-----------------------------------------------------------------------------
(* A call.                                                                 *)

Call(c, o, a, k, t) ==
    /\ pc[c] = "idle"
    /\ pc' = [pc EXCEPT ![c] = IF o \in AccountOps THEN "account" ELSE "document"]
    /\ op' = [op EXCEPT ![c] = o]
    /\ acct' = [acct EXCEPT ![c] = a]
    /\ key' = [key EXCEPT ![c] = k]
    /\ token' = [token EXCEPT ![c] = t]
    /\ UNCHANGED <<doc, backup, lockVars, data>>

oauth(c, a) == Call(c, "renew", a, NoKey, NoToken) /\ UNCHANGED providerVars

put_api_key(c, a, k) == Call(c, "key", a, k, NoToken) /\ UNCHANGED providerVars

delete(c, a) == Call(c, "delete", a, NoKey, NoToken) /\ UNCHANGED providerVars

replace(c, a) == Restores /\ Call(c, "restore", a, NoKey, NoToken) /\ UNCHANGED providerVars

\* A sign-in has just been given a token of its own.
put_oauth(c, a) ==
    /\ issued < MaxTokens
    /\ issued' = issued + 1
    /\ valid' = valid \cup {issued'}
    /\ Call(c, "login", a, NoKey, issued')

-----------------------------------------------------------------------------
(* The locks.                                                              *)

\* Mutant: who returns releases every account's lock.
ReturnReleasesAll(c) ==
    /\ pc' = [pc EXCEPT ![c] = "idle"]
    /\ op' = [op EXCEPT ![c] = "key"]
    /\ acct' = [acct EXCEPT ![c] = AnyAccount]
    /\ key' = [key EXCEPT ![c] = NoKey]
    /\ token' = [token EXCEPT ![c] = NoToken]
    /\ data' = [data EXCEPT ![c] = Empty]
    /\ accountLock' = [a \in Accounts |-> None]

\* The caller is out of its operation: its own variables are gone, and no
\* account lock is left to it.
Return(c) ==
    /\ pc' = [pc EXCEPT ![c] = "idle"]
    /\ op' = [op EXCEPT ![c] = "key"]
    /\ acct' = [acct EXCEPT ![c] = AnyAccount]
    /\ key' = [key EXCEPT ![c] = NoKey]
    /\ token' = [token EXCEPT ![c] = NoToken]
    /\ data' = [data EXCEPT ![c] = Empty]
    /\ accountLock' = [a \in Accounts |-> IF accountLock[a] = c THEN None ELSE accountLock[a]]

LockAccount(c) ==
    /\ pc[c] = "account"
    /\ accountLock[acct[c]] = None
    /\ accountLock' = [accountLock EXCEPT ![acct[c]] = c]
    /\ pc' = [pc EXCEPT ![c] = IF op[c] = "renew" THEN "entry" ELSE "document"]
    /\ UNCHANGED <<doc, backup, providerVars, documentLock, callerVars>>

\* Mutant: the document is read without waiting for its lock.
LockDocumentUnchecked(c) ==
    /\ pc[c] = "document"
    /\ documentLock' = c
    /\ pc' = [pc EXCEPT ![c] = "read"]
    /\ UNCHANGED <<doc, backup, providerVars, accountLock, callerVars>>

LockDocument(c) ==
    /\ pc[c] = "document"
    /\ documentLock = None
    /\ documentLock' = c
    /\ pc' = [pc EXCEPT ![c] = "read"]
    /\ UNCHANGED <<doc, backup, providerVars, accountLock, callerVars>>

Unlock(c) ==
    /\ pc[c] = "unlock"
    /\ Return(c)
    /\ UNCHANGED <<doc, backup, providerVars, documentLock>>

-----------------------------------------------------------------------------
(* A renewal's token request.                                              *)

ReadEntry(c) ==
    /\ pc[c] = "entry"
    /\ token' = [token EXCEPT ![c] = doc[acct[c]].oauth]
    /\ pc' = [pc EXCEPT ![c] = "request"]
    /\ UNCHANGED <<doc, backup, providerVars, lockVars, op, acct, key, data>>

\* The token is not due, or there is none; the provider is not reached, or
\* refuses a spent token: nothing is stored.
NotRenewed(c) ==
    /\ pc[c] = "request"
    /\ pc' = [pc EXCEPT ![c] = "unlock"]
    /\ UNCHANGED <<doc, backup, providerVars, lockVars, callerVars>>

\* The provider takes the token and gives the next one, or the same again.
Renewed(c, rotates) ==
    /\ pc[c] = "request"
    /\ token[c] \in valid
    /\ IF rotates
       THEN /\ issued < MaxTokens
            /\ issued' = issued + 1
            /\ valid' = (valid \ {token[c]}) \cup {issued'}
            /\ token' = [token EXCEPT ![c] = issued']
       ELSE UNCHANGED <<providerVars, token>>
    /\ pc' = [pc EXCEPT ![c] = "document"]
    /\ UNCHANGED <<doc, backup, lockVars, op, acct, key, data>>

\* The provider rotated the token, and its answer did not arrive or names no
\* access token.
AnswerLost(c) ==
    /\ Lossy
    /\ pc[c] = "request"
    /\ token[c] \in valid
    /\ issued < MaxTokens
    /\ issued' = issued + 1
    /\ valid' = (valid \ {token[c]}) \cup {issued'}
    /\ pc' = [pc EXCEPT ![c] = "unlock"]
    /\ UNCHANGED <<doc, backup, lockVars, callerVars>>

-----------------------------------------------------------------------------
(* The write.                                                              *)

\* Mutant: the early return keeps the document's lock.
NothingStoredKeepsLock(c) ==
    /\ pc[c] = "read"
    /\ op[c] = "delete"
    /\ doc[acct[c]] = Missing
    /\ pc' = [pc EXCEPT ![c] = "unlock"]
    /\ UNCHANGED <<doc, backup, providerVars, lockVars, callerVars>>

\* Nothing to delete: the document is left alone.
NothingStored(c) ==
    /\ pc[c] = "read"
    /\ op[c] = "delete"
    /\ doc[acct[c]] = Missing
    /\ documentLock' = None
    /\ pc' = [pc EXCEPT ![c] = "unlock"]
    /\ UNCHANGED <<doc, backup, providerVars, accountLock, callerVars>>

ReadDocument(c) ==
    /\ pc[c] = "read"
    /\ ~(op[c] = "delete" /\ doc[acct[c]] = Missing)
    /\ data' = [data EXCEPT ![c] = IF op[c] = "restore" THEN backup ELSE doc]
    /\ pc' = [pc EXCEPT ![c] = "write"]
    /\ UNCHANGED <<doc, backup, providerVars, lockVars, op, acct, key, token>>

\* put_api_key: the entry as it is, with the key; one that is a string becomes a record.
WithKey(e, k) == [e EXCEPT !.key = k, !.bare = FALSE]

\* _put_oauth: the entry as it is, with the token; one that is a string is taken for
\* empty, and its key is gone.
WithToken(e, t) ==
    [key |-> IF e.bare THEN NoKey ELSE e.key, oauth |-> t, bare |-> FALSE]

\* Mutant: a key is stored as the whole entry, as older documents have it.
ChangedToBareKey(c) ==
    CASE op[c] = "key" -> [data[c] EXCEPT ![acct[c]] = key[c]]
      [] op[c] = "delete" -> [data[c] EXCEPT ![acct[c]] = Missing]
      [] op[c] = "restore" -> data[c]
      [] OTHER -> [data[c] EXCEPT ![acct[c]] = WithToken(@, token[c])]

\* Mutant: a token replaces the whole entry, and the account's key is lost.
ChangedDropsKey(c) ==
    CASE op[c] = "key" -> [data[c] EXCEPT ![acct[c]] = WithKey(@, key[c])]
      [] op[c] = "delete" -> [data[c] EXCEPT ![acct[c]] = Missing]
      [] op[c] = "restore" -> data[c]
      [] OTHER -> [data[c] EXCEPT ![acct[c]] = WithToken(Missing, token[c])]

\* What the caller writes, from the document it read.
Changed(c) ==
    CASE op[c] = "key" -> [data[c] EXCEPT ![acct[c]] = WithKey(@, key[c])]
      [] op[c] = "delete" -> [data[c] EXCEPT ![acct[c]] = Missing]
      [] op[c] = "restore" -> data[c]
      [] OTHER -> [data[c] EXCEPT ![acct[c]] = WithToken(@, token[c])]

WriteDocument(c) ==
    /\ pc[c] = "write"
    /\ doc' = Changed(c)
    /\ documentLock' = None
    /\ pc' = [pc EXCEPT ![c] = "unlock"]
    /\ data' = [data EXCEPT ![c] = Empty]
    /\ UNCHANGED <<backup, providerVars, accountLock, op, acct, key, token>>

\* The document cannot be read or written: the call ends with the error and
\* what it would have stored is lost.
NotWritten(c) ==
    /\ Lossy
    /\ pc[c] \in {"read", "write"}
    /\ documentLock' = None
    /\ pc' = [pc EXCEPT ![c] = "unlock"]
    /\ data' = [data EXCEPT ![c] = Empty]
    /\ UNCHANGED <<doc, backup, providerVars, accountLock, op, acct, key, token>>

-----------------------------------------------------------------------------
(* The settings' export, and the death of a process.                       *)

\* There is one file of exported settings: it is not written over while it is
\* being restored.
Export ==
    /\ Restores
    /\ \A c \in Callers : op[c] = "restore" => pc[c] = "idle"
    /\ backup' = doc
    /\ UNCHANGED <<doc, providerVars, lockVars, pc, callerVars>>

Crash(c) ==
    /\ Crashes
    /\ pc[c] # "idle"
    /\ Return(c)
    /\ documentLock' = IF documentLock = c THEN None ELSE documentLock
    /\ UNCHANGED <<doc, backup, providerVars>>

-----------------------------------------------------------------------------
\* What a caller does once it has called.
Step(c) ==
    \/ LockAccount(c)
    \/ LockDocument(c)
    \/ ReadEntry(c)
    \/ NotRenewed(c)
    \/ \E rotates \in BOOLEAN : Renewed(c, rotates)
    \/ AnswerLost(c)
    \/ NothingStored(c)
    \/ ReadDocument(c)
    \/ WriteDocument(c)
    \/ NotWritten(c)
    \/ Unlock(c)

Next ==
    \/ \E c \in Callers :
          \/ \E a \in Accounts :
                \/ oauth(c, a)
                \/ \E k \in Keys : put_api_key(c, a, k)
                \/ delete(c, a)
                \/ replace(c, a)
                \/ put_oauth(c, a)
          \/ Step(c)
          \/ Crash(c)
    \/ Export

Spec == Init /\ [][Next]_vars

\* A file lock goes to each caller that keeps asking for it; the token request
\* has a timeout of 15s.
Fairness ==
    \A c \in Callers :
        /\ WF_vars(Step(c))
        /\ SF_vars(LockAccount(c))
        /\ SF_vars(LockDocument(c))

FairSpec == Spec /\ Fairness

-----------------------------------------------------------------------------
(* Properties.                                                             *)

\* The callers that are renewing a's token, from reading it to storing its
\* successor.
Renewing(a) ==
    {c \in Callers : /\ op[c] = "renew"
                     /\ acct[c] = a
                     /\ pc[c] \in {"request", "document", "read", "write"}}

\* "One OAuth renewal owner across the controller and proxy processes": two
\* renewals of an account never overlap.
OneRenewal == \A a \in Accounts : \A c, d \in Renewing(a) : c = d

\* Whatever is written in between, the token in the document is one that the
\* provider still takes, or a renewal has its successor in hand and stores it:
\* no writer puts "a spent refresh token back".
TokenKept ==
    \A a \in Accounts :
        \/ doc[a].oauth = NoToken
        \/ doc[a].oauth \in valid
        \/ \E c \in Renewing(a) : pc[c] # "request" /\ token[c] \in valid

\* A renewal never presents a spent token.
NoSpentRequest ==
    \A c \in Callers :
        pc[c] = "request" => token[c] = NoToken \/ token[c] \in valid

\* "a refresh must not put a deleted credential back": an account comes back
\* only by a key or a sign-in of its own.
NotResurrected ==
    [][\A c \in Callers :
          /\ pc[c] = "write" /\ pc'[c] = "unlock"
          /\ op[c] = "renew"
          => doc[acct[c]] # Missing]_vars

\* Each write is one change of the document as it stands at that moment, the
\* changes of every other account and field kept (but for the key of an older
\* version's entry, which a sign-in replaces).
Doc == INSTANCE CredentialDoc
ImplementsDoc == Doc!Spec

-----------------------------------------------------------------------------
(* Why they hold: the invariant that the steps preserve.                   *)

\* A caller past `with self.locked(".<account>")' has that account's lock, one
\* past `with self.locked(".write")' the document's.
LocksHeld ==
    \A c \in Callers :
        /\ op[c] \in AccountOps /\ pc[c] \notin {"idle", "account"} => accountLock[acct[c]] = c
        /\ pc[c] \in {"read", "write"} => documentLock = c
        /\ pc[c] \in {"account", "entry", "request"} => op[c] \in AccountOps
        /\ pc[c] \in {"entry", "request"} => op[c] = "renew"

\* What a caller is about to write was read from the document as it is now, or
\* is the export to restore.
ReadFresh ==
    \A c \in Callers :
        pc[c] = "write" => data[c] = IF op[c] = "restore" THEN backup ELSE doc

\* The callers that have a token to store: a sign-in's from the start, a
\* renewal's once the provider has answered.
Storing ==
    {c \in Callers :
        \/ op[c] = "login" /\ pc[c] \in {"account", "document", "read", "write"}
        \/ op[c] = "renew" /\ pc[c] \in {"document", "read", "write"}}

\* Each token that the provider takes is in one place: in one account's entry
\* or in one caller's hand, a renewal's unrotated token in both.
TokensApart ==
    /\ \A a \in Accounts : doc[a].oauth <= issued
    /\ \A a, b \in Accounts :
          doc[a].oauth = doc[b].oauth => doc[a].oauth = NoToken \/ a = b
    /\ \A c \in Storing :
          /\ token[c] \in valid
          /\ \A a \in Accounts : doc[a].oauth = token[c] => op[c] = "renew" /\ a = acct[c]
          /\ \A d \in Storing : token[d] = token[c] => d = c

\* A renewal's account keeps its token until the renewal is over.
RenewsStored ==
    \A c \in Callers :
        /\ pc[c] = "request" => token[c] = doc[acct[c]].oauth
        /\ op[c] = "renew" /\ pc[c] \in {"document", "read", "write"}
           => doc[acct[c]].oauth # NoToken

\* Every call returns.
Returns == \A c \in Callers : pc[c] # "idle" ~> pc[c] = "idle"
=============================================================================
