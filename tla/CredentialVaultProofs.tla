------------------------- MODULE CredentialVaultProofs -------------------------
(***************************************************************************)
(* Proofs about the credential vault, for any number of callers, accounts, *)
(* keys and tokens, with and without faults.                               *)
(***************************************************************************)
EXTENDS CredentialVault, TLAPS

\* put_api_key has a key to set.
KeyInHand == \A c \in Callers : op[c] = "key" /\ pc[c] # "idle" => key[c] \in Keys

\* What every step preserves: the types, who has which lock, and that a caller
\* about to write has read the document as it is.
VaultInv == TypeOK /\ LocksHeld /\ ReadFresh /\ KeyInHand

LEMMA DefaultTypes ==
    /\ AnyAccount \in Accounts
    /\ Missing \in Entry
    /\ Empty \in [Accounts -> Entry]
<1>1. AnyAccount \in Accounts
    BY VaultAssumption DEF AnyAccount
<1>2. Missing \in Entry
    BY VaultAssumption DEF Missing, Entry, NoToken, Tokens
<1> QED
    BY <1>1, <1>2 DEF Empty

\* The provider issues one more token and may take another one back.
LEMMA IssueType ==
    ASSUME TypeOK, issued < MaxTokens, issued' = issued + 1,
           valid' \subseteq valid \cup {issued'}
    PROVE  issued' \in Tokens /\ valid' \subseteq 1..issued'
BY VaultAssumption DEF TypeOK, Tokens

LEMMA InitInv == Init => VaultInv
<1> SUFFICES ASSUME Init PROVE VaultInv
    OBVIOUS
<1>0. doc \in [Accounts -> Entry]
  <2>1. \A k \in Keys : BareKey(k) \in Entry
    BY VaultAssumption DEF BareKey, Entry, NoToken, Tokens
  <2>2. {Missing} \cup {BareKey(k) : k \in Keys} \subseteq Entry
    BY <2>1, DefaultTypes
  <2> QED
    BY <2>2 DEF Init
<1>1. TypeOK
    BY <1>0, DefaultTypes, VaultAssumption DEF Init, TypeOK, None, NoToken, Ops, Tokens
<1>2. LocksHeld /\ ReadFresh /\ KeyInHand
    BY DEF Init, LocksHeld, ReadFresh, KeyInHand
<1> QED
    BY <1>1, <1>2 DEF VaultInv

\* What a call does, whatever its operation.
LEMMA CallStep ==
    ASSUME VaultInv, NEW c \in Callers, NEW o \in Ops, NEW a \in Accounts,
           NEW k \in Keys \cup {NoKey}, NEW t \in Tokens, o = "key" => k \in Keys,
           Call(c, o, a, k, t),
           issued' \in Tokens, valid' \subseteq 1..issued'
    PROVE  VaultInv'
<1> USE DEF VaultInv
<1>1. TypeOK'
    BY DEF TypeOK, Call, Ops, lockVars
<1>2. LocksHeld'
    BY DEF TypeOK, Call, LocksHeld, AccountOps, lockVars
<1>3. ReadFresh'
    BY DEF TypeOK, Call, ReadFresh
<1>4. KeyInHand'
    BY DEF TypeOK, Call, KeyInHand
<1> QED
    BY <1>1, <1>2, <1>3, <1>4

\* What a caller does between its call and its return.
LEMMA ReturnStep ==
    ASSUME VaultInv, NEW c \in Callers, Return(c),
           UNCHANGED <<doc, backup, providerVars>>,
           documentLock' \in {documentLock, None},
           documentLock' # documentLock => documentLock = c
    PROVE  VaultInv'
<1> USE DEF VaultInv
<1>1. TypeOK'
    BY DefaultTypes, VaultAssumption DEF TypeOK, Return, providerVars, Ops, NoToken, None, Tokens
<1>2. LocksHeld'
    BY DEF TypeOK, Return, LocksHeld, AccountOps, providerVars
<1>3. ReadFresh'
    BY DEF TypeOK, Return, ReadFresh
<1>4. KeyInHand'
    BY DEF TypeOK, Return, KeyInHand
<1> QED
    BY <1>1, <1>2, <1>3, <1>4

LEMMA ChangedType ==
    ASSUME TypeOK, NEW c \in Callers
    PROVE  Changed(c) \in [Accounts -> Entry]
<1>1. /\ data[c] \in [Accounts -> Entry]
      /\ acct[c] \in Accounts
      /\ key[c] \in Keys \cup {NoKey}
      /\ token[c] \in Tokens
    BY DEF TypeOK
<1>0. data[c][acct[c]] \in Entry
    BY <1>1
<1>a. WithKey(data[c][acct[c]], key[c]) \in Entry
    BY <1>0, <1>1 DEF Entry, WithKey
<1>b. WithToken(data[c][acct[c]], token[c]) \in Entry
    BY <1>0, <1>1 DEF Entry, WithToken
<1>2. [data[c] EXCEPT ![acct[c]] = WithKey(@, key[c])] \in [Accounts -> Entry]
    BY <1>1, <1>a
<1>3. [data[c] EXCEPT ![acct[c]] = WithToken(@, token[c])] \in [Accounts -> Entry]
    BY <1>1, <1>b
<1>4. [data[c] EXCEPT ![acct[c]] = Missing] \in [Accounts -> Entry]
    BY <1>1, DefaultTypes
<1> QED
    BY <1>1, <1>2, <1>3, <1>4 DEF Changed

LEMMA StepInv ==
    ASSUME VaultInv, NEW c \in Callers, Step(c)
    PROVE  VaultInv'
<1> USE DEF VaultInv
<1>1. CASE LockAccount(c)
  <2>1. TypeOK'
    BY <1>1, DefaultTypes DEF TypeOK, LockAccount, callerVars, providerVars, lockVars, None, Entry
  <2>2. LocksHeld'
    BY <1>1, VaultAssumption DEF TypeOK, LockAccount, LocksHeld, AccountOps, callerVars, providerVars, lockVars, None
  <2>3. ReadFresh'
    BY <1>1 DEF TypeOK, LockAccount, ReadFresh, LocksHeld, callerVars, providerVars, lockVars
  <2>4. KeyInHand'
    BY <1>1 DEF TypeOK, LockAccount, KeyInHand, callerVars, providerVars, lockVars
  <2> QED
    BY <2>1, <2>2, <2>3, <2>4
<1>2. CASE LockDocument(c)
  <2>1. TypeOK'
    BY <1>2, DefaultTypes DEF TypeOK, LockDocument, callerVars, providerVars, lockVars, None, Entry
  <2>2. LocksHeld'
    BY <1>2, VaultAssumption DEF TypeOK, LockDocument, LocksHeld, AccountOps, callerVars, providerVars, lockVars, None
  <2>3. ReadFresh'
    BY <1>2 DEF TypeOK, LockDocument, ReadFresh, LocksHeld, callerVars, providerVars, lockVars
  <2>4. KeyInHand'
    BY <1>2 DEF TypeOK, LockDocument, KeyInHand, callerVars, providerVars, lockVars
  <2> QED
    BY <2>1, <2>2, <2>3, <2>4
<1>3. CASE ReadEntry(c)
  <2>1. TypeOK'
    BY <1>3, DefaultTypes DEF TypeOK, ReadEntry, callerVars, providerVars, lockVars, None, Entry
  <2>2. LocksHeld'
    BY <1>3, VaultAssumption DEF TypeOK, ReadEntry, LocksHeld, AccountOps, callerVars, providerVars, lockVars, None
  <2>3. ReadFresh'
    BY <1>3 DEF TypeOK, ReadEntry, ReadFresh, LocksHeld, callerVars, providerVars, lockVars
  <2>4. KeyInHand'
    BY <1>3 DEF TypeOK, ReadEntry, KeyInHand, callerVars, providerVars, lockVars
  <2> QED
    BY <2>1, <2>2, <2>3, <2>4
<1>4. CASE NotRenewed(c)
  <2>1. TypeOK'
    BY <1>4, DefaultTypes DEF TypeOK, NotRenewed, callerVars, providerVars, lockVars, None, Entry
  <2>2. LocksHeld'
    BY <1>4, VaultAssumption DEF TypeOK, NotRenewed, LocksHeld, AccountOps, callerVars, providerVars, lockVars, None
  <2>3. ReadFresh'
    BY <1>4 DEF TypeOK, NotRenewed, ReadFresh, LocksHeld, callerVars, providerVars, lockVars
  <2>4. KeyInHand'
    BY <1>4 DEF TypeOK, NotRenewed, KeyInHand, callerVars, providerVars, lockVars
  <2> QED
    BY <2>1, <2>2, <2>3, <2>4
<1>5. ASSUME NEW rotates \in BOOLEAN, Renewed(c, rotates) PROVE VaultInv'
  <2>0. issued' \in Tokens /\ valid' \subseteq 1..issued'
    BY <1>5, IssueType DEF TypeOK, Renewed, providerVars
  <2>1. TypeOK'
    BY <1>5, <2>0 DEF TypeOK, Renewed, callerVars, providerVars, lockVars
  <2>2. LocksHeld'
    BY <1>5, VaultAssumption DEF TypeOK, Renewed, LocksHeld, AccountOps, callerVars, providerVars, lockVars, None
  <2>3. ReadFresh'
    BY <1>5 DEF TypeOK, Renewed, ReadFresh, LocksHeld, callerVars, providerVars, lockVars
  <2>4. KeyInHand'
    BY <1>5 DEF TypeOK, Renewed, KeyInHand, callerVars, providerVars, lockVars
  <2> QED
    BY <2>1, <2>2, <2>3, <2>4
<1>6. CASE AnswerLost(c)
  <2>0. issued' \in Tokens /\ valid' \subseteq 1..issued'
    BY <1>6, IssueType DEF TypeOK, AnswerLost, providerVars
  <2>1. TypeOK'
    BY <1>6, <2>0 DEF TypeOK, AnswerLost, callerVars, providerVars, lockVars
  <2>2. LocksHeld'
    BY <1>6, VaultAssumption DEF TypeOK, AnswerLost, LocksHeld, AccountOps, callerVars, providerVars, lockVars, None
  <2>3. ReadFresh'
    BY <1>6 DEF TypeOK, AnswerLost, ReadFresh, LocksHeld, callerVars, providerVars, lockVars
  <2>4. KeyInHand'
    BY <1>6 DEF TypeOK, AnswerLost, KeyInHand, callerVars, providerVars, lockVars
  <2> QED
    BY <2>1, <2>2, <2>3, <2>4
<1>7. CASE NothingStored(c)
  <2>1. TypeOK'
    BY <1>7, DefaultTypes DEF TypeOK, NothingStored, callerVars, providerVars, lockVars, None, Entry
  <2>2. LocksHeld'
    BY <1>7, VaultAssumption DEF TypeOK, NothingStored, LocksHeld, AccountOps, callerVars, providerVars, lockVars, None
  <2>3. ReadFresh'
    BY <1>7 DEF TypeOK, NothingStored, ReadFresh, LocksHeld, callerVars, providerVars, lockVars
  <2>4. KeyInHand'
    BY <1>7 DEF TypeOK, NothingStored, KeyInHand, callerVars, providerVars, lockVars
  <2> QED
    BY <2>1, <2>2, <2>3, <2>4
<1>8. CASE ReadDocument(c)
  <2>1. TypeOK'
    BY <1>8, DefaultTypes DEF TypeOK, ReadDocument, callerVars, providerVars, lockVars, None, Entry
  <2>2. LocksHeld'
    BY <1>8, VaultAssumption DEF TypeOK, ReadDocument, LocksHeld, AccountOps, callerVars, providerVars, lockVars, None
  <2>3. ReadFresh'
    BY <1>8 DEF TypeOK, ReadDocument, ReadFresh, LocksHeld, callerVars, providerVars, lockVars
  <2>4. KeyInHand'
    BY <1>8 DEF TypeOK, ReadDocument, KeyInHand, callerVars, providerVars, lockVars
  <2> QED
    BY <2>1, <2>2, <2>3, <2>4
<1>9. CASE WriteDocument(c)
  <2>1. TypeOK'
    BY <1>9, ChangedType, DefaultTypes DEF TypeOK, WriteDocument, callerVars, providerVars, lockVars, None, Entry
  <2>2. LocksHeld'
    BY <1>9, VaultAssumption DEF TypeOK, WriteDocument, LocksHeld, AccountOps, callerVars, providerVars, lockVars, None
  <2>3. ReadFresh'
    BY <1>9 DEF TypeOK, WriteDocument, ReadFresh, LocksHeld, callerVars, providerVars, lockVars
  <2>4. KeyInHand'
    BY <1>9 DEF TypeOK, WriteDocument, KeyInHand, callerVars, providerVars, lockVars
  <2> QED
    BY <2>1, <2>2, <2>3, <2>4
<1>10. CASE NotWritten(c)
  <2>1. TypeOK'
    BY <1>10, DefaultTypes DEF TypeOK, NotWritten, callerVars, providerVars, lockVars, None, Entry
  <2>2. LocksHeld'
    BY <1>10, VaultAssumption DEF TypeOK, NotWritten, LocksHeld, AccountOps, callerVars, providerVars, lockVars, None
  <2>3. ReadFresh'
    BY <1>10 DEF TypeOK, NotWritten, ReadFresh, LocksHeld, callerVars, providerVars, lockVars
  <2>4. KeyInHand'
    BY <1>10 DEF TypeOK, NotWritten, KeyInHand, callerVars, providerVars, lockVars
  <2> QED
    BY <2>1, <2>2, <2>3, <2>4
<1>11. CASE Unlock(c)
    BY <1>11, ReturnStep DEF Unlock
<1> QED
    BY <1>1, <1>2, <1>3, <1>4, <1>5, <1>6, <1>7, <1>8, <1>9, <1>10, <1>11 DEF Step

LEMMA NextInv == VaultInv /\ [Next]_vars => VaultInv'
<1> SUFFICES ASSUME VaultInv, [Next]_vars PROVE VaultInv'
    OBVIOUS
<1> USE DEF VaultInv
<1>0. NoToken \in Tokens
    BY VaultAssumption DEF NoToken, Tokens
<1>1. ASSUME NEW c \in Callers, NEW a \in Accounts, oauth(c, a) \/ delete(c, a) \/ replace(c, a)
      PROVE  VaultInv'
  <2>1. issued' \in Tokens /\ valid' \subseteq 1..issued'
    BY <1>1 DEF oauth, delete, replace, TypeOK, providerVars
  <2> QED
    BY <1>1, <1>0, <2>1, CallStep DEF oauth, delete, replace, Ops
<1>2. ASSUME NEW c \in Callers, NEW a \in Accounts, NEW k \in Keys, put_api_key(c, a, k)
      PROVE  VaultInv'
  <2>1. issued' \in Tokens /\ valid' \subseteq 1..issued'
    BY <1>2 DEF put_api_key, TypeOK, providerVars
  <2> QED
    BY <1>2, <1>0, <2>1, CallStep DEF put_api_key, Ops
<1>3. ASSUME NEW c \in Callers, NEW a \in Accounts, put_oauth(c, a)
      PROVE  VaultInv'
  <2>1. issued' \in Tokens /\ valid' \subseteq 1..issued'
    BY <1>3, IssueType DEF put_oauth
  <2> QED
    BY <1>3, <2>1, CallStep DEF put_oauth, Ops
<1>4. ASSUME NEW c \in Callers, Step(c) PROVE VaultInv'
    BY <1>4, StepInv
<1>5. ASSUME NEW c \in Callers, Crash(c) PROVE VaultInv'
    BY <1>5, ReturnStep, VaultAssumption DEF Crash
<1>6. CASE Export
  <2>1. TypeOK'
    BY <1>6 DEF TypeOK, Export, providerVars, lockVars, callerVars
  <2>2. LocksHeld' /\ ReadFresh' /\ KeyInHand'
    BY <1>6 DEF TypeOK, LocksHeld, ReadFresh, KeyInHand, Export, lockVars, callerVars
  <2> QED
    BY <2>1, <2>2
<1>7. CASE UNCHANGED vars
    BY <1>7 DEF TypeOK, LocksHeld, ReadFresh, KeyInHand, vars, providerVars, lockVars, callerVars
<1> QED
    BY <1>1, <1>2, <1>3, <1>4, <1>5, <1>6, <1>7 DEF Next

THEOREM VaultInvariant == Spec => []VaultInv
<1> QED
    BY InitInv, NextInv, PTL DEF Spec

\* The variables keep their types, for every set of callers, accounts and keys
\* and with every kind of fault.
THEOREM VaultTypeCorrect == Spec => []TypeOK
<1>1. VaultInv => TypeOK
    BY DEF VaultInv
<1> QED
    BY <1>1, VaultInvariant, PTL

\* Two renewals of one account never overlap, whatever else is written, lost,
\* restored or dies: both would have the account's lock.
THEOREM RenewalsExclusive == Spec => []OneRenewal
<1>1. VaultInv => OneRenewal
    BY DEF VaultInv, LocksHeld, OneRenewal, Renewing, AccountOps
<1> QED
    BY <1>1, VaultInvariant, PTL

-----------------------------------------------------------------------------
\* A write changes the document that is there now.
LEMMA WriteImplements ==
    ASSUME VaultInv, NEW c \in Callers, WriteDocument(c)
    PROVE  Doc!Next
<1>1. /\ acct[c] \in Accounts
      /\ token[c] \in Tokens
      /\ op[c] \in Ops
    BY DEF VaultInv, TypeOK
<1>2. doc' = Changed(c) /\ backup' = backup /\ pc[c] = "write"
    BY DEF WriteDocument
<1>3. data[c] = IF op[c] = "restore" THEN backup ELSE doc
    BY <1>2 DEF VaultInv, ReadFresh
<1>8. doc \in [Accounts -> Entry]
    BY DEF VaultInv, TypeOK
<1>4. CASE op[c] = "key"
  <2>1. key[c] \in Keys
    BY <1>2, <1>4 DEF VaultInv, KeyInHand
  <2>2. Doc!SetKey(acct[c], key[c])
    BY <1>2, <1>3, <1>4, <1>8 DEF Changed, Doc!SetKey, WithKey, VaultInv, TypeOK, Entry
  <2> QED
    BY <1>1, <2>1, <2>2 DEF Doc!Next
<1>5. CASE op[c] = "delete"
  <2>1. Doc!Remove(acct[c])
    BY <1>2, <1>3, <1>5 DEF Changed, Doc!Remove, Missing, Doc!Missing
  <2> QED
    BY <1>1, <2>1 DEF Doc!Next
<1>6. CASE op[c] = "restore"
  <2>1. Doc!Restore
    BY <1>2, <1>3, <1>6 DEF Changed, Doc!Restore
  <2> QED
    BY <2>1 DEF Doc!Next
<1>7. CASE op[c] \in {"renew", "login"}
  <2>1. Doc!SetToken(acct[c], token[c])
    BY <1>2, <1>3, <1>7, <1>8 DEF Changed, Doc!SetToken, WithToken
  <2> QED
    BY <1>1, <2>1 DEF Doc!Next
<1> QED
    BY <1>1, <1>4, <1>5, <1>6, <1>7 DEF Ops

LEMMA NextImplements ==
    VaultInv /\ [Next]_vars => [Doc!Next]_(Doc!vars)
<1> SUFFICES ASSUME VaultInv, [Next]_vars
             PROVE  Doc!Next \/ UNCHANGED <<doc, backup>>
    BY DEF Doc!vars
<1>1. ASSUME NEW c \in Callers, NEW a \in Accounts,
             \/ oauth(c, a) \/ delete(c, a) \/ replace(c, a) \/ put_oauth(c, a)
             \/ \E k \in Keys : put_api_key(c, a, k)
      PROVE  UNCHANGED <<doc, backup>>
    BY <1>1 DEF oauth, delete, replace, put_oauth, put_api_key, Call
<1>2. ASSUME NEW c \in Callers, Step(c), ~WriteDocument(c)
      PROVE  UNCHANGED <<doc, backup>>
    BY <1>2 DEF Step, LockAccount, LockDocument, ReadEntry, NotRenewed, Renewed, AnswerLost,
                NothingStored, ReadDocument, NotWritten, Unlock
<1>3. ASSUME NEW c \in Callers, WriteDocument(c) PROVE Doc!Next
    BY <1>3, WriteImplements
<1>4. ASSUME NEW c \in Callers, Crash(c) PROVE UNCHANGED <<doc, backup>>
    BY <1>4 DEF Crash
<1>5. CASE Export
    BY <1>5 DEF Export, Doc!Export, Doc!Next
<1>6. CASE UNCHANGED vars
    BY <1>6 DEF vars
<1> QED
    BY <1>1, <1>2, <1>3, <1>4, <1>5, <1>6 DEF Next

\* The vault implements the document of CredentialDoc: each write is one change
\* of the document as it stands at that moment, in both processes and with
\* every kind of fault.
THEOREM VaultImplementsDoc == Spec => ImplementsDoc
<1>1. Init => Doc!Init
    BY DEF Init, Doc!Init, BareKey, Doc!BareKey, Missing, Doc!Missing
<1> QED
    BY <1>1, VaultInvariant, NextImplements, PTL DEF Spec, ImplementsDoc, Doc!Spec

-----------------------------------------------------------------------------
(* Without a restore of exported settings.                                 *)

\* No caller is putting an export back.
NoRestore == \A c \in Callers : op[c] # "restore"

\* Who else is past its account's lock is there for another account.
LEMMA LockExcludes ==
    ASSUME LocksHeld, NEW c \in Callers, NEW d \in Callers, c # d,
           op[c] \in AccountOps, op[d] \in AccountOps,
           pc[c] \notin {"idle", "account"}, pc[d] \notin {"idle", "account"}
    PROVE  acct[c] # acct[d]
BY DEF LocksHeld

\* What a write leaves in the document: the tokens of the other accounts are as
\* they were, and so is the account's own unless it is the operation's to change.
LEMMA WriteLeaves ==
    ASSUME VaultInv, NoRestore, NEW c \in Callers, WriteDocument(c)
    PROVE  \A a \in Accounts :
               doc'[a].oauth = IF a = acct[c] /\ op[c] \in AccountOps
                               THEN IF op[c] = "delete" THEN NoToken ELSE token[c]
                               ELSE doc[a].oauth
<1>1. /\ doc \in [Accounts -> Entry]
      /\ op[c] \in Ops \ {"restore"}
      /\ doc' = Changed(c)
    BY DEF VaultInv, TypeOK, NoRestore, WriteDocument
<1>2. data[c] = doc
    BY DEF VaultInv, ReadFresh, NoRestore, WriteDocument
<1>3. CASE op[c] = "key"
    BY <1>1, <1>2, <1>3 DEF Changed, AccountOps, Entry, WithKey
<1>4. CASE op[c] = "delete"
    BY <1>1, <1>2, <1>4 DEF Changed, AccountOps, Entry, Missing
<1>5. CASE op[c] \in {"renew", "login"}
    BY <1>1, <1>2, <1>5 DEF Changed, AccountOps, Entry, WithToken
<1> QED
    BY <1>1, <1>3, <1>4, <1>5 DEF Ops

\* A call changes nothing but its caller, who waits for a lock without a token
\* in hand, unless it signs in with a token that was just issued.
LEMMA CallLeaves ==
    ASSUME TypeOK, NEW c \in Callers, NEW a \in Accounts,
           \/ oauth(c, a) \/ delete(c, a) \/ replace(c, a) \/ put_oauth(c, a)
           \/ \E k \in Keys : put_api_key(c, a, k)
    PROVE  /\ pc[c] = "idle"
           /\ doc' = doc
           /\ \A d \in Callers : d # c => /\ pc'[d] = pc[d]
                                        /\ op'[d] = op[d]
                                        /\ acct'[d] = acct[d]
                                        /\ token'[d] = token[d]
           /\ pc'[c] = IF op'[c] \in AccountOps THEN "account" ELSE "document"
           /\ \/ op'[c] # "login" /\ UNCHANGED <<issued, valid>>
              \/ /\ op'[c] = "login"
                 /\ issued' = issued + 1
                 /\ valid' = valid \cup {issued'}
                 /\ token'[c] = issued'
<1>1. ASSUME NEW o, NEW k, NEW t, Call(c, o, a, k, t)
      PROVE  /\ pc[c] = "idle"
             /\ doc' = doc
             /\ \A d \in Callers : d # c => /\ pc'[d] = pc[d]
                                          /\ op'[d] = op[d]
                                          /\ acct'[d] = acct[d]
                                          /\ token'[d] = token[d]
             /\ op'[c] = o
             /\ token'[c] = t
             /\ pc'[c] = IF o \in AccountOps THEN "account" ELSE "document"
    BY <1>1 DEF Call, TypeOK
<1>2. CASE oauth(c, a)
    BY <1>1, <1>2 DEF oauth, providerVars
<1>3. CASE delete(c, a)
    BY <1>1, <1>3 DEF delete, providerVars
<1>4. CASE replace(c, a)
    BY <1>1, <1>4 DEF replace, providerVars
<1>5. CASE put_oauth(c, a)
    BY <1>1, <1>5 DEF put_oauth
<1>6. ASSUME NEW k \in Keys, put_api_key(c, a, k)
      PROVE  op'[c] = "key" /\ UNCHANGED <<issued, valid>> /\ Call(c, "key", a, k, NoToken)
    BY <1>6, <1>1 DEF put_api_key, providerVars
<1>7. CASE \E k \in Keys : put_api_key(c, a, k)
    BY <1>1, <1>6, <1>7
<1> QED
    BY <1>2, <1>3, <1>4, <1>5, <1>7

LEMMA NoRestoreNext ==
    ASSUME ~Restores, TypeOK, NoRestore, [Next]_vars
    PROVE  NoRestore'
<1>1. CASE UNCHANGED vars
    BY <1>1 DEF vars, callerVars, NoRestore
<1>2. CASE Next
    BY <1>2 DEF Next, NoRestore, TypeOK, oauth, put_api_key, delete, replace, put_oauth, Call, Step,
                LockAccount, LockDocument, ReadEntry, NotRenewed, Renewed, AnswerLost, NothingStored,
                ReadDocument, WriteDocument, NotWritten, Unlock, Return, Crash, Export, callerVars
<1> QED
    BY <1>1, <1>2

LEMMA RenewsStoredNext ==
    ASSUME VaultInv, NoRestore, RenewsStored, ~Restores, [Next]_vars
    PROVE  RenewsStored'
<1> USE DEF VaultInv
<1>1. ASSUME NEW c \in Callers, NEW a \in Accounts,
             \/ oauth(c, a) \/ delete(c, a) \/ replace(c, a) \/ put_oauth(c, a)
             \/ \E k \in Keys : put_api_key(c, a, k)
      PROVE  RenewsStored'
    BY <1>1, CallLeaves DEF RenewsStored, AccountOps
<1>2. ASSUME NEW c \in Callers, Step(c) PROVE RenewsStored'
  <2>1. CASE LockAccount(c) \/ LockDocument(c)
    BY <2>1 DEF LockAccount, LockDocument, TypeOK, RenewsStored, LocksHeld, callerVars
  <2>2. CASE ReadEntry(c) \/ NotRenewed(c) \/ AnswerLost(c)
    BY <2>2 DEF ReadEntry, NotRenewed, AnswerLost, TypeOK, RenewsStored, callerVars
  <2>3. ASSUME NEW rotates \in BOOLEAN, Renewed(c, rotates) PROVE RenewsStored'
    <3>1. doc[acct[c]].oauth # NoToken
      BY <2>3 DEF Renewed, RenewsStored, TypeOK, NoToken, Tokens
    <3> QED
      BY <2>3, <3>1 DEF Renewed, TypeOK, RenewsStored, providerVars
  <2>4. CASE NothingStored(c) \/ ReadDocument(c) \/ NotWritten(c)
    BY <2>4 DEF NothingStored, ReadDocument, NotWritten, TypeOK, RenewsStored, callerVars
  <2>5. CASE WriteDocument(c)
    <3>1. ASSUME NEW d \in Callers, d # c, op[d] = "renew",
                 pc[d] \in {"request", "document", "read", "write"}
          PROVE  doc'[acct[d]].oauth = doc[acct[d]].oauth
      <4>1. op[c] \in AccountOps => acct[d] # acct[c]
        BY <2>5, <3>1, LockExcludes DEF WriteDocument, AccountOps
      <4> QED
        BY <2>5, <4>1, WriteLeaves DEF TypeOK
    <3>2. /\ \A d \in Callers : d # c => pc'[d] = pc[d]
          /\ pc'[c] = "unlock"
          /\ UNCHANGED <<op, acct, token>>
      BY <2>5 DEF WriteDocument, TypeOK
    <3> QED
      BY <3>1, <3>2 DEF RenewsStored, LocksHeld
  <2>6. CASE Unlock(c)
    BY <2>6 DEF Unlock, Return, TypeOK, RenewsStored
  <2> QED
    BY <1>2, <2>1, <2>2, <2>3, <2>4, <2>5, <2>6 DEF Step
<1>3. ASSUME NEW c \in Callers, Crash(c) PROVE RenewsStored'
    BY <1>3 DEF Crash, Return, TypeOK, RenewsStored
<1>4. CASE Export
    BY <1>4 DEF Export
<1>5. CASE UNCHANGED vars
    BY <1>5 DEF vars, callerVars, RenewsStored
<1> QED
    BY <1>1, <1>2, <1>3, <1>4, <1>5 DEF Next

\* "a refresh must not put a deleted credential back": as long as no export is
\* restored, a renewal stores its token in an entry that is still there, with
\* any number of crashes and lost answers.
THEOREM DeletedStaysDeleted == ASSUME ~Restores PROVE Spec => NotResurrected
<1> DEFINE Inv == VaultInv /\ NoRestore /\ RenewsStored
<1>1. Init => Inv
    BY InitInv DEF Init, NoRestore, RenewsStored
<1>2. Inv /\ [Next]_vars => Inv'
    BY NextInv, NoRestoreNext, RenewsStoredNext DEF VaultInv
<1>3. Inv => \A c \in Callers : op[c] = "renew" /\ pc[c] = "write" => doc[acct[c]] # Missing
    BY DEF RenewsStored, Missing
<1>4. Inv /\ [Next]_vars =>
        [\A c \in Callers :
            /\ pc[c] = "write" /\ pc'[c] = "unlock"
            /\ op[c] = "renew"
            => doc[acct[c]] # Missing]_vars
    BY <1>3
<1> QED
    BY <1>1, <1>2, <1>4, PTL DEF Spec, NotResurrected

-----------------------------------------------------------------------------
(* Without faults: the token that is stored is one the provider takes.     *)

\* A call has no token in hand, or one that was just issued.
LEMMA CallKeeps ==
    ASSUME VaultInv, TokensApart, TokenKept, NEW c \in Callers, NEW a \in Accounts,
           \/ oauth(c, a) \/ delete(c, a) \/ replace(c, a) \/ put_oauth(c, a)
           \/ \E k \in Keys : put_api_key(c, a, k)
    PROVE  TokensApart' /\ TokenKept'
<1>0. TypeOK /\ valid \subseteq 1..issued /\ issued \in Nat
    BY DEF VaultInv, TypeOK, Tokens
<1>1. /\ pc[c] = "idle"
      /\ doc' = doc
      /\ \A d \in Callers : d # c => /\ pc'[d] = pc[d]
                                   /\ op'[d] = op[d]
                                   /\ acct'[d] = acct[d]
                                   /\ token'[d] = token[d]
      /\ pc'[c] = IF op'[c] \in AccountOps THEN "account" ELSE "document"
    BY <1>0, CallLeaves
<1>2. \/ op'[c] # "login" /\ UNCHANGED <<issued, valid>>
      \/ /\ op'[c] = "login"
         /\ issued' = issued + 1
         /\ valid' = valid \cup {issued'}
         /\ token'[c] = issued'
    BY <1>0, CallLeaves
<1>3. \A b \in Accounts : Renewing(b)' = Renewing(b)
    BY <1>1 DEF Renewing, AccountOps
<1>4. c \notin Storing /\ \A b \in Accounts : c \notin Renewing(b)
    BY <1>1 DEF Storing, Renewing
<1>5. TokenKept'
    BY <1>1, <1>2, <1>3, <1>4 DEF TokenKept, Renewing
<1>6. CASE op'[c] # "login"
  <2>1. Storing' = Storing
    BY <1>1, <1>6 DEF Storing, AccountOps
  <2> QED
    BY <1>1, <1>2, <1>4, <1>5, <1>6, <2>1 DEF TokensApart, Storing
<1>7. CASE op'[c] = "login"
  <2>1. Storing' = Storing \cup {c}
    BY <1>1, <1>7 DEF Storing, AccountOps
  <2>2. \A d \in Storing : token'[d] = token[d] /\ op'[d] = op[d] /\ acct'[d] = acct[d]
    BY <1>1, <1>4 DEF Storing
  <2>3. \A d \in Storing : token'[d] \in valid /\ token'[d] # token'[c]
    BY <1>0, <1>2, <1>7, <2>2 DEF TokensApart
  <2>4. \A b \in Accounts : doc[b].oauth \in Nat /\ doc[b].oauth # token'[c]
    BY <1>0, <1>2, <1>7 DEF TokensApart, TypeOK, Entry, Tokens
  <2>5. \A d \in Storing' :
          /\ token'[d] \in valid'
          /\ \A b \in Accounts : doc'[b].oauth = token'[d] => op'[d] = "renew" /\ b = acct'[d]
    BY <1>1, <1>2, <1>7, <2>1, <2>2, <2>4, <2>3 DEF TokensApart
  <2>6. \A d, e \in Storing' : token'[d] = token'[e] => d = e
    BY <2>1, <2>2, <2>3 DEF TokensApart
  <2>7. \A b \in Accounts : doc'[b].oauth <= issued'
    BY <1>0, <1>1, <1>2, <1>7, <2>4 DEF TokensApart
  <2> QED
    BY <1>1, <1>5, <2>5, <2>6, <2>7 DEF TokensApart
<1> QED
    BY <1>6, <1>7

\* A renewal takes the account's token out of use and has its successor in hand.
LEMMA RenewedKeeps ==
    ASSUME VaultInv, RenewsStored, TokensApart, TokenKept,
           NEW c \in Callers, NEW rotates \in BOOLEAN, Renewed(c, rotates)
    PROVE  TokensApart' /\ TokenKept'
<1>0. valid \subseteq 1..issued /\ issued \in Nat
    BY DEF VaultInv, TypeOK, Tokens
<1>1. /\ pc[c] = "request" /\ pc'[c] = "document"
      /\ op[c] = "renew" /\ acct[c] \in Accounts
      /\ token[c] \in valid /\ token[c] = doc[acct[c]].oauth
      /\ UNCHANGED <<doc, op, acct>>
      /\ \A d \in Callers : d # c => pc'[d] = pc[d] /\ token'[d] = token[d]
    BY DEF Renewed, VaultInv, TypeOK, LocksHeld, RenewsStored, providerVars
<1>2. \/ ~rotates /\ UNCHANGED <<issued, valid>> /\ token'[c] = token[c]
      \/ /\ rotates
         /\ issued' = issued + 1
         /\ valid' = (valid \ {token[c]}) \cup {issued'}
         /\ token'[c] = issued'
    BY DEF Renewed, VaultInv, TypeOK, providerVars
<1>3. Storing' = Storing \cup {c} /\ c \notin Storing
    BY <1>1 DEF Storing
<1>4. \A b \in Accounts : Renewing(b)' = Renewing(b)
    BY <1>1 DEF Renewing
\* Nobody else has the account's token in hand: it would be renewing it too.
<1>5. \A d \in Storing : d # c /\ token[d] # token[c] /\ token'[d] = token[d]
  <2> SUFFICES ASSUME NEW d \in Storing PROVE d # c /\ token[d] # token[c] /\ token'[d] = token[d]
    OBVIOUS
  <2>1. d \in Callers /\ d # c
    BY <1>3 DEF Storing
  <2>2. token[d] = token[c] => op[d] = "renew" /\ acct[d] = acct[c]
    BY <1>1 DEF TokensApart
  <2>3. op[d] = "renew" => acct[d] # acct[c]
    BY <1>1, <2>1, LockExcludes DEF VaultInv, AccountOps, Storing
  <2> QED
    BY <1>1, <2>1, <2>2, <2>3
<1>6. \A b \in Accounts : doc[b].oauth = token[c] => b = acct[c]
    BY <1>0, <1>1 DEF TokensApart, NoToken
<1>7. TokenKept'
  <2> SUFFICES ASSUME NEW b \in Accounts, doc[b].oauth # NoToken, doc[b].oauth \notin valid'
               PROVE  \E d \in Renewing(b)' : pc'[d] # "request" /\ token'[d] \in valid'
    BY <1>1 DEF TokenKept
  <2>1. CASE b = acct[c]
    BY <1>1, <1>2, <1>4, <2>1 DEF Renewing
  <2>2. CASE b # acct[c]
    <3>1. doc[b].oauth \notin valid
      BY <1>2, <1>6, <2>2
    <3>2. PICK d \in Renewing(b) : pc[d] # "request" /\ token[d] \in valid
      BY <3>1 DEF TokenKept
    <3>3. d \in Storing
      BY <3>2 DEF Renewing, Storing
    <3> QED
      BY <1>1, <1>2, <1>4, <1>5, <3>2, <3>3 DEF Storing
  <2> QED
    BY <2>1, <2>2
<1>8. TokensApart'
  <2>1. \A b \in Accounts : doc[b].oauth \in Nat /\ doc[b].oauth <= issued
    BY DEF TokensApart, VaultInv, TypeOK, Entry, Tokens
  <2>2. CASE ~rotates
    BY <1>1, <1>2, <1>3, <1>5, <1>6, <2>2 DEF TokensApart
  <2>3. CASE rotates
    <3>1. \A b \in Accounts : doc[b].oauth # token'[c] /\ doc'[b].oauth <= issued'
      BY <1>0, <1>1, <1>2, <2>1, <2>3
    <3>2. \A d \in Storing : token'[d] # token'[c] /\ token'[d] \in valid'
      BY <1>0, <1>2, <1>5, <2>3 DEF TokensApart
    <3> QED
      BY <1>1, <1>2, <1>3, <1>5, <2>3, <3>1, <3>2 DEF TokensApart
  <2> QED
    BY <2>2, <2>3
<1> QED
    BY <1>7, <1>8

\* A write puts the token in hand in the place of the account's.
LEMMA WriteKeeps ==
    ASSUME VaultInv, NoRestore, TokensApart, TokenKept, NEW c \in Callers, WriteDocument(c)
    PROVE  TokensApart' /\ TokenKept'
<1>0. valid \subseteq 1..issued /\ issued \in Nat /\ acct[c] \in Accounts
    BY DEF VaultInv, TypeOK, Tokens
<1>1. /\ pc[c] = "write" /\ pc'[c] = "unlock"
      /\ UNCHANGED <<op, acct, token, issued, valid>>
      /\ \A d \in Callers : d # c => pc'[d] = pc[d]
    BY DEF WriteDocument, VaultInv, TypeOK, providerVars
<1>2. \A a \in Accounts :
          doc'[a].oauth = IF a = acct[c] /\ op[c] \in AccountOps
                          THEN IF op[c] = "delete" THEN NoToken ELSE token[c]
                          ELSE doc[a].oauth
    BY WriteLeaves
<1>3. Storing' = Storing \ {c} /\ (op[c] \in {"renew", "login"} <=> c \in Storing)
    BY <1>1 DEF Storing
<1>4. \A b \in Accounts : Renewing(b)' = Renewing(b) \ {c}
    BY <1>1 DEF Renewing
<1>5. c \in Storing => token[c] \in valid
    BY DEF TokensApart
\* Who else has a token for this account is signing in and has yet to lock it.
<1>6. \A d \in Storing : d # c /\ op[c] \in AccountOps /\ acct[d] = acct[c] => op[d] = "login"
    BY <1>1, LockExcludes DEF VaultInv, Storing, AccountOps
<1>7. TokenKept'
  <2> SUFFICES ASSUME NEW b \in Accounts, doc'[b].oauth # NoToken, doc'[b].oauth \notin valid
               PROVE  \E d \in Renewing(b)' : pc'[d] # "request" /\ token'[d] \in valid
    BY <1>1 DEF TokenKept
  <2>1. ~(b = acct[c] /\ op[c] \in AccountOps)
    BY <1>2, <1>3, <1>5 DEF AccountOps
  <2>2. PICK d \in Renewing(b) : pc[d] # "request" /\ token[d] \in valid
    BY <1>2, <2>1 DEF TokenKept
  <2>3. d # c
    BY <2>1, <2>2 DEF Renewing, AccountOps
  <2> QED
    BY <1>1, <1>4, <2>2, <2>3 DEF Renewing
<1>8. TokensApart'
  <2>1. \A b \in Accounts : doc[b].oauth \in Nat /\ doc[b].oauth <= issued
    BY DEF TokensApart, VaultInv, TypeOK, Entry, Tokens
  <2>2. op[c] \in AccountOps /\ op[c] # "delete" => token[c] \in Nat /\ token[c] <= issued
    <3>1. op[c] \in AccountOps /\ op[c] # "delete" => token[c] \in valid
      BY <1>3, <1>5 DEF AccountOps
    <3>2. \A t \in valid : t \in 1..issued
      BY <1>0
    <3>3. \A t \in valid : t \in Nat /\ t <= issued
      BY <1>0, <3>2
    <3> QED
      BY <3>1, <3>3
  <2>3. \A b \in Accounts : doc'[b].oauth <= issued
    BY <1>0, <1>2, <2>2, <2>1 DEF NoToken
  <2>4. \A a, b \in Accounts :
          doc'[a].oauth = doc'[b].oauth => doc'[a].oauth = NoToken \/ a = b
    BY <1>2, <1>3 DEF TokensApart, AccountOps
  <2>5. \A d \in Storing' :
          /\ token[d] \in valid
          /\ \A a \in Accounts : doc'[a].oauth = token[d] => op[d] = "renew" /\ a = acct[d]
          /\ \A e \in Storing' : token[e] = token[d] => e = d
    BY <1>0, <1>2, <1>3 DEF TokensApart, AccountOps, NoToken
  <2> QED
    BY <1>1, <2>3, <2>4, <2>5 DEF TokensApart
<1> QED
    BY <1>7, <1>8

\* The other steps of a caller move no token.
LEMMA OtherStepKeeps ==
    ASSUME VaultInv, TokensApart, TokenKept, NEW c \in Callers,
           \/ LockAccount(c) \/ LockDocument(c) \/ ReadEntry(c) \/ NotRenewed(c)
           \/ NothingStored(c) \/ ReadDocument(c) \/ Unlock(c)
    PROVE  TokensApart' /\ TokenKept'
<1>1. /\ UNCHANGED <<doc, issued, valid>>
      /\ \A d \in Callers : d # c => /\ pc'[d] = pc[d]
                                   /\ op'[d] = op[d]
                                   /\ acct'[d] = acct[d]
                                   /\ token'[d] = token[d]
    BY DEF LockAccount, LockDocument, ReadEntry, NotRenewed, NothingStored, ReadDocument, Unlock,
           Return, VaultInv, TypeOK, providerVars, callerVars
<1>2. /\ c \in Storing <=> c \in Storing'
      /\ c \in Storing => op'[c] = op[c] /\ acct'[c] = acct[c] /\ token'[c] = token[c]
    BY DEF LockAccount, LockDocument, ReadEntry, NotRenewed, NothingStored, ReadDocument, Unlock,
           Return, VaultInv, TypeOK, LocksHeld, Storing, callerVars
<1>3. Storing' = Storing
    BY <1>1, <1>2 DEF Storing
<1>4. \A d \in Storing : op'[d] = op[d] /\ acct'[d] = acct[d] /\ token'[d] = token[d]
    BY <1>1, <1>2 DEF Storing
<1>5. TokensApart'
    BY <1>1, <1>3, <1>4 DEF TokensApart
<1>6. \A b \in Accounts : \A d \in Renewing(b) : pc[d] # "request" => d \in Storing
    BY DEF Renewing, Storing
<1>7. \A b \in Accounts : \A d \in Storing :
          op[d] = "renew" /\ acct[d] = b => d \in Renewing(b)' /\ pc'[d] # "request"
    BY <1>3, <1>4 DEF Storing, Renewing
<1>8. TokenKept'
    BY <1>1, <1>4, <1>6, <1>7 DEF TokenKept, Renewing
<1> QED
    BY <1>5, <1>8

LEMMA TokensNext ==
    ASSUME ~Restores, ~Lossy, ~Crashes, VaultInv, NoRestore, RenewsStored, TokensApart, TokenKept,
           [Next]_vars
    PROVE  TokensApart' /\ TokenKept'
<1>1. CASE UNCHANGED vars
    BY <1>1 DEF vars, callerVars, providerVars, TokensApart, TokenKept, Storing, Renewing
<1>2. ASSUME NEW c \in Callers, Step(c) PROVE TokensApart' /\ TokenKept'
    BY <1>2, OtherStepKeeps, RenewedKeeps, WriteKeeps DEF Step, AnswerLost, NotWritten
<1> QED
    BY <1>1, <1>2, CallKeeps DEF Next, Crash, Export

\* No writer puts "a spent refresh token back": without faults and restores the
\* token in the document is one that the provider takes, or a renewal is about
\* to store its successor, and no renewal presents a spent token.
THEOREM TokensKept ==
    ASSUME ~Restores, ~Lossy, ~Crashes
    PROVE  Spec => [](TokenKept /\ NoSpentRequest)
<1> DEFINE Inv == VaultInv /\ NoRestore /\ RenewsStored /\ TokensApart /\ TokenKept
<1>1. Init => Inv
  <2> SUFFICES ASSUME Init PROVE Inv
    OBVIOUS
  <2>1. VaultInv /\ NoRestore /\ RenewsStored
    BY InitInv DEF Init, NoRestore, RenewsStored
  <2>2. \A a \in Accounts : doc[a].oauth = NoToken
    BY DEF Init, BareKey, Missing
  <2>3. Storing = {} /\ issued = 0
    BY DEF Init, Storing
  <2> QED
    BY <2>1, <2>2, <2>3 DEF TokensApart, TokenKept, NoToken
<1>2. Inv /\ [Next]_vars => Inv'
    BY NextInv, NoRestoreNext, RenewsStoredNext, TokensNext DEF VaultInv
\* A request's token is the account's; no other renewal has its successor.
<1>3. Inv => NoSpentRequest
  <2> SUFFICES ASSUME Inv, NEW c \in Callers, pc[c] = "request",
                      token[c] # NoToken, token[c] \notin valid
               PROVE  FALSE
    BY DEF NoSpentRequest
  <2>1. token[c] = doc[acct[c]].oauth /\ acct[c] \in Accounts /\ op[c] = "renew"
    BY DEF RenewsStored, VaultInv, TypeOK, LocksHeld
  <2>2. PICK d \in Renewing(acct[c]) : pc[d] # "request"
    BY <2>1 DEF TokenKept
  <2> QED
    BY <2>1, <2>2, LockExcludes DEF Renewing, VaultInv, AccountOps
<1> QED
    BY <1>1, <1>2, <1>3, PTL DEF Spec
=============================================================================
