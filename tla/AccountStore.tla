---------------------------- MODULE AccountStore ----------------------------
(***************************************************************************)
(* app/storage/account_store.py: credentials at rest under an optional     *)
(* master password.                                                        *)
(*                                                                         *)
(* An operation is a sequence of database calls with code between them.    *)
(* The calls of all operations queue on the one fair lock of Database, and *)
(* the code after a call runs on to the operation's next call before the   *)
(* next one in the queue gets the lock: an action is one call and what     *)
(* follows it.  Login, listing and the settings page use the same rows.    *)
(*                                                                         *)
(* A key is the password and salt it is derived from, and stands for its   *)
(* SHA-1, too.  Stored credentials are the keys they are encrypted under,  *)
(* innermost first.                                                        *)
(***************************************************************************)
EXTENDS Integers, Sequences, FiniteSets

CONSTANTS
    Email, Password,
    Op,             \* requests that may be under way together
    None,           \* model value: no key, salt, hash or row
    MaxRequests,    \* bound: requests
    MaxRestarts     \* bound: restarts of the process

ASSUME StoreAssumption ==
    /\ IsFiniteSet(Email) /\ IsFiniteSet(Op)
    /\ MaxRequests \in Nat /\ MaxRestarts \in Nat
    /\ None \notin Password \cup Nat \cup (Password \X Nat) \cup Seq(Password \X Nat)

VARIABLES
    salt, hash,     \* settings master_pass_salt, master_pass_hash
    row,            \* the mega_accounts table
    master_key,     \* self._master_key
    op,             \* the operation of each request: its next call and its locals
    lock_queue,     \* Database._lock: operations in the order they get it
    salts,          \* salts drawn so far
    requests, restarts,       \* the bounded counters
    serial,         \* requests come one at a time, each after the last one's response
    disturbed       \* history: whether a change was "cut" short by a restart, was made on
                    \* a "locked" store or "raised", or an account was "deleted" during one

settingVars == <<salt, hash>>
countVars == <<salts, requests, restarts, serial>>
storeVars == <<settingVars, row, master_key, op, lock_queue, countVars, disturbed>>

derive_master_key(p, s) == <<p, s>>

Idle == [call |-> "none"]
StoreInit ==
    /\ salt = None /\ hash = None
    /\ row = [e \in Email |-> None]
    /\ master_key = None
    /\ op = [o \in Op |-> Idle] /\ lock_queue = <<>>
    /\ salts = 0 /\ requests = 0 /\ restarts = 0 /\ serial \in BOOLEAN
    /\ disturbed = {}

-----------------------------------------------------------------------------
(* The database lock.                                                       *)

\* Faulty variant: whoever waits may get it.
AnyTurn == DOMAIN lock_queue
\* Where in the queue the lock is granted.
Turn == {1} \cap DOMAIN lock_queue

At(o, call) == op[o].call = call /\ \E i \in Turn : lock_queue[i] = o
Dequeued(i) == SubSeq(lock_queue, 1, i - 1) \o SubSeq(lock_queue, i + 1, Len(lock_queue))
Rest(o) == Dequeued(CHOOSE i \in Turn : lock_queue[i] = o)

\* The operation goes on to its next call, or returns.
Continue(o, locals) == op' = [op EXCEPT ![o] = locals] /\ lock_queue' = Append(Rest(o), o)
Finish(o) == op' = [op EXCEPT ![o] = Idle] /\ lock_queue' = Rest(o)

\* A change of the master password is under way.
Changes(o) ==
    op[o].call \in {"set_read", "set_salt", "set_hash", "set_sessions", "set_accounts", "set_upsert"}
Changing == \E o \in Op : Changes(o)

Request(o, locals) ==
    /\ op[o].call = "none" /\ requests < MaxRequests
    /\ serial => lock_queue = <<>>
    /\ requests' = requests + 1
    /\ op' = [op EXCEPT ![o] = locals] /\ lock_queue' = Append(lock_queue, o)
    /\ UNCHANGED <<settingVars, row, master_key, salts, restarts, serial, disturbed>>

-----------------------------------------------------------------------------
(* unlock                                                                   *)

Unlock(o) ==
    \E p \in Password : Request(o, [call |-> "unlock_salt", password |-> p])

UnlockReadSalt(o) ==
    /\ At(o, "unlock_salt")
    /\ Continue(o, [call |-> "unlock_hash", password |-> op[o].password, salt_b64 |-> salt])
    /\ UNCHANGED <<settingVars, row, master_key, countVars, disturbed>>

Matches(key) == key = hash

UnlockReadHash(o) ==
    LET key == derive_master_key(op[o].password, op[o].salt_b64) IN
    /\ At(o, "unlock_hash")
    /\ master_key' = IF op[o].salt_b64 # None /\ Matches(key) THEN key ELSE master_key
    /\ Finish(o)
    /\ UNCHANGED <<settingVars, row, countVars, disturbed>>

-----------------------------------------------------------------------------
(* set_master_password: a new password, or None to remove it.               *)

SetMasterPassword(o) ==
    \E p \in Password \cup {None} :
        Request(o, [call |-> "set_read", new_password |-> p, old_key |-> master_key])

\* Up to the salt: fresh, or about to be deleted.
SetRead(o) ==
    LET new == op[o].new_password
        drawn == salts + 1
        was_encrypted == hash # None IN
    /\ At(o, "set_read")
    /\ salts' = IF new = None THEN salts ELSE drawn
    /\ Continue(o, [call |-> "set_salt", old_key |-> op[o].old_key, was_encrypted |-> was_encrypted,
                    new_key |-> IF new = None THEN None ELSE derive_master_key(new, drawn)])
    /\ disturbed' = disturbed \cup
         IF was_encrypted /\ op[o].old_key = None THEN {"locked"} ELSE {}
    /\ UNCHANGED <<settingVars, row, master_key, requests, restarts, serial>>

SetSalt(o) ==
    LET key == op[o].new_key IN
    /\ At(o, "set_salt")
    /\ salt' = IF key = None THEN None ELSE key[2]
    /\ Continue(o, [op[o] EXCEPT !.call = "set_hash"])
    /\ UNCHANGED <<hash, row, master_key, countVars, disturbed>>

\* The hash, and after it the sessions, which nothing here reads.
SetHash(o) ==
    /\ At(o, "set_hash")
    /\ hash' = op[o].new_key
    /\ Continue(o, [op[o] EXCEPT !.call = "set_sessions"])
    /\ UNCHANGED <<salt, row, master_key, countVars, disturbed>>

SetSessions(o) ==
    /\ At(o, "set_sessions")
    /\ Continue(o, [op[o] EXCEPT !.call = "set_accounts"])
    /\ UNCHANGED <<settingVars, row, master_key, countVars, disturbed>>

Under(key) == IF key = None THEN <<>> ELSE <<key>>

\* Decryption fails (bad padding) unless the outermost key is the given one.
Outermost(stored) == IF stored = <<>> THEN None ELSE stored[Len(stored)]
Decrypts(locals) == locals.was_encrypted /\ locals.old_key # None
Undecryptable(locals, stored) == Decrypts(locals) /\ Outermost(stored) # locals.old_key
\* Faulty variant: encrypts what is stored as it is.
ReencryptedInPlace(locals, stored) == stored \o Under(locals.new_key)
Reencrypted(locals, stored) ==
    (IF Decrypts(locals) THEN SubSeq(stored, 1, Len(stored) - 1) ELSE stored)
        \o Under(locals.new_key)

KeyAfter(locals) == locals.new_key

\* The loop over the accounts read at once; an exception leaves it.
NextAccount(o, accounts) ==
    LET locals == op[o]
        left == {e \in Email : accounts[e] # None} IN
    \/ /\ left = {}
       /\ master_key' = KeyAfter(locals)
       /\ Finish(o) /\ UNCHANGED disturbed
    \/ \E e \in left :
         \/ /\ Undecryptable(locals, accounts[e])
            /\ Finish(o) /\ disturbed' = disturbed \cup {"raised"} /\ UNCHANGED master_key
         \/ /\ ~Undecryptable(locals, accounts[e])
            /\ Continue(o, [call |-> "set_upsert", old_key |-> locals.old_key,
                            was_encrypted |-> locals.was_encrypted, new_key |-> locals.new_key,
                            stored |-> Reencrypted(locals, accounts[e]),
                            accounts |-> [accounts EXCEPT ![e] = None], email |-> e])
            /\ UNCHANGED <<master_key, disturbed>>

SetAccounts(o) ==
    /\ At(o, "set_accounts")
    /\ NextAccount(o, row)
    /\ UNCHANGED <<settingVars, row, countVars>>

SetUpsert(o) ==
    /\ At(o, "set_upsert")
    /\ row' = [row EXCEPT ![op[o].email] = op[o].stored]
    /\ NextAccount(o, op[o].accounts)
    /\ UNCHANGED <<settingVars, countVars>>

-----------------------------------------------------------------------------
(* persist_mega_login, delete_mega_account.                                 *)

Login(o) ==
    \E e \in Email : Request(o, [call |-> "login_read", email |-> e])

IsLocked == hash # None /\ master_key = None

\* LockedError, or the credentials under the key in memory.
LoginRead(o) ==
    /\ At(o, "login_read")
    /\ IF IsLocked
       THEN Finish(o)
       ELSE Continue(o, [call |-> "login_upsert", stored |-> Under(master_key),
                         email |-> op[o].email])
    /\ UNCHANGED <<settingVars, row, master_key, countVars, disturbed>>

LoginUpsert(o) ==
    /\ At(o, "login_upsert")
    /\ row' = [row EXCEPT ![op[o].email] = op[o].stored]
    /\ Finish(o)
    /\ UNCHANGED <<settingVars, master_key, countVars, disturbed>>

Delete(o) ==
    \E e \in Email : Request(o, [call |-> "delete", email |-> e])

DeleteRow(o) ==
    /\ At(o, "delete")
    /\ row' = [row EXCEPT ![op[o].email] = None]
    /\ Finish(o)
    /\ disturbed' = disturbed \cup
         IF Changing /\ row[op[o].email] # None THEN {"deleted"} ELSE {}
    /\ UNCHANGED <<settingVars, master_key, countVars>>

-----------------------------------------------------------------------------
\* The process dies with whatever is under way, and forgets the key.
Restart ==
    /\ restarts < MaxRestarts /\ restarts' = restarts + 1
    /\ master_key' = None
    /\ op' = [o \in Op |-> Idle] /\ lock_queue' = <<>>
    /\ disturbed' = disturbed \cup IF Changing THEN {"cut"} ELSE {}
    /\ UNCHANGED <<settingVars, row, salts, requests, serial>>

Step(o) ==
    \/ UnlockReadSalt(o) \/ UnlockReadHash(o)
    \/ SetRead(o) \/ SetSalt(o) \/ SetHash(o) \/ SetSessions(o) \/ SetAccounts(o) \/ SetUpsert(o)
    \/ LoginRead(o) \/ LoginUpsert(o) \/ DeleteRow(o)

StoreNext ==
    \/ \E o \in Op : Unlock(o) \/ SetMasterPassword(o) \/ Login(o) \/ Delete(o) \/ Step(o)
    \/ Restart

StoreSpec == StoreInit /\ [][StoreNext]_storeVars

-----------------------------------------------------------------------------
(* Properties.                                                              *)

\* Between changes, salt, hash and the key in memory belong together, or no
\* password would unlock the store, or an older key would be used: though they
\* change one by one, and unlocks, logins and other changes run in between
\* (account_store.py:65, 79-83, 115).  This is of changes that ran to their end on
\* an unlocked store, with no account deleted under them.  Overlap alone can make
\* one raise, when the key it began with has been replaced by the time it reads
\* the accounts, and the key in memory is then another's.
KeysAgree ==
    ~Changing /\ disturbed = {} =>
        /\ salt = IF hash = None THEN None ELSE hash[2]
        /\ master_key \in {None, hash}

Readable == \A e \in Email : row[e] \in {None, Under(hash)}
Unbroken == disturbed \cap {"cut", "locked"} = {}

\* list_mega_accounts can read every account with the current password, after
\* any sequence of requests, as long as each waits for the last one, no change
\* is cut short by a crash and none is made while the store is locked.
AccountsReadable == serial /\ Unbroken /\ lock_queue = <<>> => Readable
=============================================================================
