-------------------------------- MODULE Keys --------------------------------
(***************************************************************************)
(* The signing key of a validator: validator/src/signer, which keeps it    *)
(* encrypted in a file, and the scripts that generate, register and rotate *)
(* keys.                                                                   *)
(*                                                                         *)
(* The encryption key is SIGNER_ENCRYPTION_KEY or, when that is not set, a *)
(* random one written to a second file.  An action ends at every change of *)
(* a file or of a chain, since the process may be killed there.  A key is  *)
(* the number of its generation; so is a random encryption key.            *)
(***************************************************************************)
EXTENDS Integers

CONSTANTS
  MaxKeys,      \* bound of the model: keys ever generated
  MaxToggles    \* bound of the model: SIGNER_ENCRYPTION_KEY set or unset, crashes

VARIABLES
  file, encFile,    \* privateKeyPath, and the same with ".key"
  backups,          \* what --force moved away: both files of each
  env,              \* SIGNER_ENCRYPTION_KEY is set
  signer,           \* the key of the running validator
  announced,        \* public keys a validator or the generator has shown
  rotated,          \* keys the rotation script has saved, as plain JSON
  registered,       \* on either chain
  job,              \* what is running besides the validator, or starting it
  generated, toggles,
  orphaned          \* history: --force was killed between its two renames

vars == <<file, encFile, backups, env, signer, announced, rotated, registered,
          job, generated, toggles, orphaned>>
signerVars == <<file, encFile, backups, signer, announced, orphaned>>

None == 0
Env == -1                                     \* the key in the environment
NoFile == [key |-> None, enc |-> None]
Idle == [at |-> "idle", key |-> None]

Init ==
  /\ file = NoFile /\ encFile = None /\ backups = {} /\ env \in BOOLEAN
  /\ signer = None /\ announced = {} /\ rotated = {}
  /\ registered = [solana |-> {}, dcc |-> {}]
  /\ job = Idle /\ generated = 0 /\ toggles = 0 /\ orphaned = FALSE

(***************************************************************************)
(* ThresholdSigner                                                         *)
(***************************************************************************)
\* decryptKeyPair; any other encryption key, and no file for it, throws.
Decrypts == file.enc = (IF env THEN Env ELSE encFile) /\ file # NoFile

Load ==
  /\ job = Idle /\ signer = None /\ Decrypts
  /\ signer' = file.key /\ announced' = announced \cup {file.key}
  /\ UNCHANGED <<file, encFile, backups, env, rotated, registered, job, generated,
                 toggles, orphaned>>

\* generateDccKeyPair and the first half of saveEncryptedKey, for a validator
\* that starts or for the generator.
SaveKey ==
  LET k == generated + 1 IN
  /\ generated < MaxKeys /\ generated' = k
  /\ file' = [key |-> k, enc |-> IF env THEN Env ELSE k]

\* A validator that starts without a key file.
Start ==
  /\ job = Idle /\ signer = None /\ file = NoFile
  /\ SaveKey
  /\ job' = [at |-> "starting", key |-> generated + 1]
  /\ UNCHANGED <<encFile, backups, env, signer, announced, rotated, registered,
                 toggles, orphaned>>

\* The second half; then the public key is logged.
SaveEncryptionKey ==
  /\ job.at \in {"starting", "generating"}
  /\ encFile' = IF env THEN encFile ELSE file.enc
  /\ announced' = announced \cup {job.key}
  /\ signer' = IF job.at = "starting" THEN job.key ELSE signer
  /\ job' = Idle
  /\ UNCHANGED <<file, backups, env, rotated, registered, generated, toggles, orphaned>>

(***************************************************************************)
(* generate-validator-key.ts; a running validator goes on with the old key *)
(***************************************************************************)
Generate ==
  /\ \/ job = Idle /\ file = NoFile
     \/ job.at = "moved"
  /\ SaveKey
  /\ job' = [at |-> "generating", key |-> generated + 1]
  /\ UNCHANGED <<encFile, backups, env, signer, announced, rotated, registered,
                 toggles, orphaned>>

\* --force
MoveKey ==
  /\ job = Idle /\ file # NoFile
  /\ backups' = backups \cup {[data |-> file, enc |-> None]}
  /\ file' = NoFile
  /\ job' = [at |-> "moving", key |-> file.key]
  /\ UNCHANGED <<encFile, env, signer, announced, rotated, registered, generated,
                 toggles, orphaned>>

MoveNothing ==       \* mutation: the encryption key is not moved with its file
  /\ job.at = "moving"
  /\ job' = [job EXCEPT !.at = "moved"]
  /\ UNCHANGED <<file, encFile, backups, env, signer, announced, rotated,
                 registered, generated, toggles, orphaned>>

MoveEncryptionKey ==
  /\ job.at = "moving"
  /\ backups' = {IF b.data.key = job.key THEN [b EXCEPT !.enc = encFile] ELSE b
                 : b \in backups}
  /\ encFile' = None
  /\ job' = [job EXCEPT !.at = "moved"]
  /\ UNCHANGED <<file, env, signer, announced, rotated, registered, generated,
                 toggles, orphaned>>

(***************************************************************************)
(* rotate-validator-key.ts: each run makes another key, --remove-old too;  *)
(* register-validator.ts                                                   *)
(***************************************************************************)
Rotate ==
  /\ job = Idle /\ generated < MaxKeys /\ generated' = generated + 1
  /\ rotated' = rotated \cup {generated'}
  /\ job' = [at |-> "saved", key |-> generated']
  /\ UNCHANGED <<signerVars, env, registered, toggles>>

RegisterOnSolana ==
  \/ /\ job.at = "saved"                      \* or the script throws: see Kill
     /\ registered' = [registered EXCEPT !.solana = @ \cup {job.key}]
     /\ job' = [job EXCEPT !.at = "solana"]
     /\ UNCHANGED <<signerVars, env, rotated, generated, toggles>>
  \/ /\ job = Idle
     /\ \E k \in announced : registered' = [registered EXCEPT !.solana = @ \cup {k}]
     /\ UNCHANGED <<signerVars, env, rotated, job, generated, toggles>>

\* A failure is printed and passed over, here and in the removal.
RegisterOnDcc ==
  /\ job.at = "solana"
  /\ registered' \in {registered, [registered EXCEPT !.dcc = @ \cup {job.key}]}
  /\ job' \in {Idle, [job EXCEPT !.at = "dcc"]}
  /\ UNCHANGED <<signerVars, env, rotated, generated, toggles>>

RemoveOnSolana ==
  /\ job.at = "dcc"
  /\ \E old \in registered.solana \ {job.key} :
        /\ registered' = [registered EXCEPT !.solana = @ \ {old}]
        /\ job' = [at |-> "removed", key |-> old]
  /\ UNCHANGED <<signerVars, env, rotated, generated, toggles>>

RemoveOnDcc ==
  /\ job.at = "removed"
  /\ registered' \in {registered, [registered EXCEPT !.dcc = @ \ {job.key}]}
  /\ job' = Idle
  /\ UNCHANGED <<signerVars, env, rotated, generated, toggles>>

(***************************************************************************)
(* Operators and crashes                                                   *)
(***************************************************************************)
Kill ==
  /\ job # Idle \/ signer # None
  /\ toggles < MaxToggles /\ toggles' = toggles + 1
  /\ job' = Idle /\ signer' \in {signer, None}
  /\ orphaned' = (orphaned \/ job.at = "moving")
  /\ UNCHANGED <<file, encFile, backups, env, announced, rotated, registered, generated>>

SetEnv ==
  /\ job = Idle /\ toggles < MaxToggles /\ toggles' = toggles + 1
  /\ env' = ~env
  /\ UNCHANGED <<signerVars, rotated, registered, job, generated>>

Next ==
  \/ Load \/ Start \/ SaveEncryptionKey \/ Generate \/ MoveKey \/ MoveEncryptionKey
  \/ Rotate \/ RegisterOnSolana \/ RegisterOnDcc \/ RemoveOnSolana \/ RemoveOnDcc
  \/ Kill \/ SetEnv

Spec == Init /\ [][Next]_vars

\* Can be read from the disk, with the environment it was written under.
Kept(k) ==
  \/ k \in rotated
  \/ file.key = k /\ file.enc \in {Env, encFile}
  \/ \E b \in backups : b.data.key = k /\ b.data.enc \in {Env, b.enc}
  \/ job.at = "moving" /\ job.key = k

----------------------------------------------------------------------------
\* "In step with whatever the validator actually loads": the private part of every key that
\* was shown or registered can be recovered, however rotations, forced
\* generations, restarts, kills and changes of the environment follow each
\* other, unless --force was killed between its two renames: the next key
\* written takes the place of the encryption key that had stayed behind.
KeysKept ==
  orphaned \/ \A k \in announced \cup registered.solana \cup registered.dcc : Kept(k)
=============================================================================
