------------------------------ MODULE Startup ------------------------------
(***************************************************************************)
(* How a process gets its settings and starts: the drainer                 *)
(* (src/crates/drainer: settings.rs, secrets_transformers.rs, main.rs) and *)
(* the application (src/crates/data_models/src/configs and                 *)
(* src/crates/modules/src/app.rs).  A setting comes from the environment,  *)
(* the file or the Default trait; the settings are deserialized, their     *)
(* secrets fetched, and the store and the server set up.  The drainer      *)
(* validates its settings first; the application has a validate that       *)
(* nothing calls before AppState::with_storage.                            *)
(*                                                                         *)
(* A setting is a number: 0 stands for zero, false and the empty string    *)
(* (where a validator trims, for a blank one too), Unset for a setting its *)
(* source does not give.  Sections behind a feature that no crate of the   *)
(* application has are left out.                                           *)
(***************************************************************************)
EXTENDS Integers, Sequences, FiniteSets, SequencesExt, FiniteSetsExt, TLC

CONSTANTS
  Backends,      \* of {"no_encryption", "aws_kms", "hashi_corp_vault"}
  Expiries,      \* values of redis_lock_expiry_seconds
  Delays,        \* values of delay_between_retries_in_milliseconds
  MaxU32         \* the largest u32, scaled down

Programs == {"drainer", "application"}

Unset == -1

-----------------------------------------------------------------------------
(* Settings and their defaults *)

ServerDefaults == [host |-> 1, workers |-> 1]

DatabaseDefaults == [host |-> 1, dbname |-> 0, username |-> 0, password |-> 0]

RedisDefaults ==
  [host |-> 1, cluster_enabled |-> 0, cluster_urls |-> 0,
   default_command_timeout |-> 30, unresponsive_timeout |-> 10]

DrainerSettings == [stream_name |-> 1, num_partitions |-> 64]

\* AwsKmsConfig and HashiCorpVaultConfig: two settings, both required.
ManagerDefaults == [key_id |-> 0, region |-> 0]

DrainerDefaults ==
  [server |-> ServerDefaults, master_database |-> DatabaseDefaults,
   redis |-> RedisDefaults, drainer |-> DrainerSettings,
   secrets_management |-> ManagerDefaults, encryption_management |-> ManagerDefaults]

ApplicationDefaults ==
  [server |-> ServerDefaults, master_database |-> DatabaseDefaults,
   redis |-> RedisDefaults,
   log |-> [enabled |-> 1, file_name |-> 1, path |-> 1],
   secrets |-> [jwt_secret |-> 0, admin_api_key |-> 0, recon_admin_api_key |-> 0,
                master_enc_key |-> 0],
   locker |-> [mock_locker |-> 1, host |-> 1, basilisk_host |-> 1],
   cors |-> [origins |-> 1, wildcard_origin |-> 0, max_age |-> 1, allowed_methods |-> 1],
   scheduler |-> [stream |-> 1, consumer_group |-> 1, lock_key |-> 1,
                  host |-> 1, workers |-> 1],
   jwekey |-> [vault_encryption_key |-> 0, rust_locker_encryption_key |-> 0,
               vault_private_key |-> 0, tunnel_private_key |-> 0],
   api_keys |-> [hash_key |-> 0],
   lock_settings |-> [expiry |-> 0, delay |-> 0],
   secrets_management |-> ManagerDefaults]

Defaults(program) ==
  IF program = "drainer" THEN DrainerDefaults ELSE ApplicationDefaults

\* What operators usually write: every setting there is.
Usual(program) ==
  LET d == Defaults(program) IN
  [s \in DOMAIN d |->
     [k \in DOMAIN d[s] |->
        CASE k = "default_command_timeout" -> 30
          [] k = "unresponsive_timeout" -> 10
          [] k = "expiry" -> 2
          [] k = "delay" -> 500
          [] k \in {"cluster_enabled", "wildcard_origin", "mock_locker"} -> 0
          [] OTHER -> 1]]

\* The values of a setting that is not the usual one.
Odd(k) ==
  CASE k = "expiry" -> Expiries
    [] k = "delay" -> Delays
    [] k = "default_command_timeout" -> {10, 9}
    [] OTHER -> {0, 1}

-----------------------------------------------------------------------------

VARIABLES
  program,     \* which program starts
  backend,     \* secrets_manager, and encryption_manager of the drainer
  file,        \* what the configuration file gives
  environ,     \* what the environment gives
  phase,       \* how far the process has come
  conf,        \* the settings it works with
  lock_retries,
  raw,         \* <<section, key>> of each secret fetched -> its origin and text
  todo         \* the sections whose secrets are still to be fetched

vars == <<program, backend, file, environ, phase, conf, lock_retries, raw, todo>>

Nothing(p) ==
  LET d == Defaults(p) IN [s \in DOMAIN d |-> [k \in DOMAIN d[s] |-> Unset]]

\* The usual settings, except for up to two of one section, which the file may
\* leave out or give another value, and the environment may give too; or for a
\* section that the file leaves out altogether.
Init ==
  /\ program \in Programs /\ backend \in Backends
  /\ \E s \in DOMAIN Defaults(program) :
       \/ /\ file = [Usual(program) EXCEPT ![s] = [k \in DOMAIN @ |-> Unset]]
          /\ environ = Nothing(program)
       \/ \E i, j \in DOMAIN Defaults(program)[s] :
            \E fi, ei \in {Unset} \cup Odd(i), fj, ej \in {Unset} \cup Odd(j) :
              /\ i = j => fi = fj /\ ei = ej
              /\ file = [Usual(program) EXCEPT ![s][i] = fi, ![s][j] = fj]
              /\ environ = [Nothing(program) EXCEPT ![s][i] = ei, ![s][j] = ej]
  /\ phase = "load"
  /\ conf = Nothing(program) /\ lock_retries = 0 /\ raw = <<>> /\ todo = <<>>

-----------------------------------------------------------------------------
(* Deserialization *)

\* Mutant of Given: the file has the last word.
GivenFileFirst(s, k) == IF file[s][k] # Unset THEN file[s][k] ELSE environ[s][k]

\* The sources of the builder, the later one first.
Given(s, k) == IF environ[s][k] # Unset THEN environ[s][k] ELSE file[s][k]

Mentioned(s) == \E k \in DOMAIN file[s] : Given(s, k) # Unset

\* The settings that have to be given once their section is mentioned.
Missing ==
  /\ program = "application"
  /\ \/ Mentioned("cors") /\ \E k \in {"max_age", "allowed_methods"} : Given("cors", k) = Unset
     \/ Mentioned("lock_settings") /\ \E k \in {"expiry", "delay"} : Given("lock_settings", k) = Unset

\* deserialize_hashset splits at commas: the empty text is one empty origin.
\* A list of origins is its length.
Deserialized(s, k) ==
  CASE s = "cors" /\ k = "origins" /\ Mentioned(s) ->
         IF Given(s, k) = Unset THEN 0 ELSE 1
    [] s = "cors" /\ k = "wildcard_origin" /\ Given(s, k) = Unset -> 0
    [] Given(s, k) # Unset /\ ~(s = "cors" /\ k = "origins") -> Given(s, k)
    [] OTHER -> Defaults(program)[s][k]

\* LockSettings::deserialize divides: a delay of zero ends the process.
DividesByZero ==
  program = "application" /\ Mentioned("lock_settings") /\ Given("lock_settings", "delay") = 0

\* In u32, wrapping.
LockRetries(expiry, delay) == ((expiry * 1000) % (MaxU32 + 1)) \div delay

WithConfigPath ==
  /\ phase = "load" /\ ~Missing /\ ~DividesByZero
  /\ conf' = [s \in DOMAIN file |-> [k \in DOMAIN file[s] |-> Deserialized(s, k)]]
  /\ lock_retries' = IF program = "application" /\ Mentioned("lock_settings")
                       THEN LockRetries(Given("lock_settings", "expiry"),
                                        Given("lock_settings", "delay"))
                       ELSE 0
  /\ phase' = IF program = "drainer" THEN "validate" ELSE "client"
  /\ UNCHANGED <<program, backend, file, environ, raw, todo>>

WithConfigPathFails ==
  /\ phase = "load" /\ (Missing \/ DividesByZero)
  /\ phase' = "refused"
  /\ UNCHANGED <<program, backend, file, environ, conf, lock_retries, raw, todo>>

-----------------------------------------------------------------------------
(* Validation: TRUE is an error *)

\* is_default_or_empty, which trims; ApiKeys::validate does not, so that a blank
\* hash_key counts as a text.
Blank(v) == v = 0

RedisInvalid(c) ==
  \/ Blank(c.host)
  \/ c.cluster_enabled # 0 /\ c.cluster_urls = 0
  \/ c.default_command_timeout < c.unresponsive_timeout

DatabaseInvalid(c) == Blank(c.host) \/ Blank(c.dbname) \/ Blank(c.username) \/ Blank(c.password)

\* AwsKmsConfig::validate.
KmsInvalid(c) == Blank(c.key_id) \/ Blank(c.region)

\* HashiCorpVaultConfig::validate: the url and the token.
VaultInvalid(c) == Blank(c.key_id) \/ Blank(c.region)

SecretsManagerInvalid(c) ==
  \/ backend = "aws_kms" /\ KmsInvalid(c)
  \/ backend = "hashi_corp_vault" /\ VaultInvalid(c)

\* There is no vault for encryption.
EncryptionManagerInvalid(c) == backend = "aws_kms" /\ KmsInvalid(c)

DrainerInvalid ==
  \/ Blank(conf.server.host)
  \/ DatabaseInvalid(conf.master_database)
  \/ RedisInvalid(conf.redis)
  \/ Blank(conf.drainer.stream_name)
  \/ SecretsManagerInvalid(conf.secrets_management)
  \/ EncryptionManagerInvalid(conf.encryption_management)

SecretsInvalid(c) == Blank(c.jwt_secret) \/ Blank(c.admin_api_key) \/ Blank(c.master_enc_key)

LockerInvalid(c) == c.mock_locker = 0 /\ (Blank(c.host) \/ Blank(c.basilisk_host))

CorsInvalid(c) ==
  \/ c.wildcard_origin # 0 /\ c.origins # 0
  \/ c.wildcard_origin = 0 /\ c.origins = 0

SchedulerInvalid(c) ==
  Blank(c.stream) \/ Blank(c.consumer_group) \/ Blank(c.lock_key) \/ Blank(c.host) \/ c.workers = 0

LockInvalid(c) == Blank(c.expiry) \/ Blank(c.delay) \/ lock_retries = 0

\* Settings::validate of the application.
ApplicationInvalid ==
  \/ Blank(conf.server.host) \/ conf.server.workers = 0
  \/ DatabaseInvalid(conf.master_database)
  \/ RedisInvalid(conf.redis)
  \/ conf.log.enabled # 0 /\ (Blank(conf.log.file_name) \/ Blank(conf.log.path))
  \/ SecretsInvalid(conf.secrets)
  \/ LockerInvalid(conf.locker)
  \/ CorsInvalid(conf.cors)
  \/ SchedulerInvalid(conf.scheduler)
  \/ Blank(conf.api_keys.hash_key)
  \/ LockInvalid(conf.lock_settings)
  \/ SecretsManagerInvalid(conf.secrets_management)

\* conf.validate() in main of the drainer.
Validate ==
  /\ phase = "validate"
  /\ phase' = IF DrainerInvalid THEN "refused" ELSE "client"
  /\ UNCHANGED <<program, backend, file, environ, conf, lock_retries, raw, todo>>

-----------------------------------------------------------------------------
(* Secrets *)

\* The sections with secrets, in the order of fetch_raw_secrets.
DrainerSecured == <<"master_database">>

ApplicationSecured == <<"master_database", "secrets", "jwekey", "api_keys">>

\* get_secret_management_client, with whose client fetch_raw_secrets begins.
MakeSecretsClient ==
  /\ phase = "client"
  /\ phase' \in IF backend = "hashi_corp_vault" THEN {"secrets", "panicked"} ELSE {"secrets"}
  /\ todo' = IF program = "drainer" THEN DrainerSecured ELSE ApplicationSecured
  /\ UNCHANGED <<program, backend, file, environ, conf, lock_retries, raw>>

\* The fields of a section in the order of its get_secret calls.
Fetched(s) ==
  CASE s = "master_database" -> <<"password">>
    [] s = "secrets" -> <<"jwt_secret", "admin_api_key", "recon_admin_api_key",
                          "master_enc_key">>
    [] s = "jwekey" -> <<"vault_encryption_key", "rust_locker_encryption_key",
                         "vault_private_key", "tunnel_private_key">>
    [] s = "api_keys" -> <<"hash_key">>

\* Mutant of Bound: two names of the tuple are exchanged.
BoundSwapped(s) ==
  CASE s = "master_database" -> <<"password">>
    [] s = "secrets" -> <<"jwt_secret", "admin_api_key", "recon_admin_api_key",
                          "master_enc_key">>
    [] s = "jwekey" -> <<"vault_encryption_key", "rust_locker_encryption_key",
                         "tunnel_private_key", "vault_private_key">>
    [] s = "api_keys" -> <<"hash_key">>

\* The fields in the order of the tuple that binds the results.
Bound(s) ==
  CASE s = "master_database" -> <<"password">>
    [] s = "secrets" -> <<"jwt_secret", "admin_api_key", "recon_admin_api_key",
                          "master_enc_key">>
    [] s = "jwekey" -> <<"vault_encryption_key", "rust_locker_encryption_key",
                         "vault_private_key", "tunnel_private_key">>
    [] s = "api_keys" -> <<"hash_key">>

\* The vault needs a mount and a path, and KMS refuses an empty ciphertext.
Unfetchable(s) ==
  /\ backend # "no_encryption"
  /\ \E k \in ToSet(Fetched(s)) : conf[s][k] = 0

\* get_secret: the text itself, or what KMS or the vault has for it.
GetSecret(text) == IF backend = "no_encryption" THEN text ELSE 1

\* convert_to_raw_secret and transition_state.
FetchRawSecrets ==
  LET s == Head(todo) IN
  /\ phase = "secrets" /\ todo # <<>> /\ ~Unfetchable(s)
  /\ raw' = [x \in DOMAIN raw \cup {<<s, Bound(s)[i]>> : i \in DOMAIN Bound(s)} |->
               IF x[1] = s
                 THEN LET i == CHOOSE n \in DOMAIN Bound(s) : Bound(s)[n] = x[2]
                      IN  [of |-> <<s, Fetched(s)[i]>>,
                           text |-> GetSecret(conf[s][Fetched(s)[i]])]
                 ELSE raw[x]]
  /\ todo' = Tail(todo)
  /\ UNCHANGED <<program, backend, file, environ, phase, conf, lock_retries>>

\* One get_secret that fails is enough.
FetchFails ==
  /\ phase = "secrets" /\ todo # <<>>
  /\ backend # "no_encryption"
  /\ phase' = "panicked"
  /\ UNCHANGED <<program, backend, file, environ, conf, lock_retries, raw, todo>>

\* AppState::new, the store and the web server of the drainer: each may fail.
SetUpDrainer ==
  /\ phase = "secrets" /\ todo = <<>> /\ program = "drainer"
  /\ phase' \in {"running", "panicked"}
  /\ UNCHANGED <<program, backend, file, environ, conf, lock_retries, raw, todo>>

\* AppState::with_storage: the store, whose Redis may not answer.
SetUpApplication ==
  /\ phase = "secrets" /\ todo = <<>> /\ program = "application"
  /\ phase' \in {"running", "panicked"}
  /\ UNCHANGED <<program, backend, file, environ, conf, lock_retries, raw, todo>>

Next ==
  \/ WithConfigPath \/ WithConfigPathFails \/ Validate
  \/ MakeSecretsClient \/ FetchRawSecrets \/ FetchFails
  \/ SetUpDrainer \/ SetUpApplication

Spec == Init /\ [][Next]_vars

-----------------------------------------------------------------------------
(* Properties *)

\* The documented precedence: the environment over the file.
InEffect(s, k) == IF environ[s][k] = Unset THEN file[s][k] ELSE environ[s][k]

\* The secret a running process uses is its own, fetched from what the sources
\* give for it: every field of every section is fetched, none is left as
\* ciphertext, and the results of tokio::try_join! reach the right fields.
SecretsAreOwn ==
  phase = "running" =>
    \A s \in DOMAIN conf : \A k \in DOMAIN conf[s] :
      k \in {"password", "hash_key"} \/ s \in {"secrets", "jwekey"} =>
        /\ <<s, k>> \in DOMAIN raw
        /\ raw[<<s, k>>].of = <<s, k>>
        /\ backend = "no_encryption" =>
             raw[<<s, k>>].text = IF InEffect(s, k) = Unset THEN 0 ELSE InEffect(s, k)

\* What an application waits for a lock (its retries times the delay) fits the
\* time the lock is held, whether or not it was validated: it is not longer.  With
\* settings that validate takes it tries at least once, and the wait is at most
\* one delay shorter unless the milliseconds overflow a u32.
LockWaitFitsExpiry ==
  LET c == conf.lock_settings
      wait == lock_retries * c.delay
  IN  /\ wait <= c.expiry * 1000
      /\ ~ApplicationInvalid =>
           /\ lock_retries > 0
           /\ c.expiry * 1000 <= MaxU32 => wait > c.expiry * 1000 - c.delay

\* The database, Redis and the stream have names that are not empty, whichever
\* source gave them and also when none did.
StoresAreNamed ==
  /\ \A k \in DOMAIN conf.master_database : conf.master_database[k] # 0
  /\ conf.redis.host # 0 /\ conf.drainer.stream_name # 0
  /\ conf.redis.default_command_timeout >= conf.redis.unresponsive_timeout
  /\ conf.redis.cluster_enabled # 0 => conf.redis.cluster_urls # 0

\* The settings in effect are the usual ones: a value of the file that the
\* environment overrides does not matter.
UsualInEffect ==
  \A s \in DOMAIN file : \A k \in DOMAIN file[s] : InEffect(s, k) = Usual(program)[s][k]

\* The usual settings are refused by no deserialization and no validator, that
\* of the application included, whichever source gives them; a drainer runs only
\* with stores that have names, and an application never waits for a lock longer
\* than the lock is held.
RunsOnlyUsable ==
  /\ UsualInEffect =>
       /\ phase # "refused"
       /\ program = "application" /\ phase = "client" => ~ApplicationInvalid
  /\ phase = "running" =>
       IF program = "drainer" THEN StoresAreNamed ELSE LockWaitFitsExpiry

=============================================================================
