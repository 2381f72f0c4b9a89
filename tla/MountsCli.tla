------------------------------ MODULE MountsCli ------------------------------
(***************************************************************************)
(* The commands that change the configuration file and the credentials it  *)
(* refers to: `mounts add`, `mounts remove`, `secrets set`, `setup-service`*)
(* and its wizard (cli/src/mounts_cmd.rs, secrets_cmd.rs, commands.rs,     *)
(* wizard.rs), the loader they validate against (config/src/lib.rs) and    *)
(* the secret stores (config/src/secrets.rs).                              *)
(*                                                                         *)
(* One operator runs one command at a time and edits the file in between.  *)
(* A command can be killed, and any store, probe, write or installer can   *)
(* fail, at each of its steps.  Values of credentials are not modelled,    *)
(* only which reference holds one.                                         *)
(***************************************************************************)
EXTENDS Naturals, FiniteSets

CONSTANTS Ids,          \* mount ids
          Legacy,       \* "vault", the id a legacy vaultPath is converted under
          Places,       \* the values of mountAt
          Top,          \* mountAt "", the root
          Stores,       \* the secret stores this machine has
          MaxCommands   \* bound: commands, edits and restores of one behaviour

ASSUME CliAssumption ==
  /\ IsFiniteSet(Ids) /\ Legacy \in Ids /\ Top \in Places
  /\ Stores \subseteq {"osKeyring", "encryptedFile"}
  /\ MaxCommands \in Nat

Kinds == {"filesystem", "couchdb", "algolia"}
Flags == {"multiVault", "couchdbVaults", "algoliaVaults"}
Purposes == {"key", "passphrase"}    \* password or API key; E2EE passphrase

Token == <<"http-auth-token">>
EmbeddingToken == <<"embedding-api-key">>

\* A reference is a store and a name in it; the mounts' names are derived from
\* their ids.
Ref == {"osKeyring", "encryptedFile"} \X ((Ids \X Purposes) \cup {Token, EmbeddingToken})

Mount == [at : Places, kind : Kinds, refs : SUBSET Ref]
NoMount == [at |-> "none", kind |-> "none", refs |-> {}]

Conf == [vault : BOOLEAN,                 \* a legacy vaultPath
         mounts : [Ids -> Mount \cup {NoMount}],
         flags : SUBSET Flags,            \* experimental
         auth : SUBSET Ref,               \* auth.tokenRef, or nothing
         embedding : SUBSET Ref]          \* embedding.apiKeyRef, or nothing
Empty == [vault |-> FALSE, mounts |-> [i \in Ids |-> NoMount], flags |-> {}, auth |-> {}, embedding |-> {}]

File == [is : {"absent", "torn", "whole"}, conf : Conf]
Absent == [is |-> "absent", conf |-> Empty]
Torn == [is |-> "torn", conf |-> Empty]
Whole(c) == [is |-> "whole", conf |-> c]

VARIABLES
  config,   \* the configuration file
  bak,      \* the file next to it that the last change kept
  stored,   \* the references that hold a credential, in either store
  cmd,      \* the command being run
  runs,     \* how many have been
  gone,     \* history: what a rollback or disabling auth deleted, and nothing stored since
  last,     \* history: the last whole file that config was
  excused   \* history: config was overwritten unchanged, or unreadable, so bak is not last

vars == <<config, bak, stored, cmd, runs, gone, last, excused>>

Cmd == [name : {"none", "add", "remove", "setup", "wizard"},
        at : {"idle", "store", "probe", "ask", "recap", "provision", "write", "backed", "writing", "install"},
        next : Conf,             \* the configuration it is building
        id : Ids,                \* the mount it is adding
        todo : SUBSET Purposes,  \* the credentials that mount still needs
        mine : SUBSET Ref,       \* those of the mount that are stored
        undo : SUBSET Ref]       \* WizardState::stored, or AppendedMount::stored
Idle == [name |-> "none", at |-> "idle", next |-> Empty, id |-> Legacy, todo |-> {}, mine |-> {}, undo |-> {}]

TypeOK ==
  /\ config \in File /\ bak \in File /\ last \in File
  /\ stored \subseteq Ref /\ gone \subseteq Ref
  /\ cmd \in Cmd
  /\ runs \in 0 .. MaxCommands
  /\ excused \in BOOLEAN

----------------------------------------------------------------------------
(* The loader.                                                             *)

Declared(mounts) == {i \in Ids : mounts[i] # NoMount}

Gate(kind) == CASE kind = "couchdb" -> {"couchdbVaults"} [] kind = "algolia" -> {"algoliaVaults"} [] OTHER -> {}

\* normalize_mounts: the ids are unique by construction.
TableLoads(mounts) ==
  /\ \A i, j \in Declared(mounts) : mounts[i].at = mounts[j].at => i = j
  /\ \E i \in Declared(mounts) : mounts[i].at = Top

\* normalize_service_config.
Loads(c) ==
  IF Declared(c.mounts) = {} THEN c.vault
  ELSE /\ ~c.vault
       /\ TableLoads(c.mounts)
       /\ \A i \in Declared(c.mounts) : Gate(c.mounts[i].kind) \subseteq c.flags
       /\ Cardinality(Declared(c.mounts)) > 1 => "multiVault" \in c.flags

Refs(c) == (UNION {c.mounts[i].refs : i \in Ids}) \cup c.auth \cup c.embedding

----------------------------------------------------------------------------
Init ==
  /\ config = Absent /\ bak = Absent /\ last = Absent
  /\ stored = {} /\ gone = {}
  /\ cmd = Idle /\ runs = 0 /\ excused = FALSE

Files == <<config, bak, last, excused>>
Secrets == <<stored, gone>>

Starts(c) ==
  /\ cmd.at = "idle" /\ runs < MaxCommands
  /\ runs' = runs + 1
  /\ cmd' = c

\* The command ends here; the credentials in D are deleted on the way out.
Ends(D) ==
  /\ cmd' = Idle
  /\ stored' = stored \ D
  /\ gone' = gone \cup (D \cap stored)
  /\ UNCHANGED runs

\* roll_back_stored_secrets: some of the deletions may fail.
RollsBack == \E D \in SUBSET cmd.undo : Ends(D)

\* A command that fails: run_with_io catches every error of the wizard.
Fails == IF cmd.name = "wizard" THEN RollsBack ELSE Ends({})

Puts(r) == stored' = stored \cup {r} /\ gone' = gone \ {r}

----------------------------------------------------------------------------
(* append_mount, for `mounts add` and for the wizard.                      *)

\* base_mount_table: a legacy vaultPath becomes an explicit root mount.
BaseTable(c) ==
  IF c.vault THEN [c.mounts EXCEPT ![Legacy] = [at |-> Top, kind |-> "filesystem", refs |-> {}]]
  ELSE c.mounts

\* build_mount and candidate_config, under the flags the operator confirms.
Candidate(c, a) ==
  LET table == [BaseTable(c) EXCEPT ![a.id] = [at |-> a.at, kind |-> a.kind, refs |-> {}]]
  IN  [c EXCEPT !.vault = FALSE, !.mounts = table,
                !.flags = @ \cup Gate(a.kind) \cup
                          (IF Cardinality(Declared(table)) > 1 THEN {"multiVault"} ELSE {})]

\* The whole table is validated before any credential is asked for.
Additions(c) ==
  {a \in [id : Ids, at : Places, kind : Kinds] : BaseTable(c)[a.id] = NoMount /\ Loads(Candidate(c, a))}

Needs(kind) ==
  CASE kind = "filesystem" -> {{}}
    [] kind = "algolia" -> {{"key"}}
    [] OTHER -> {{"key"}, {"key", "passphrase"}}

Adding(a, todo) == [cmd EXCEPT !.at = "store", !.id = a.id, !.todo = todo,
                               !.next = Candidate(cmd.next, a), !.mine = {}]

Add ==
  /\ config.is = "whole"
  /\ \E a \in Additions(config.conf) : \E todo \in Needs(a.kind) :
       Starts([Idle EXCEPT !.name = "add", !.at = "store", !.id = a.id, !.todo = todo,
                           !.next = Candidate(config.conf, a)])
  /\ UNCHANGED <<Files, Secrets>>

\* append_and_gate
AddInWizard ==
  /\ cmd.at = "ask" /\ cmd.name = "wizard"
  /\ \E a \in Additions(cmd.next) : \E todo \in Needs(a.kind) : cmd' = Adding(a, todo)
  /\ UNCHANGED <<Files, Secrets, runs>>

Stored(r) == [cmd EXCEPT !.todo = @ \ {r[2][2]}, !.mine = @ \cup {r}]

\* Mutant: the mount keeps the reference it was validated with, wherever the
\* credential went.
StoreDerived ==
  /\ cmd.at = "store"
  /\ \E p \in cmd.todo, store \in Stores :
       Puts(<<store, <<cmd.id, p>>>>) /\ cmd' = Stored(<<"osKeyring", <<cmd.id, p>>>>)
  /\ UNCHANGED <<Files, runs>>

\* store_mount_secret: the keyring, or the file when there is none.  The
\* password is asked for first.
Store ==
  /\ cmd.at = "store"
  /\ \E p \in cmd.todo, store \in Stores :
       /\ "key" \in cmd.todo => p = "key"
       /\ Puts(<<store, <<cmd.id, p>>>>)
       /\ cmd' = Stored(<<store, <<cmd.id, p>>>>)
  /\ UNCHANGED <<Files, runs>>

\* All are stored: the mount is rebuilt around the references that hold them.
AllStored ==
  /\ cmd.at = "store" /\ cmd.todo = {}
  /\ cmd' = [cmd EXCEPT !.at = "probe", !.undo = @ \cup cmd.mine, !.next.mounts[cmd.id].refs = cmd.mine]
  /\ UNCHANGED <<Files, Secrets, runs>>

\* A blank line, the end of the input, or no store at all: what was stored
\* before it stays.
StoreFails ==
  /\ cmd.at = "store" /\ cmd.todo # {}
  /\ Fails
  /\ UNCHANGED Files

\* The probe passed, or its failure is accepted.
Probe ==
  /\ cmd.at = "probe"
  /\ cmd' = [cmd EXCEPT !.at = IF cmd.name = "add" THEN "write" ELSE "ask"]
  /\ UNCHANGED <<Files, Secrets, runs>>

ProbeFails ==
  /\ cmd.at = "probe"
  /\ RollsBack
  /\ UNCHANGED Files

----------------------------------------------------------------------------
(* `mounts remove` and `secrets set`.                                      *)

\* The credentials stay.  The root goes last, and the last mount not at all.
Remove ==
  /\ config.is = "whole"
  /\ \E i \in Declared(config.conf.mounts) :
       LET next == [config.conf EXCEPT !.mounts[i] = NoMount]
       IN  /\ config.conf.mounts[i].at # Top
           /\ Loads(next)
           /\ Starts([Idle EXCEPT !.name = "remove", !.at = "write", !.next = next])
  /\ UNCHANGED <<Files, Secrets>>

\* rotate: the value goes where the file says, and nowhere else.
SecretsSet ==
  /\ config.is = "whole"
  /\ \E r \in Refs(config.conf) : Puts(r)
  /\ Starts(Idle)
  /\ UNCHANGED Files

----------------------------------------------------------------------------
(* `setup-service` and its wizard.                                         *)

\* A declared table is left alone; an unreadable file is refused.
SetupService ==
  /\ config.is # "torn" /\ Declared(config.conf.mounts) = {}
  /\ Starts([Idle EXCEPT !.name = "setup", !.at = "provision", !.next = [config.conf EXCEPT !.vault = TRUE]])
  /\ UNCHANGED <<Files, Secrets>>

\* drive: an unreadable file is taken for none.
Wizard ==
  /\ Declared(config.conf.mounts) = {}
  /\ \E local \in BOOLEAN :
       Starts([Idle EXCEPT !.name = "wizard", !.at = "ask",
                           !.next = [config.conf EXCEPT !.vault = @ \/ local]])
  /\ UNCHANGED <<Files, Secrets>>

\* ask_embeddings, store_embedding_key.
EmbeddingKey ==
  /\ cmd.at = "ask"
  /\ \E store \in Stores :
       LET r == <<store, EmbeddingToken>>
       IN  /\ Puts(r)
           /\ cmd' = [cmd EXCEPT !.at = "recap", !.undo = @ \cup {r}, !.next.embedding = {r}]
  /\ UNCHANGED <<Files, runs>>

\* No embeddings leave a mount table's as they were; no key removes the reference.
NoEmbeddingKey ==
  /\ cmd.at = "ask"
  /\ \E kept \in {{}, IF cmd.next.vault THEN {} ELSE cmd.next.embedding} :
       cmd' = [cmd EXCEPT !.at = "recap", !.next.embedding = kept]
  /\ UNCHANGED <<Files, Secrets, runs>>

\* An answer that ends the wizard, up to the recap.
Abandon ==
  /\ cmd.at \in {"ask", "recap"}
  /\ RollsBack
  /\ UNCHANGED Files

\* finish: a table is validated again, a local root is resolved over the file.
Recap ==
  /\ cmd.at = "recap"
  /\ Loads(cmd.next)
  /\ cmd.next.vault => config.is # "torn"
  /\ cmd' = [cmd EXCEPT !.at = "provision"]
  /\ UNCHANGED <<Files, Secrets, runs>>

Provisioned(auth) == cmd' = [cmd EXCEPT !.at = "write", !.next.auth = auth]

\* provision_auth_token: a token that is configured is kept, and must be there.
EnableAuth ==
  /\ cmd.at = "provision"
  /\ IF cmd.next.auth # {}
     THEN cmd.next.auth \subseteq stored /\ Provisioned(cmd.next.auth) /\ UNCHANGED Secrets
     ELSE \E store \in Stores :
            Puts(<<store, Token>>) /\ Provisioned({<<store, Token>>})
  /\ UNCHANGED <<Files, runs>>

\* deprovision_auth_token: the token is deleted before the file is written.
DisableAuth ==
  /\ cmd.at = "provision"
  /\ \E D \in {{}, cmd.next.auth} :
       stored' = stored \ D /\ gone' = gone \cup (D \cap stored)
  /\ Provisioned({})
  /\ UNCHANGED <<Files, runs>>

KeepAuth ==
  /\ cmd.at = "provision"
  /\ Provisioned(cmd.next.auth)
  /\ UNCHANGED <<Files, Secrets, runs>>

\* Without --overwrite, setup-service leaves a file whose auth does not change.
SkipWrite ==
  /\ cmd.at = "provision" /\ cmd.name = "setup" /\ config.is = "whole"
  /\ Ends({})
  /\ UNCHANGED Files

\* No store, no token, no directory.
ProvisionFails ==
  /\ cmd.at \in {"provision", "write"}
  /\ Fails
  /\ UNCHANGED Files

----------------------------------------------------------------------------
(* write_config_with_backup.                                               *)

\* Mutant: the backup is made of what was just written.
BackUpNothing ==
  /\ cmd.at = "write"
  /\ cmd' = [cmd EXCEPT !.at = "backed"]
  /\ UNCHANGED <<Files, Secrets, runs>>

\* back_up_config_before_overwrite, unless nothing changes or there is no file.
BackUp ==
  /\ cmd.at = "write"
  /\ cmd' = [cmd EXCEPT !.at = "backed"]
  /\ bak' = IF config.is = "absent" \/ config = Whole(cmd.next) THEN bak ELSE config
  /\ excused' = (config = Whole(cmd.next) \/ config.is = "torn")
  /\ UNCHANGED <<config, last, Secrets, runs>>

\* The copy is cut off.
BackUpFails ==
  /\ cmd.at = "write" /\ config.is # "absent" /\ config # Whole(cmd.next)
  /\ bak' = Torn
  /\ excused' = (excused \/ config.is = "torn")
  /\ Fails
  /\ UNCHANGED <<config, last>>

\* write_config_file truncates the file, then fills it.
Truncate ==
  /\ cmd.at = "backed"
  /\ config' = Torn
  /\ cmd' = [cmd EXCEPT !.at = "writing"]
  /\ UNCHANGED <<bak, last, excused, Secrets, runs>>

Fill ==
  /\ cmd.at = "writing"
  /\ config' = Whole(cmd.next) /\ last' = Whole(cmd.next)
  /\ cmd' = IF cmd.name \in {"setup", "wizard"} THEN [cmd EXCEPT !.at = "install"] ELSE Idle
  /\ UNCHANGED <<bak, excused, Secrets, runs>>

WriteFails ==
  /\ cmd.at \in {"backed", "writing"}
  /\ Fails
  /\ UNCHANGED Files

\* run_installers
Install ==
  /\ cmd.at = "install"
  /\ Ends({})
  /\ UNCHANGED Files

InstallFails ==
  /\ cmd.at = "install"
  /\ Fails
  /\ UNCHANGED Files

----------------------------------------------------------------------------
\* The process is killed: whatever it was writing stays as it is.
Killed ==
  /\ cmd.at # "idle"
  /\ Ends({})
  /\ UNCHANGED Files

\* The operator edits the file, and may let a mount share another's credentials.
Edit ==
  /\ config.is = "whole"
  /\ \E i, j \in Declared(config.conf.mounts) :
       LET next == [config.conf EXCEPT !.mounts[i].refs = config.conf.mounts[j].refs]
       IN  config.conf.mounts[i].kind = config.conf.mounts[j].kind
           /\ next # config.conf
           /\ config' = Whole(next) /\ last' = Whole(next)
  /\ Starts(Idle)
  /\ UNCHANGED <<bak, excused, Secrets>>

\* The backup is renamed back.
Restore ==
  /\ config.is = "torn" /\ bak.is = "whole"
  /\ config' = bak /\ last' = bak
  /\ bak' = Absent
  /\ Starts(Idle)
  /\ UNCHANGED <<excused, Secrets>>

Next ==
  \/ Add \/ AddInWizard \/ Store \/ AllStored \/ StoreFails \/ Probe \/ ProbeFails
  \/ Remove \/ SecretsSet
  \/ SetupService \/ Wizard \/ EmbeddingKey \/ NoEmbeddingKey \/ Abandon \/ Recap
  \/ EnableAuth \/ DisableAuth \/ KeepAuth \/ SkipWrite \/ ProvisionFails
  \/ BackUp \/ BackUpFails \/ Truncate \/ Fill \/ WriteFails \/ Install \/ InstallFails
  \/ Killed \/ Edit \/ Restore

Spec == Init /\ [][Next]_vars

----------------------------------------------------------------------------
(* Properties.                                                             *)

\* Whatever is cut off or fails, a configuration file that is whole loads, and
\* every reference in it holds its credential, but for one a rollback or
\* disabling auth has deleted.
ConfigServes ==
  config.is = "whole" => Loads(config.conf) /\ Refs(config.conf) \subseteq stored \cup gone

\* A file that was cut off while being written can be restored: the backup is
\* the last whole one, but for a file rewritten unchanged or already unreadable.
Recoverable == config.is = "torn" /\ ~excused => bak = last
=============================================================================
