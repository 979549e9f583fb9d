-------------------------------- MODULE Setup --------------------------------
(* Installation: `setup`, `install-models` and `install-extension` of      *)
(* cli/commands.py, the certificates of setup/tls.py and setup/mitm_ca.py, *)
(* and the leaf certificates the MITM proxy of a running daemon asks for.  *)
(* What exists is taken for whole: a command that is killed, or a download *)
(* that fails, leaves files which the next command trusts.                 *)
EXTENDS Integers, Sequences, SequencesExt

CONSTANTS
  Package,                              \* of each release, its manifest: bundles with their files
  NoFile, Cut,                          \* states of a file, besides what it was made from
  MaxSetbacks, MaxGenerations           \* bounds: kills and failed downloads, certificates

(* A manifest names at least one file of each bundle, and each bundle has  *)
(* a directory of its own.                                                 *)
List(s) == s \in Seq(ToSet(s)) /\ s # <<>>

ASSUME SetupAssumption ==
  /\ {MaxSetbacks, MaxGenerations} \subseteq Nat
  /\ NoFile # Cut /\ {NoFile, Cut} \cap Nat = {}
  /\ List(Package)
  /\ \A r \in DOMAIN Package :
       /\ List(Package[r])
       /\ \A i \in DOMAIN Package[r] : List(Package[r][i].files)
       /\ \A i, j \in DOMAIN Package[r] : Package[r][i].name = Package[r][j].name => i = j

Releases == DOMAIN Package
Bundles == UNION {ToSet(Package[r]) : r \in Releases}

VARIABLES
  release,     \* of the installed package
  manifest,    \* ~/.mnemostroma/models_manifest.json: NoFile, Cut, or its release
  models,      \* the model files on disk, as pairs of bundle name and file
  settings,    \* config.json: NoFile, Cut or "whole"
  extension,   \* the copied browser extension: NoFile, Cut (partly copied) or its release
  command,     \* the command that runs, its step and what it has in hand
  pem,         \* certificate and key files: NoFile, Cut, or the generation they belong to
  issuer,      \* generation of the authority that signed the leaf certificate
  issuing,     \* the files the command is writing
  signing,     \* the files the proxy's executor thread is writing
  proxyUp,     \* the MITM proxy listens
  generations, setbacks,
  halves       \* history: bundles half there when the command came to the models

setupVars == <<release, manifest, models, settings, extension, command, pem, issuer, issuing,
               signing, proxyUp, generations, setbacks, halves>>
onDisk == <<manifest, models, settings, extension>>
certificates == <<pem, issuer, issuing, signing, proxyUp, generations>>
setupFaults == <<release, setbacks>>

Authority == <<"ca", "cert", "key">>    \* of the passthrough proxy, in the order of writing
MitmAuthority == <<"mitm-ca", "mitm-key">>
Leaf == <<"leaf-cert", "leaf-key">>
PemKinds == {Authority, MitmAuthority, Leaf}
PemFiles == UNION {ToSet(k) : k \in PemKinds}
Shell == [name |-> "none", step |-> "none", bundle |-> 1, file |-> 1,
          force |-> FALSE, failed |-> FALSE]
NoJob == [left |-> <<>>, gen |-> 0, open |-> FALSE]

SetupInit ==
  /\ release = 1 /\ manifest = NoFile /\ models = {} /\ settings = NoFile /\ extension = NoFile
  /\ command = Shell /\ pem = [f \in PemFiles |-> NoFile] /\ issuer = 0
  /\ issuing = NoJob /\ signing = NoJob /\ proxyUp = FALSE
  /\ generations = 0 /\ setbacks = 0 /\ halves = {}

-----------------------------------------------------------------------------
(* The commands, and the steps each goes through.                          *)
Begins(name, force, step) ==
  /\ command = Shell
  /\ command' = [Shell EXCEPT !.name = name, !.force = force, !.step = step]
  /\ UNCHANGED <<onDisk, certificates, setupFaults, halves>>

RunSetup == Begins("setup", FALSE, "config")
InstallModels(force) == Begins("install-models", force, "manifest")
InstallExtension == Begins("install-extension", FALSE, "extension")

Setback == setbacks < MaxSetbacks /\ setbacks' = setbacks + 1
GoOn(step) == command' = [command EXCEPT !.step = step]
Ends == command' = Shell

Killed == Setback /\ command' = Shell

(* shutil.copy, of a config that is not there yet; whoever is killed while *)
(* it copies leaves the file cut.                                          *)
CopyConfig ==
  /\ command.step = "config"
  /\ \/ settings # NoFile /\ GoOn("manifest") /\ UNCHANGED <<settings, setbacks>>
     \/ settings = NoFile /\ settings' = "whole" /\ GoOn("manifest") /\ UNCHANGED setbacks
     \/ settings = NoFile /\ settings' = Cut /\ Killed
  /\ UNCHANGED <<manifest, models, extension, certificates, release, halves>>

(* _ensure_manifest: the package's is copied if there is none, or by force.*)
EnsureManifest ==
  LET copied == manifest = NoFile \/ command.force IN
  /\ command.step = "manifest"
  /\ \/ ~copied /\ GoOn("read manifest") /\ UNCHANGED <<manifest, setbacks>>
     \/ copied /\ manifest' = release /\ GoOn("read manifest") /\ UNCHANGED setbacks
     \/ copied /\ manifest' = Cut /\ Killed
  /\ UNCHANGED <<models, settings, extension, certificates, release, halves>>

-----------------------------------------------------------------------------
(* _install_models.  A manifest that was cut is no JSON: the command ends. *)
FilesOf(b) == {<<b.name, f>> : f \in ToSet(b.files)}
Key(b) == <<b.name, Head(b.files)>>
HalfThere(b) == Key(b) \in models /\ ~(FilesOf(b) \subseteq models)

ReadManifest ==
  /\ command.step = "read manifest"
  /\ \/ manifest = Cut /\ Ends /\ UNCHANGED halves
     \/ /\ manifest # Cut /\ GoOn("models")
        /\ halves' = {b \in ToSet(Package[manifest]) : HalfThere(b)}
  /\ UNCHANGED <<onDisk, certificates, setupFaults>>

Current == Package[manifest][command.bundle]
NextBundle == command' = [command EXCEPT !.bundle = @ + 1, !.file = 1]
NextFile == command' = [command EXCEPT !.file = @ + 1]

(* Fault model: a bundle is skipped when any of its files exists.          *)
InstalledBundleByAny(b) == FilesOf(b) \cap models # {}

(* A bundle is skipped when its first file exists.                         *)
InstalledBundle(b) == Key(b) \in models

InModels == command.step = "models" /\ command.bundle <= Len(Package[manifest])

SkipBundle ==
  /\ InModels /\ command.file = 1 /\ InstalledBundle(Current) /\ ~command.force /\ NextBundle
  /\ UNCHANGED <<onDisk, certificates, setupFaults, halves>>

(* Each file that is missing, or every file by force; a failed download is *)
(* remembered and the next file is tried.                                  *)
Fetch ==
  LET wanted == <<Current.name, Current.files[command.file]>> IN
  /\ InModels
  /\ command.file = 1 => command.force \/ ~InstalledBundle(Current)
  /\ command.file <= Len(Current.files)
  /\ \/ wanted \in models /\ ~command.force /\ NextFile /\ UNCHANGED <<models, setbacks>>
     \/ (wanted \notin models \/ command.force) /\ models' = models \union {wanted} /\ NextFile
        /\ UNCHANGED setbacks
     \/ /\ wanted \notin models \/ command.force
        /\ Setback
        /\ command' = [command EXCEPT !.file = @ + 1, !.failed = TRUE]
        /\ UNCHANGED models
  /\ UNCHANGED <<manifest, settings, extension, certificates, release, halves>>

BundleDone ==
  /\ InModels /\ command.file > Len(Current.files) /\ NextBundle
  /\ UNCHANGED <<onDisk, certificates, setupFaults, halves>>

(* sys.exit(1) after a failure; setup goes on to the certificates.         *)
ModelsDone ==
  /\ command.step = "models" /\ command.bundle > Len(Package[manifest])
  /\ IF command.failed \/ command.name = "install-models" THEN Ends ELSE GoOn("tls")
  /\ UNCHANGED <<onDisk, certificates, setupFaults, halves>>

-----------------------------------------------------------------------------
(* Fault model: of certificate files, only those that are missing are made.*)
ToGenerateMissing(kind) == SelectSeq(kind, LAMBDA f : pem[f] = NoFile)

(* Certificates.  Nothing is generated when all files of a kind exist, and *)
(* all of them otherwise, one after the other.                             *)
AllExist(kind) == \A i \in DOMAIN kind : pem[kind[i]] # NoFile
ToGenerate(kind) == IF AllExist(kind) THEN <<>> ELSE kind

Job(kind) == [left |-> ToGenerate(kind), gen |-> generations + 1, open |-> FALSE]

(* generate_passthrough_tls and, if opencode is there, generate_mitm_ca;   *)
(* without the cryptography package both raise, which setup passes over.   *)
Issue(step, kind, next) ==
  /\ command.step = step /\ issuing = NoJob /\ GoOn(next)
  /\ \/ ToGenerate(kind) # <<>> /\ issuing' = Job(kind) /\ generations' = generations + 1
     \/ UNCHANGED <<issuing, generations>>
  /\ UNCHANGED <<onDisk, pem, issuer, signing, proxyUp, setupFaults, halves>>
IssuePassthrough == Issue("tls", Authority, "opencode")
IssueMitm == Issue("opencode", MitmAuthority, "start")

(* write_bytes: the file is cut, then whole.                               *)
Written(job) ==
  IF ~job.open THEN [job EXCEPT !.open = TRUE]
  ELSE IF Len(job.left) = 1 THEN NoJob
  ELSE [job EXCEPT !.open = FALSE, !.left = Tail(@)]
Pem(job) == [pem EXCEPT ![Head(job.left)] = IF job.open THEN job.gen ELSE Cut]

WriteAuthority ==
  /\ issuing # NoJob /\ issuing' = Written(issuing) /\ pem' = Pem(issuing)
  /\ UNCHANGED <<onDisk, command, issuer, signing, proxyUp, generations, setupFaults, halves>>

-----------------------------------------------------------------------------
(* _cmd_on: the daemon comes up, its MITM proxy if the authority's files   *)
(* exist; or it ends early and setup exits before it copies the extension. *)
StartDaemon ==
  /\ command.step = "start" /\ issuing = NoJob
  /\ \/ GoOn("extension") /\ proxyUp' = (proxyUp \/ AllExist(MitmAuthority))
     \/ Ends /\ UNCHANGED proxyUp
  /\ UNCHANGED <<onDisk, pem, issuer, issuing, signing, generations, setupFaults, halves>>

(* copytree: by setup only if there is no such directory.                  *)
CopyExtension ==
  LET copied == command.name # "setup" \/ extension = NoFile IN
  /\ command.step = "extension"
  /\ \/ ~copied /\ Ends /\ UNCHANGED <<extension, setbacks>>
     \/ copied /\ extension' = release /\ Ends /\ UNCHANGED setbacks
     \/ copied /\ extension' = Cut /\ Killed
  /\ UNCHANGED <<manifest, models, settings, certificates, release, halves>>

(* The proxy, for a host it intercepts: the leaf's files are read from     *)
(* disk or generated under the lock; a cut authority cannot be loaded.     *)
SignLeaf ==
  /\ proxyUp /\ signing = NoJob /\ ToGenerate(Leaf) # <<>>
  /\ generations < MaxGenerations
  /\ \A i \in DOMAIN MitmAuthority : pem[MitmAuthority[i]] \notin {NoFile, Cut}
  /\ signing' = Job(Leaf) /\ generations' = generations + 1
  /\ issuer' = pem["mitm-key"]
  /\ UNCHANGED <<onDisk, command, pem, issuing, proxyUp, setupFaults, halves>>

WriteLeaf ==
  /\ signing # NoJob /\ signing' = Written(signing) /\ pem' = Pem(signing)
  /\ UNCHANGED <<onDisk, command, issuer, issuing, proxyUp, generations, setupFaults, halves>>

-----------------------------------------------------------------------------
KillCommand ==
  /\ command # Shell /\ Killed /\ issuing' = NoJob
  /\ UNCHANGED <<onDisk, pem, issuer, signing, proxyUp, generations, release, halves>>

KillDaemon ==
  /\ proxyUp /\ Setback
  /\ proxyUp' = FALSE /\ signing' = NoJob
  /\ UNCHANGED <<onDisk, command, pem, issuer, issuing, generations, release, halves>>

Upgrade ==
  /\ command = Shell /\ release + 1 \in Releases /\ release' = release + 1
  /\ UNCHANGED <<onDisk, command, certificates, setbacks, halves>>

InstallStep ==
  \/ CopyConfig \/ EnsureManifest
  \/ ReadManifest \/ SkipBundle \/ Fetch \/ BundleDone \/ ModelsDone
  \/ IssuePassthrough \/ IssueMitm \/ WriteAuthority
  \/ StartDaemon \/ CopyExtension

SetupNext ==
  \/ RunSetup \/ InstallExtension \/ \E force \in BOOLEAN : InstallModels(force)
  \/ InstallStep \/ SignLeaf \/ WriteLeaf
  \/ KillCommand \/ KillDaemon \/ Upgrade

-----------------------------------------------------------------------------
SetupTypeOK ==
  /\ release \in Releases /\ manifest \in Releases \union {NoFile, Cut}
  /\ models \subseteq UNION {FilesOf(b) : b \in Bundles}
  /\ settings \in {NoFile, Cut, "whole"} /\ extension \in Releases \union {NoFile, Cut}
  /\ pem \in [PemFiles -> 1..generations \union {NoFile, Cut}] /\ issuer \in 0..generations
  /\ {setbacks, generations} \subseteq Nat /\ halves \subseteq Bundles

(* When a run comes to the end of the models without a failed download, a  *)
(* bundle lacks a file only if it was half there when the run began, and   *)
(* after a run with --force none does: failures and kills of earlier runs  *)
(* cannot hide behind a bundle that is taken for installed, except the one *)
(* way the check of the first file allows (_install_models).               *)
ModelsWhole ==
  (command.step = "models" /\ command.bundle > Len(Package[manifest]) /\ ~command.failed) =>
    \A b \in ToSet(Package[manifest]) :
      ~(FilesOf(b) \subseteq models) => b \in halves /\ ~command.force

(* Certificate and key files that all exist whole belong together: killed  *)
(* runs never leave a certificate with another run's key, and the leaf is  *)
(* signed by the authority that is on disk (tls.py, mitm_ca.py).           *)
Usable(kind) == \A i \in DOMAIN kind : pem[kind[i]] \notin {NoFile, Cut}
CertificatesMatch ==
  /\ \A k \in PemKinds : Usable(k) => \A i \in DOMAIN k : pem[k[i]] = pem[k[1]]
  /\ Usable(Leaf) => issuer = pem["mitm-key"]

(* What set-up leaves, however it was interrupted, can be used as it is. *)
SetupSound == ModelsWhole /\ CertificatesMatch
=============================================================================
