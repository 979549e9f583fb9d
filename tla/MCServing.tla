------------------------------- MODULE MCServing -------------------------------
(* Root of the run Serving: the parts that observe, remember and answer,   *)
(* again as machines that share no state.                                  *)
EXTENDS Inject, Experience, Ranking, HttpProxies,
        Adapters, Content, Chunks, Backups, Setup, GatewayTranslation

(* Any two entries of one subject contradict each other.                   *)
Contradicts1 == {p \in Entries \X Entries : p[1] # p[2]}
(* Input of the stdio adapter: two calls with a line that is no JSON in    *)
(* between, after a notification.                                          *)
Lines1 == <<"note", "call", "junk", "call">>
Dim1 == [e \in Embedders |-> IF e = "bge" THEN 768 ELSE 384]
(* A package of two bundles, one of which gains a file in the next release.*)
Package1 == LET a == [name |-> "a", files |-> <<"x", "y">>]
                b(fs) == [name |-> "b", files |-> fs] IN
  <<<<a, b(<<"x">>)>>, <<a, b(<<"x", "z">>)>>>>
(* Windows of one client: one sends its conversation's id back, one names  *)
(* its workspace, one does neither and runs behind another proxy.          *)
Presents1 ==
  LET window(workspace, echo, marked) ==
        [client |-> "cli", workspace |-> workspace, conversation |-> NoId,
         echo |-> echo, marked |-> marked] IN
  [c \in Chats |-> CASE c = "echoing" -> window(NoId, TRUE, FALSE)
                     [] c = "named" -> window("here", FALSE, FALSE)
                     [] OTHER -> window(NoId, FALSE, TRUE)]
Providers1 == <<[id |-> "off", enabled |-> FALSE, models |-> {<<"m">>}],
                [id |-> "p", enabled |-> TRUE, models |-> {<<"m">>, <<"p", "n">>}]>>
Models1 == {<<"p", "n">>, <<"unknown">>}
MaxOfRole1 == [system |-> 2, user |-> 2, assistant |-> 2]

VARIABLE machine
vars == <<machine, injectVars, expVars, retentionVars, calibrationVars,
          httpVars, adapterVars, contentVars, chunkVars, backupVars,
          setupVars, translationVars>>

Machines == {"inject", "experience", "retention", "calibration", "http",
             "adapters", "content", "chunks", "backups", "setup",
             "translation"}

Init ==
  /\ machine \in Machines
  /\ InjectInit
  /\ ExpInit
  /\ RetentionInit
  /\ CalibrationInit
  /\ HttpInit
  /\ AdapterInit
  /\ ContentInit
  /\ ChunkInit
  /\ BackupInit
  /\ SetupInit
  /\ TranslationInit
  /\ machine # "adapters" => malformed = {}
  /\ machine # "backups" => kept = {}

Next ==
  /\ UNCHANGED machine
  /\ machine # "inject" => UNCHANGED injectVars
  /\ machine # "experience" => UNCHANGED expVars
  /\ machine # "retention" => UNCHANGED retentionVars
  /\ machine # "calibration" => UNCHANGED calibrationVars
  /\ machine # "http" => UNCHANGED httpVars
  /\ machine # "adapters" => UNCHANGED adapterVars
  /\ machine # "content" => UNCHANGED contentVars
  /\ machine # "chunks" => UNCHANGED chunkVars
  /\ machine # "backups" => UNCHANGED backupVars
  /\ machine # "setup" => UNCHANGED setupVars
  /\ machine # "translation" => UNCHANGED translationVars
  /\ \/ machine = "inject" /\ InjectNext
     \/ machine = "experience" /\ ExpNext
     \/ machine = "retention" /\ RetentionNext
     \/ machine = "calibration" /\ CalibrationNext
     \/ machine = "http" /\ HttpNext
     \/ machine = "adapters" /\ AdapterNext
     \/ machine = "content" /\ ContentNext
     \/ machine = "chunks" /\ ChunkNext
     \/ machine = "backups" /\ BackupNext
     \/ machine = "setup" /\ SetupNext
     \/ machine = "translation" /\ TranslationNext

Spec == Init /\ [][Next]_vars

-----------------------------------------------------------------------------
TypeOK ==
  CASE machine = "inject" -> InjectTypeOK
    [] machine = "experience" -> ExpTypeOK
    [] machine = "retention" -> RetentionTypeOK
    [] machine = "calibration" -> CalibrationTypeOK
    [] machine = "http" -> HttpTypeOK
    [] machine = "adapters" -> AdapterTypeOK
    [] machine = "content" -> ContentTypeOK
    [] machine = "chunks" -> ChunkTypeOK
    [] machine = "backups" -> BackupTypeOK
    [] machine = "setup" -> SetupTypeOK
    [] machine = "translation" -> TranslationTypeOK
=============================================================================
