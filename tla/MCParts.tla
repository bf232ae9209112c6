------------------------------ MODULE MCParts ------------------------------
(***************************************************************************)
(* The parts of the system that share no state with one another, on small  *)
(* sets: the task updater on S3, the files of an agent on S3, the handler  *)
(* with and without a RemoteAgent before it, the server, the tool loop of  *)
(* a model and the builder of its prompts.  A behaviour is about one part; *)
(* the others stay as they are.                                            *)
(***************************************************************************)
EXTENDS MCS3, S3File, MCTransport, Server, Conversation, Prompt

VARIABLE about  \* the part this behaviour is about

handlerVars == <<transportVars, remoteVars>>

MCInit ==
  /\ about \in {"s3", "file", "transport", "server", "conversation", "prompt"}
  /\ S3Init /\ FileInit /\ MCTransportInit /\ ServerInit /\ ConvInit /\ PromptInit
  /\ about # "file" => object = Missing
  /\ about # "transport" => config.auth = "jwt"
  /\ about # "server" => ~onLambda
  /\ about # "conversation" => provider = "ollama"

MCNext ==
  /\ \/ /\ about = "s3" /\ S3Next
        /\ UNCHANGED <<fileVars, handlerVars, serverVars, convVars, promptVars>>
     \/ /\ about = "file" /\ FileNext
        /\ UNCHANGED <<s3Vars, handlerVars, serverVars, convVars, promptVars>>
     \/ /\ about = "transport" /\ MCTransportNext
        /\ UNCHANGED <<s3Vars, fileVars, serverVars, convVars, promptVars>>
     \/ /\ about = "server" /\ ServerNext
        /\ UNCHANGED <<s3Vars, fileVars, handlerVars, convVars, promptVars>>
     \/ /\ about = "conversation" /\ ConvNext
        /\ UNCHANGED <<s3Vars, fileVars, handlerVars, serverVars, promptVars>>
     \/ /\ about = "prompt" /\ PromptNext
        /\ UNCHANGED <<s3Vars, fileVars, handlerVars, serverVars, convVars>>
  /\ UNCHANGED about

MCPartsVars == <<about, s3Vars, fileVars, handlerVars, serverVars, convVars, promptVars>>

MCSpec == MCInit /\ [][MCNext]_MCPartsVars

=============================================================================
