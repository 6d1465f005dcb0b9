--------------------------- MODULE LiveRunSettings ---------------------------
(***************************************************************************)
(* The settings published for the next steps of one live run               *)
(* (runner/live_settings.rs): the settings the next step will use, and the *)
(* ones captured by the step that owns the outstanding tool calls.  Both   *)
(* are gone once the run has ended.                                        *)
(***************************************************************************)

CONSTANT NoConfig

LiveSettingsType(Config) == [next     : Config \cup {NoConfig},
                             captured : Config \cup {NoConfig}]

NewLiveSettings(config) == [next |-> config, captured |-> NoConfig]

ClosedSettings == [next |-> NoConfig, captured |-> NoConfig]

CaptureStep(s) == [next |-> s.next, captured |-> s.next]

\* update returns false, and changes nothing, once the settings are closed.
UpdateApplies(s) == s.next # NoConfig
Update(s, config) == [next |-> config, captured |-> s.captured]
=============================================================================
