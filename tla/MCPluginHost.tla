---------------------------- MODULE MCPluginHost ----------------------------
(* Instance of PluginHost for TLC: entries that stay in the plugin's         *)
(* directory, leave it, or are absolute, and a claim on a core capability.   *)
EXTENDS PluginHost

MCEntries == {<<"bin", "run">>, <<"..", "this", "run">>, <<"..", "run">>, <<"/", "run">>, <<>>}
MCClaims == {{}, {"open.url"}, {"open.url", "tap.keys"}}
MCCoreIDs == {"tap.keys"}
=============================================================================
