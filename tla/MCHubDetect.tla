---------------------------- MODULE MCHubDetect ----------------------------
(* Sinks for the search: hubs in and out of the known chip range, a Synaptics *)
(* branch without remote control, another branch that claims the capability. *)
EXTENDS HubDetect

MCAnswers == {Mute, {"syn", "vmm", "cap"}, {"syn", "cap"}, {"syn", "vmm"}, {"vmm", "cap"}}
=============================================================================
