----------------------------- MODULE MCSavedConfig -----------------------------
(* Small instances of SavedConfig.                                         *)
EXTENDS SavedConfig


\* One interface, its keys and parameters.
OneVif == {0}
OneQueue == {0}
OneKeyId == {0}
NoAddrs == {}
NoLists == {}
NoConfChanges == {}
MCBssChanges == {{"BSSID"}, {"ERP_SLOT", "ASSOC"}}

\* Two interfaces and the settings they share.
TwoVifs == {0, 1}
TwoAddrs == {"a", "b"}
TwoLists == {<<"a">>, <<"b", "a">>}
MCConfChanges == {{"POWER", "CHANNEL", "RETRY"}}
OneBssChange == {{"DTIM_PERIOD", "BASIC_RATES", "BEACON_INT"}}
================================================================================
