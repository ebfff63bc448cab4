-------------------------- MODULE MCEventsWatcher --------------------------
(* One channel of the Slack bot with its event files.                      *)
EXTENDS EventsWatcher
===========================================================================
