-------------------------- MODULE MCSessionManager --------------------------
(* Two files: a session and its fork, or an old session and a new one.     *)
EXTENDS SessionManager

OldLine(type) == Line(type, 0, 0, 0, {})
VersionOne == <<Mark("oldSession"), OldLine("user"), OldLine("assistant")>>

NothingThere == {Absent}
AnythingThere == {<<Garbage>>, VersionOne}
===========================================================================
