------------------------------- MODULE MCScan --------------------------------
(* Scan for TLC: what the source volume may hold.                          *)
EXTENDS Scan

\* A text file between two media files.
PlainWalk == << <<"a">>, <<"notes">>, <<"z">> >>
PlainMedia == {<<"a">>, <<"z">>}

\* What ToUrl and GetPath make of names, and when ToUrl panics.
ASSUME Conversions ==
    /\ SourcePath(<<"a">>) = <<"a">> /\ TargetPath(<<"a">>) = <<"a">>
    /\ SourcePath(<<"b", "source", "source">>) = <<"b", "source">>
    /\ TargetPath(<<"target", "a">>) = TargetPath(<<"a">>)
    /\ SourcePath(<<"a", "%20", "#", "b", "?", "c">>) = <<"a", " ">>
    /\ ToUrlPanics(<<"a", "%">>) /\ ToUrlPanics(<<"?", "#", "%">>)
    /\ ToUrlPanics(<<"%", "?">>) /\ ~ ToUrlPanics(<<"?", "%", "#">>)
    /\ ~ ToUrlPanics(<<"a", "%20">>)
=============================================================================
