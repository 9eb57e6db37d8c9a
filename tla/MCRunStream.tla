---------------------------- MODULE MCRunStream ----------------------------
\* RunStream with a worker that writes three lines, or two, to stdout and one or none to stderr.
EXTENDS RunStream

CONSTANTS c1, c2

MCLongOut == <<"text", "chunk", "finished">>
MCShortOut == <<"event", "finished">>
MCNoErr == <<>>
MCErr == <<"err">>

=============================================================================
