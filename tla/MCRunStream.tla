---------------------------- MODULE MCRunStream ----------------------------
EXTENDS RunStream

MCChunks == {<<"a">>, <<"b">>}

\* The wrappings the frameworks put around a guarded tool's envelope.
MCWrappings == {<<>>, <<"json">>, <<"content", "json">>, <<"list", "artifact">>}
=============================================================================
