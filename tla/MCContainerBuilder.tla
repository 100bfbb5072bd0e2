------------------------- MODULE MCContainerBuilder -------------------------
\* Values for the constants of ContainerBuilder: containers as the compiler,
\* the assembler and other tools write them.
EXTENDS ContainerBuilder

P(f, b) == [fourCC |-> f, blob |-> b]

MCSizeOf == [b \in {"code", "psv", "rs", "misfit", "text", "odd"} |-> IF b = "odd" THEN 5 ELSE 8]

MCCompatible == {<<"rs", "psv">>, <<"rs", None>>, <<"misfit", None>>}

MCSources ==
  { [parts |-> <<P("DXIL", "code"), P("PSV0", "psv"), P("RTS0", "rs"), P("PRIV", "odd")>>, digest |-> "retail"],
    [parts |-> <<P("PRIV", "odd"), P("ILDB", "text"), P("DXIL", "code")>>, digest |-> "debug"],
    [parts |-> <<P("ILDB", "text"), P("RTS0", "rs"), P("ILDB", "odd")>>, digest |-> "none"] }

MCAdded == {<<"RTS0", "rs">>, <<"RTS0", "misfit">>, <<"PRIV", "odd">>, <<"ILDB", "text">>,
            <<"PSV0", "psv">>, <<"ILDB", None>>}
=============================================================================
