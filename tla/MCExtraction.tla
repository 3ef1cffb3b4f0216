----------------------------- MODULE MCExtraction -----------------------------
EXTENDS Extraction

MCParts == <<"exefs", "control">>
MCFiles == [exefs |-> {"main", "main.npdm"}, control |-> {"control.nacp", "icon"}]
MCSize == "main" :> 3 @@ "main.npdm" :> 1 @@ "control.nacp" :> 3 @@ "icon" :> 0
MCOverlaps == {<<"main", "main.npdm">>}
=============================================================================
