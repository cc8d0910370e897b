-------------------------------- MODULE MCScoring --------------------------------
EXTENDS Scoring

CONSTANTS heavy, light, a, b

MCSeverity == heavy :> "CRITICAL" @@ light :> "LOW"

MCSourceTypeOf == heavy :> "GLOBAL" @@ light :> "CUSTOMER"

\* Two sources share a rule, and one source has rules of both weights and types.
MCDocumentsOf == heavy :> {a, b} @@ light :> {a}
==============================================================================
