SPECIFICATION Spec
CONSTANTS
    ToolSignatures <- MCToolSignatures
    ReturnOf <- MCReturnOf
    Texts = {0, 1}
    Secrets = {secret1, secret2}
    Widths = {0, 2, 3}
    Width = 2
    ErrorText = error_text
    None = none
    MaxLayers = 3
    Batches <- MCBatches
    MaxCalls = 2
SYMMETRY SecretSymmetry
INVARIANT TypeOK
INVARIANT BindRefusedForCause
INVARIANT ArgumentsArrive
INVARIANT MetricsMatchOutcomes
INVARIANT WidthsAreAsAsked
INVARIANT AnswersAreOfAlikeCalls
