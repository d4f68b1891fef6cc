SPECIFICATION MaskSpec
CONSTANTS
    NotANumber = NotANumber
    MaskTexts <- MCMaskTexts
INVARIANT AcceptedMaskRuns
