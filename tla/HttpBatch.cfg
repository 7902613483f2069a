SPECIFICATION Spec
CONSTANTS
    MaxDepth = 4
    MaxImport = 2
    Samples <- MCSamples
    Shapes = {"none", "pass", "twice", "field", "map", "object", "capture", "through"}
    EvaluateValue <- MCEvaluateValue
    EvaluateRemap <- MCEvaluateRemap
    DevaluateForResult <- MCDevaluateForResult
    JsToWire <- MCJsToWire
    JsFromWire <- JsEvaluate
    Parts <- Within
INVARIANTS JsGetsWhatItSent OnlyFirstCallsReturn 
