SPECIFICATION Spec
CONSTANTS
    MaxDepth = 4
    MaxImport = 2
    Samples <- PlainSamples
    Shapes = {"none", "pass", "twice", "field", "map", "object", "capture", "through"}
    EvaluateValue <- MCEvaluateValue
    EvaluateRemap <- MCEvaluateRemap
    DevaluateForResult <- MCDevaluateForResult
    JsToWire <- MCJsToWire
    JsFromWire <- JsEvaluate
    Parts <- Within
INVARIANT EveryValueEchoes
