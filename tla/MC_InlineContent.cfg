CONSTANTS
    Styles = {"emphasis", "strong"}
    Contents <- MCContents
    NoBlock = NoBlock
SPECIFICATION Spec
PROPERTIES
    ContentSurvives
