SPECIFICATION LiveSpec
CONSTANT Inputs <- UnknownInputs
PROPERTY Returns
