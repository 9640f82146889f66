CONSTANTS
  MaxVersion = 1
  Products <- MCLoaderAndSection
SPECIFICATION Spec
INVARIANTS
  LoaderMerged
