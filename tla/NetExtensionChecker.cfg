SPECIFICATION Spec
PROPERTIES DetectsChange
